--------------------------- MODULE PayrollEngine ---------------------------
(***************************************************************************)
(* calculatePayroll, the pure function from an input with its complete     *)
(* parameter version to the lines and totals of a month.                   *)
(*                                                                         *)
(* An amount is an integer: how many of the smallest fraction the          *)
(* arithmetic keeps.  decimal.js keeps 28 significant digits and rounds    *)
(* half up what a quotient has beyond them; here an amount keeps One       *)
(* fractions of a peso.  A date is the number yyyymmdd, which orders as    *)
(* the ISO string does.  Labels, explanations and the trace are left out.  *)
(***************************************************************************)
EXTENDS Integers, SequencesExt

CONSTANTS
  One,               \* fractions in a peso
  Inputs,          \* sets of PayrollInputs, by the aspect in which they vary
  Open,            \* no end of a tier, or of a version
  SortedTiers(_)   \* Array.prototype.sort by fromCompletedYears

\* The sort of the seniority tiers keeps them and orders them.
ASSUME SortAssumption ==
  \A aspect \in DOMAIN Inputs : \A in \in Inputs[aspect] :
    LET tiers == in.parameters.seniority.tiers
        sorted == SortedTiers(tiers)
    IN /\ DOMAIN sorted = 1..Len(tiers)
       /\ \A i \in DOMAIN tiers : \E j \in DOMAIN sorted : sorted[j] = tiers[i]
       /\ \A j \in DOMAIN sorted : \E i \in DOMAIN tiers : sorted[j] = tiers[i]
       /\ \A i, j \in DOMAIN sorted :
            i < j => sorted[i].fromCompletedYears <= sorted[j].fromCompletedYears

\* PayrollParameterVersion: the codes of the hours and of the zones are those of v.
Tier == [fromCompletedYears : Nat, toCompletedYears : Nat \union {Open}, percentage : Int]
Contributed(bearers) ==
  [borneBy : bearers, basis : STRING, percentage : Int, amount : Int]
VersionLike(v) ==
  [status : STRING, source : STRING, isFixture : BOOLEAN, preparedBy : STRING,
   approvedBy : STRING, effectiveFrom : Nat, effectiveTo : Nat \union {Open},
   conceptUnit : Nat \ {0}, totalUnit : Nat \ {0},
   mode : {"HALF_UP", "HALF_EVEN", "DOWN", "UP"},
   categories : Seq([category : STRING, liveIn : STRING, monthlyMinimum : Int,
                     hourlyMinimum : Int]),
   seniority : [enabled : BOOLEAN, basis : STRING, tiers : Seq(Tier)],
   overtime : [enabled : BOOLEAN, kinds : [DOMAIN v.overtime.kinds -> Nat], divisor : Nat],
   holiday : [enabled : BOOLEAN, multiplier : Nat],
   zone : [enabled : BOOLEAN, zones : [DOMAIN v.zone.zones -> Int]],
   vacation : [enabled : BOOLEAN, divisor : Nat],
   annualBonus : [enabled : BOOLEAN, divisor : Nat],
   absence : [enabled : BOOLEAN, divisor : Nat],
   contributions : Seq(Contributed({"WORKER", "EMPLOYER"})),
   workRisk : [enabled : BOOLEAN, borneBy : {"EMPLOYER"}, basis : STRING,
               percentage : Int, amount : Int]]

\* PayrollInput
Event == [type : STRING, days : Nat, amount : Int, approved : BOOLEAN]
Additional ==
  [sign : {"CREDIT", "DEBIT"}, justified : BOOLEAN, accepted : BOOLEAN, amount : Int]
InputLike(in) ==
  [parameters : VersionLike(in.parameters), month : Int, calendarDays : Int,
   from : Nat, to : Nat, category : STRING, liveIn : STRING, scheme : STRING,
   agreed : Int, normalMinutes : Nat, overtime : Seq([kind : STRING, minutes : Nat]),
   holidayMinutes : Nat, startDate : Nat, zone : STRING, events : Seq(Event),
   annualBonus : [applies : BOOLEAN, best : Int, months : Int],
   additionalConcepts : Seq(Additional)]

ASSUME InputsAssumption ==
  /\ One \in Nat \ {0}
  /\ Open \notin Int
  /\ \A aspect \in DOMAIN Inputs : \A in \in Inputs[aspect] : in \in InputLike(in)

VARIABLES input, result
vars == <<input, result>>

----------------------------------------------------------------------------
(* Money *)

\* A quotient, half away from zero at the last fraction
Nearest(n, d) ==
  IF n >= 0 THEN (2*n + d) \div (2*d) ELSE -((d - 2*n) \div (2*d))

Hours(minutes) == Nearest(minutes * One, 60)
Times(x, decimal) == Nearest(x * decimal, One)
Percentage(x, p) == Nearest(x * p, 100)

RoundsUpBelowHalf(quotient, rest, unit, mode) ==
  \/ mode = "UP" /\ rest > 0
  \/ mode = "HALF_UP" /\ rest > 0 /\ 2*rest <= unit
  \/ mode = "HALF_EVEN" /\ (2*rest > unit \/ (2*rest = unit /\ quotient % 2 = 1))
RoundsUp(quotient, rest, unit, mode) ==
  \/ mode = "UP" /\ rest > 0
  \/ mode = "HALF_UP" /\ 2*rest >= unit
  \/ mode = "HALF_EVEN" /\ (2*rest > unit \/ (2*rest = unit /\ quotient % 2 = 1))

\* toDecimalPlaces: away from zero or towards it, as the mode says
Round(x, unit, mode) ==
  LET size == IF x < 0 THEN -x ELSE x
      quotient == size \div unit
      up == IF RoundsUp(quotient, size % unit, unit, mode) THEN 1 ELSE 0
      rounded == (quotient + up) * unit
  IN IF x < 0 THEN -rounded ELSE rounded

RoundConcept(v, x) == Round(x, v.conceptUnit, v.mode)
RoundTotal(v, x) == Round(x, v.totalUnit, v.mode)

----------------------------------------------------------------------------
(* Lists: Money.sum and filter, as recursive functions, so that what they    *)
(* compute can be proved by induction                                        *)

SumOf(f) ==
  LET sum[n \in 0..Len(f)] == IF n = 0 THEN 0 ELSE sum[n - 1] + f[n]
  IN sum[Len(f)]

\* The elements of s at the positions in I, in order
Kept(s, I) ==
  LET kept[n \in 0..Len(s)] ==
        IF n = 0 THEN <<>>
        ELSE IF n \in I THEN Append(kept[n - 1], s[n]) ELSE kept[n - 1]
  IN kept[Len(s)]
Where(s, P(_)) == Kept(s, {i \in DOMAIN s : P(s[i])})

AmountWhere(lines, P(_)) ==
  SumOf([i \in DOMAIN lines |-> IF P(lines[i]) THEN lines[i].amount ELSE 0])
Total(lines, sign) == AmountWhere(lines, LAMBDA l : l.sign = sign)

----------------------------------------------------------------------------
(* The parameter version *)

OverlapInside(previous, current) ==
  current.fromCompletedYears < previous.toCompletedYears
Overlap(previous, current) ==
  current.fromCompletedYears <= previous.toCompletedYears

TiersAreOrdered(tiers) ==
  LET sorted == SortedTiers(tiers) IN
  \A i \in 1..Len(tiers) - 1 :
    /\ sorted[i].toCompletedYears # Open
    /\ ~Overlap(sorted[i], sorted[i + 1])

\* validateParameterVersion finds no problem.
ValidVersion(v) ==
  /\ v.source # "blank"
  /\ v.isFixture <=> v.source = "fixture"
  /\ v.status = "PUBLISHED" =>
       v.preparedBy # "none" /\ v.approvedBy # "none" /\ v.preparedBy # v.approvedBy
  /\ v.categories # <<>>
  /\ \A i, j \in DOMAIN v.categories :
       i # j => \/ v.categories[i].category # v.categories[j].category
                \/ v.categories[i].liveIn # v.categories[j].liveIn
  /\ v.seniority.enabled => TiersAreOrdered(v.seniority.tiers)

\* findCategoryScale: the position of the first, or 0
FindScale(in) ==
  SelectInSeq(in.parameters.categories,
    LAMBDA s : s.category = in.category /\ s.liveIn = in.liveIn)

CompletedYears(start, reference) ==
  LET years == (reference \div 10000) - (start \div 10000)
      early == reference % 10000 < start % 10000
  IN IF years - (IF early THEN 1 ELSE 0) > 0
     THEN years - (IF early THEN 1 ELSE 0) ELSE 0

Covers(tier, years) ==
  /\ years >= tier.fromCompletedYears
  /\ tier.toCompletedYears = Open \/ years <= tier.toCompletedYears

----------------------------------------------------------------------------
(* What each concept is worth *)

Line(code, sign, quantity, rate, amount) ==
  [code |-> code, sign |-> sign, quantity |-> quantity, rate |-> rate, amount |-> amount]
Only(condition, line) == IF condition THEN <<line>> ELSE <<>>

Monthly(in) == in.scheme = "MONTHLY"

HourlyValue(in) ==
  IF Monthly(in) THEN Nearest(in.agreed, in.parameters.overtime.divisor) ELSE in.agreed

\* An hour's value, times the rate in tenths, for so many minutes
HourlyAmount(in, tenths, minutes) ==
  RoundConcept(in.parameters,
    Times(Nearest(HourlyValue(in) * tenths, 10), Hours(minutes)))

DailyValueRounded(in, divisor) ==
  RoundConcept(in.parameters, Nearest(in.agreed, divisor))
DailyValue(in, divisor) == Nearest(in.agreed, divisor)

BaseLine(in) ==
  IF Monthly(in)
  THEN Line("BASE_MONTHLY", "CREDIT", 0, 0, RoundConcept(in.parameters, in.agreed))
  ELSE Line("BASE_HOURLY", "CREDIT", in.normalMinutes, 10,
            HourlyAmount(in, 10, in.normalMinutes))

OvertimeLines(in) ==
  LET rule == in.parameters.overtime
      known == Where(in.overtime, LAMBDA e : e.minutes # 0 /\ e.kind \in DOMAIN rule.kinds)
  IN IF rule.enabled
     THEN [i \in DOMAIN known |->
            Line("OVERTIME", "CREDIT", known[i].minutes, rule.kinds[known[i].kind],
                 HourlyAmount(in, rule.kinds[known[i].kind], known[i].minutes))]
     ELSE <<>>

HolidayLine(in) ==
  LET rule == in.parameters.holiday IN
  Only(rule.enabled /\ in.holidayMinutes > 0,
    Line("HOLIDAY_WORKED", "CREDIT", in.holidayMinutes, rule.multiplier,
         HourlyAmount(in, rule.multiplier, in.holidayMinutes)))

YearsOf(in) == CompletedYears(in.startDate, in.to)
TierOf(in) ==
  SelectInSeq(in.parameters.seniority.tiers, LAMBDA t : Covers(t, YearsOf(in)))

SeniorityLine(in) ==
  LET rule == in.parameters.seniority
      basis == BaseLine(in).amount +
        (IF rule.basis = "BASE_PLUS_OVERTIME" THEN Total(OvertimeLines(in), "CREDIT") ELSE 0)
  IN IF rule.enabled /\ TierOf(in) # 0
     THEN <<Line("SENIORITY", "CREDIT", YearsOf(in), rule.tiers[TierOf(in)].percentage,
             RoundConcept(in.parameters,
               Percentage(basis, rule.tiers[TierOf(in)].percentage)))>>
     ELSE <<>>

ZoneIsKnown(in) ==
  in.parameters.zone.enabled /\ in.zone \in DOMAIN in.parameters.zone.zones
ZoneLine(in) ==
  IF in.zone # "none" /\ ZoneIsKnown(in)
  THEN LET percentage == in.parameters.zone.zones[in.zone] IN
       <<Line("UNFAVORABLE_ZONE", "CREDIT", 0, percentage,
          RoundConcept(in.parameters, Percentage(BaseLine(in).amount, percentage)))>>
  ELSE <<>>

\* sumApprovedEventDays
CountsAnyway(event, type) == event.type = type
Counts(event, type) == event.type = type /\ event.approved
ApprovedDays(in, type) ==
  SumOf([i \in DOMAIN in.events |->
          IF Counts(in.events[i], type) THEN in.events[i].days ELSE 0])

VacationLine(in) ==
  LET rule == in.parameters.vacation
      days == ApprovedDays(in, "VACATION")
  IN Only(rule.enabled /\ days > 0,
       Line("VACATION", "CREDIT", days, rule.divisor,
         RoundConcept(in.parameters, DailyValue(in, rule.divisor) * days)))

AnnualBonusLine(in) ==
  LET rule == in.parameters.annualBonus
      months == in.annualBonus.months
      proportion == IF months < 0 THEN 0 ELSE IF months > 6 THEN 6 ELSE months
  IN Only(rule.enabled /\ in.annualBonus.applies,
       Line("ANNUAL_BONUS", "CREDIT", proportion, rule.divisor,
         RoundConcept(in.parameters,
           Nearest(Nearest(in.annualBonus.best, rule.divisor) * proportion, 6))))

UnpaidDays(in) == ApprovedDays(in, "ABSENCE_UNJUSTIFIED") + ApprovedDays(in, "UNPAID_LEAVE")
AbsenceLine(in) ==
  LET rule == in.parameters.absence IN
  Only(rule.enabled /\ UnpaidDays(in) > 0,
    Line("ABSENCE_DEDUCTION", "DEBIT", UnpaidDays(in), rule.divisor,
      RoundConcept(in.parameters, DailyValue(in, rule.divisor) * UnpaidDays(in))))

AdvanceLines(in) ==
  LET advances == Where(in.events, LAMBDA e : Counts(e, "ADVANCE")) IN
  [i \in DOMAIN advances |->
    Line("ADVANCE_DEDUCTION", "DEBIT", 0, 0,
         RoundConcept(in.parameters, advances[i].amount))]

\* A discount without a justification blocks and is left out.
Unjustified(concept) == concept.sign = "DEBIT" /\ ~concept.justified
AdditionalLines(in) ==
  LET applied == Where(in.additionalConcepts, LAMBDA c : ~Unjustified(c)) IN
  [i \in DOMAIN applied |->
    Line("ADDITIONAL", applied[i].sign, 0, 0,
         RoundConcept(in.parameters, applied[i].amount))]

ConceptLines(in) ==
  <<BaseLine(in)>> \o OvertimeLines(in) \o HolidayLine(in) \o SeniorityLine(in)
    \o ZoneLine(in) \o VacationLine(in) \o AnnualBonusLine(in) \o AbsenceLine(in)
    \o AdvanceLines(in) \o AdditionalLines(in)

----------------------------------------------------------------------------
(* Contributions and totals *)

\* percentage of the gross, or an amount
Contribution(in, c, gross) ==
  RoundConcept(in.parameters,
    IF c.basis = "FIXED_AMOUNT" THEN c.amount ELSE Percentage(gross, c.percentage))

SignOfAny(c) == "DEBIT"
SignOf(c) == IF c.borneBy = "WORKER" THEN "DEBIT" ELSE "INFORMATIONAL"

ContributionLines(in, gross) ==
  LET items == in.parameters.contributions
      risk == in.parameters.workRisk
  IN [i \in DOMAIN items |->
       Line("CONTRIBUTION", SignOf(items[i]), 0, 0, Contribution(in, items[i], gross))]
     \o Only(risk.enabled,
          Line("WORK_RISK_INSURANCE", "INFORMATIONAL", 0, 0, Contribution(in, risk, gross)))

\* Every contribution is an obligation of somebody, and an estimate.
Obligations(in, gross) ==
  LET items == in.parameters.contributions
      risk == in.parameters.workRisk
      Owed(c) == [borneBy |-> c.borneBy, amount |-> Contribution(in, c, gross)]
  IN [i \in DOMAIN items |-> Owed(items[i])] \o Only(risk.enabled, Owed(risk))

When(condition, code) == IF condition THEN {code} ELSE {}

BlockingErrors(in) ==
  LET v == in.parameters
      scale == FindScale(in)
      minimum == IF Monthly(in) THEN v.categories[scale].monthlyMinimum
                                ELSE v.categories[scale].hourlyMinimum
  IN When(~ValidVersion(v), "PARAMETER_VERSION_INVALID")
     \union When(v.status # "PUBLISHED", "PARAMETER_VERSION_NOT_PUBLISHED")
     \union When(\/ in.from < v.effectiveFrom
                 \/ v.effectiveTo # Open /\ in.to > v.effectiveTo,
                 "PARAMETER_VERSION_NOT_EFFECTIVE")
     \union When(in.month \notin 1..12 \/ in.calendarDays <= 0, "INVALID_PERIOD")
     \union (IF scale = 0
             THEN {"CATEGORY_SCALE_NOT_FOUND"}
             ELSE When(in.agreed < minimum, "BELOW_LEGAL_MINIMUM") \union
                  When(\E i \in DOMAIN in.additionalConcepts :
                         Unjustified(in.additionalConcepts[i]), "UNJUSTIFIED_DISCOUNT"))

Deductions(in, lines) == RoundTotal(in.parameters, Total(lines, "DEBIT"))

Totals(in) ==
  LET concepts == ConceptLines(in)
      gross == RoundTotal(in.parameters, Total(concepts, "CREDIT"))
      lines == concepts \o ContributionLines(in, gross)
      deductions == Deductions(in, lines)
  IN [lines |-> lines, obligations |-> Obligations(in, gross), gross |-> gross,
      deductions |-> deductions,
      net |-> RoundTotal(in.parameters, gross - deductions)]

EmptyTotals == [lines |-> <<>>, obligations |-> <<>>, gross |-> 0, deductions |-> 0, net |-> 0]

\* A divisor of zero is not among the problems of a version; using it throws.
DividesByZero(in) ==
  LET v == in.parameters IN
  \/ Monthly(in) /\ v.overtime.divisor = 0
  \/ v.vacation.enabled /\ ApprovedDays(in, "VACATION") > 0 /\ v.vacation.divisor = 0
  \/ v.annualBonus.enabled /\ in.annualBonus.applies /\ v.annualBonus.divisor = 0
  \/ v.absence.enabled /\ UnpaidDays(in) > 0 /\ v.absence.divisor = 0

Some(s, P(_)) == \E i \in DOMAIN s : P(s[i])

Dated == {"VACATION", "ABSENCE_UNJUSTIFIED", "UNPAID_LEAVE"}
IsPendingDay(event) == ~event.approved /\ event.type \in Dated
IsPending(event) == ~event.approved /\ event.type \in Dated \union {"ADVANCE"}

EarlyWarnings(in) == When(in.parameters.isFixture, "FIXTURE_PARAMETERS")
Warnings(in) ==
  LET v == in.parameters
      worked(e) == e.minutes > 0
      unknown(e) == e.minutes # 0 /\ e.kind \notin DOMAIN v.overtime.kinds
      unaccepted(c) == c.sign = "DEBIT" /\ c.justified /\ ~c.accepted
  IN EarlyWarnings(in)
     \union When(in.normalMinutes = 0 /\ ~Monthly(in), "NO_WORKED_TIME")
     \union When(v.overtime.enabled /\ Some(in.overtime, unknown), "UNKNOWN_OVERTIME_KIND")
     \union When(~v.overtime.enabled /\ Some(in.overtime, worked), "RULE_DISABLED")
     \union When(v.seniority.enabled /\ TierOf(in) = 0, "SENIORITY_TIER_NOT_FOUND")
     \union When(in.zone # "none" /\ ~ZoneIsKnown(in), "UNFAVORABLE_ZONE_NOT_FOUND")
     \union When(Some(in.events, IsPending), "UNAPPROVED_EVENT_IGNORED")
     \union When(Some(in.additionalConcepts, unaccepted), "DISCOUNT_NOT_ACCEPTED")
     \union When(Totals(in).net < 0, "NEGATIVE_NET")

Thrown == [thrown |-> TRUE]
CalculatePayroll(in) ==
  IF FindScale(in) = 0
  THEN [totals |-> EmptyTotals, errors |-> BlockingErrors(in), warnings |-> EarlyWarnings(in)]
  ELSE IF DividesByZero(in)
  THEN Thrown
  ELSE [totals |-> Totals(in), errors |-> BlockingErrors(in), warnings |-> Warnings(in)]

----------------------------------------------------------------------------
(* The specification: one calculation of one of the inputs *)

Rates(in) ==
  {10, in.parameters.holiday.multiplier}
    \union {in.parameters.overtime.kinds[k] : k \in DOMAIN in.parameters.overtime.kinds}
Minutes(in) ==
  {in.normalMinutes, in.holidayMinutes}
    \union {in.overtime[i].minutes : i \in DOMAIN in.overtime}

\* The fractions are fine enough for the amounts: what the quotients and products of
\* a concept lose on their way stays below half a unit.  With 28 digits and units of
\* a cent it does for any month and any salary.
ASSUME PrecisionAssumption ==
  \A aspect \in DOMAIN Inputs : \A in \in Inputs[aspect] :
    LET unit == in.parameters.conceptUnit IN
    /\ \A t \in Rates(in), m \in Minutes(in), a \in {in.agreed, -in.agreed} :
         (t + 10) * (m * One + 30) + 60 * (a * t) + 600 * One < 600 * (unit * One)
    /\ ApprovedDays(in, "VACATION") < unit /\ UnpaidDays(in) < unit
    /\ unit > 2

NotYet == [thrown |-> FALSE]
Init ==
  /\ \E aspect \in DOMAIN Inputs : input \in Inputs[aspect]
  /\ result = NotYet

Calculate ==
  /\ result = NotYet
  /\ result' = CalculatePayroll(input)
  /\ UNCHANGED input

Spec == Init /\ [][Calculate]_vars

----------------------------------------------------------------------------
(* Properties *)

\* There is a result with numbers.
Calculated == result \notin {NotYet, Thrown} /\ result.totals # EmptyTotals

\* Every total is what its lines say: gross and deductions are the sums of the
\* credits and debits to the rounding of the total, the net is their difference,
\* to the cent that of the lines unless totals are coarser than lines, and what
\* the family owes is in the lines but not in the net.
TotalsAreTheLines ==
  Calculated =>
    LET t == result.totals
        v == input.parameters
        Differ(a, b) == IF a < b THEN b - a ELSE a - b
        Owed(who) == AmountWhere(t.obligations, LAMBDA o : o.borneBy = who)
        IsCharged(l) == l.code = "CONTRIBUTION" /\ l.sign = "DEBIT"
    IN /\ Differ(t.gross, Total(t.lines, "CREDIT")) < v.totalUnit
       /\ Differ(t.deductions, Total(t.lines, "DEBIT")) < v.totalUnit
       /\ t.net = t.gross - t.deductions
       /\ v.conceptUnit % v.totalUnit = 0 =>
            t.net = Total(t.lines, "CREDIT") - Total(t.lines, "DEBIT")
       /\ Owed("WORKER") = AmountWhere(t.lines, IsCharged)
       /\ Owed("EMPLOYER") = Total(t.lines, "INFORMATIONAL")

\* The exact value of a line that divides, as a fraction, from the quantity and
\* the rate the line shows
Exact(in, l) ==
  LET hours == IF Monthly(in) THEN in.parameters.overtime.divisor ELSE 1 IN
  CASE l.code \in {"BASE_HOURLY", "OVERTIME", "HOLIDAY_WORKED"} ->
         <<in.agreed * l.rate * l.quantity, hours * 600>>
    [] l.code \in {"VACATION", "ABSENCE_DEDUCTION"} -> <<in.agreed * l.quantity, l.rate>>
    [] l.code = "ANNUAL_BONUS" -> <<in.annualBonus.best * l.quantity, l.rate * 6>>
    [] OTHER -> <<l.amount, 1>>

\* However many quotients and products a concept takes, it is rounded once: its
\* amount is within a unit of the exact value, two when the mode rounds one way
\* only, where the last fraction of a quotient can decide a unit.
RoundedOnce ==
  Calculated =>
    LET v == input.parameters
        margin == IF v.mode \in {"UP", "DOWN"} THEN 2 * v.conceptUnit ELSE v.conceptUnit
    IN \A i \in DOMAIN result.totals.lines :
         LET l == result.totals.lines[i]
             exact == Exact(input, l)
             error == l.amount * exact[2] - exact[1]
         IN error < margin * exact[2] /\ -error < margin * exact[2]

\* What must not count, and the order in which things are listed
Relevant(in) ==
  [in EXCEPT
    !.events = Reverse(Where(@, LAMBDA e : e.approved)),
    !.overtime = Reverse(Where(@,
        LAMBDA e : e.minutes # 0 /\ e.kind \in DOMAIN in.parameters.overtime.kinds)),
    !.additionalConcepts = Reverse(Where(@, LAMBDA c : ~Unjustified(c))),
    !.parameters.contributions = Reverse(Where(@, LAMBDA c : c.borneBy = "WORKER")),
    !.parameters.workRisk.enabled = FALSE]

\* What is not approved or not justified, and what the family pays, moves no
\* total of the worker, and neither does the order of the lists.
OnlyTheRelevantCounts ==
  Calculated =>
    LET other == Totals(Relevant(input)) IN
    /\ result.totals.gross = other.gross
    /\ result.totals.deductions = other.deductions
    /\ result.totals.net = other.net

\* The same month with every event approved and discount justified
Granted(in) ==
  [in EXCEPT
    !.events = [i \in DOMAIN @ |-> [@[i] EXCEPT !.approved = TRUE]],
    !.additionalConcepts = [i \in DOMAIN @ |-> [@[i] EXCEPT !.justified = TRUE]]]

\* Nothing is left out in silence: if approving what is pending would change a
\* total, the result carries a warning or a blocking error about it.
LeftOutIsAnnounced ==
  Calculated =>
    \/ "UNAPPROVED_EVENT_IGNORED" \in result.warnings
    \/ "UNJUSTIFIED_DISCOUNT" \in result.errors
    \/ result.totals = Totals(Granted(input))

\* The month of somebody who earns or worked a little more
Longer(e) == [e EXCEPT !.minutes = @ + 1]
More(in) ==
  {[in EXCEPT !.agreed = @ + 1],
   [in EXCEPT !.normalMinutes = @ + 1],
   [in EXCEPT !.holidayMinutes = @ + 1],
   [in EXCEPT !.overtime = [i \in DOMAIN @ |-> Longer(@[i])]]}

\* No surcharge takes away.
NothingIsNegative(in) ==
  /\ in.agreed >= 0
  /\ \A i \in DOMAIN in.parameters.seniority.tiers :
       in.parameters.seniority.tiers[i].percentage >= 0
  /\ \A z \in DOMAIN in.parameters.zone.zones : in.parameters.zone.zones[z] >= 0

\* A higher salary or more minutes never lower the gross, through however many
\* quotients and roundings they reach it and whatever they add to the base of
\* other concepts.
MoreIsNeverLess ==
  Calculated /\ NothingIsNegative(input) =>
    \A more \in More(input) : Totals(more).gross >= result.totals.gross

\* The tiers of a version without problems give one answer for the years of the
\* relationship, whatever the order they are listed in.
OneTierEachYear ==
  Calculated /\ "PARAMETER_VERSION_INVALID" \notin result.errors =>
    LET rule == input.parameters.seniority IN
    rule.enabled =>
      \A i, j \in DOMAIN rule.tiers :
        Covers(rule.tiers[i], YearsOf(input)) /\ Covers(rule.tiers[j], YearsOf(input)) =>
          rule.tiers[i] = rule.tiers[j]
============================================================================
