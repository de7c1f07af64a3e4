-------------------------- MODULE MCPayrollEngine --------------------------
(* Inputs of Receipts for TLC: an ordinary month, and around it the        *)
(* variations of each of its aspects.                                      *)
EXTENDS Receipts

Below(a, b) == a.fromCompletedYears < b.fromCompletedYears
MCSortedTiers(tiers) == SortSeq(tiers, Below)

TierFrom(from, to) ==
  [fromCompletedYears |-> from, toCompletedYears |-> to, percentage |-> 2 * from + 1]
Scale(category, liveIn) ==
  [category |-> category, liveIn |-> liveIn, monthlyMinimum |-> 2000, hourlyMinimum |-> 1000]

Version ==
  [status |-> "PUBLISHED", source |-> "fixture", isFixture |-> TRUE,
   preparedBy |-> "ana", approvedBy |-> "bea",
   effectiveFrom |-> 20210101, effectiveTo |-> Open,
   conceptUnit |-> 100, totalUnit |-> 100, mode |-> "HALF_UP",
   categories |-> <<Scale("a", "with"), Scale("a", "without")>>,
   seniority |-> [enabled |-> TRUE, basis |-> "BASE_REMUNERATION",
                  tiers |-> <<TierFrom(0, 0), TierFrom(1, Open)>>],
   overtime |-> [enabled |-> TRUE, kinds |-> [weekday |-> 15, weekend |-> 20], divisor |-> 7],
   holiday |-> [enabled |-> TRUE, multiplier |-> 20],
   zone |-> [enabled |-> TRUE, zones |-> [sur |-> 20]],
   vacation |-> [enabled |-> TRUE, divisor |-> 25],
   annualBonus |-> [enabled |-> TRUE, divisor |-> 2],
   absence |-> [enabled |-> TRUE, divisor |-> 30],
   contributions |-> <<[borneBy |-> "WORKER", basis |-> "GROSS_REMUNERATION",
                        percentage |-> 3, amount |-> 0]>>,
   workRisk |-> [enabled |-> FALSE, borneBy |-> "EMPLOYER", basis |-> "FIXED_AMOUNT",
                 percentage |-> 0, amount |-> 150]]

Month ==
  [parameters |-> Version, month |-> 2, calendarDays |-> 28, from |-> 20210201, to |-> 20210228,
   category |-> "a", liveIn |-> "with", scheme |-> "MONTHLY", agreed |-> 2345,
   normalMinutes |-> 100, overtime |-> <<>>, holidayMinutes |-> 0, startDate |-> 20200229,
   zone |-> "none", events |-> <<>>, annualBonus |-> [applies |-> FALSE, best |-> 0, months |-> 0],
   additionalConcepts |-> <<>>]

Schemes == {"MONTHLY", "HOURLY"}
Modes == {"HALF_UP", "HALF_EVEN", "DOWN", "UP"}
UpTo(n, S) == UNION {[1..k -> S] : k \in 0..n}

Overtimes ==
  {<<>>} \union {<<[kind |-> k, minutes |-> m], [kind |-> "weekday", minutes |-> 50]>> :
                   k \in {"weekday", "weekend", "night"}, m \in {0, 20}}

\* Hours: quotients, products and the four ways to round them
Hourly ==
  {[Month EXCEPT !.scheme = s, !.agreed = a, !.normalMinutes = n, !.overtime = o,
                 !.holidayMinutes = h, !.parameters.mode = mode,
                 !.parameters.totalUnit = u, !.parameters.overtime.enabled = e] :
     s \in Schemes, a \in {1250, 2000, 2345}, n \in {0, 100, 595}, o \in Overtimes,
     h \in {0, 50}, mode \in Modes, u \in {100, 1000}, e \in BOOLEAN}

EventOf(type, days, amount, approved) ==
  [type |-> type, days |-> days, amount |-> amount, approved |-> approved]
Events ==
  {EventOf(type, days, 0, approved) :
     <<type, days>> \in {<<"VACATION", 7>>, <<"UNPAID_LEAVE", 30>>, <<"ABSENCE_UNJUSTIFIED", 1>>},
     approved \in BOOLEAN}
  \union {EventOf("ADVANCE", 0, 333, approved) : approved \in BOOLEAN}
  \union {EventOf("ADVANCE", 0, 555, TRUE)}
  \union {EventOf("PAID_LEAVE", 2, 0, TRUE)}
Concepts ==
  {[sign |-> "DEBIT", justified |-> j, accepted |-> a, amount |-> 250] : j, a \in BOOLEAN}
  \union {[sign |-> "CREDIT", justified |-> FALSE, accepted |-> FALSE, amount |-> 250]}

\* Days and discounts: what was approved, justified, accepted
Eventful ==
  {[Month EXCEPT !.scheme = s, !.events = e, !.additionalConcepts = c,
                 !.parameters.mode = mode] :
     s \in Schemes, e \in UpTo(2, Events), c \in UpTo(1, Concepts), mode \in Modes}

\* Years: lists of tiers in any order, valid and not, before and after a birthday
Senior ==
  {[Month EXCEPT !.startDate = d, !.parameters.seniority.tiers = t,
                 !.parameters.seniority.basis = b, !.zone = z,
                 !.overtime = <<[kind |-> "weekend", minutes |-> 20]>>] :
     d \in {20200229, 20200228, 20180301},
     t \in UpTo(3, {TierFrom(0, 0), TierFrom(0, 1), TierFrom(1, 1), TierFrom(1, 2), TierFrom(2, Open), TierFrom(2, 1)}),
     b \in {"BASE_REMUNERATION", "BASE_PLUS_OVERTIME"}, z \in {"none", "sur", "norte"}}

Item(who, basis) == [borneBy |-> who, basis |-> basis, percentage |-> 3, amount |-> 130]
\* Who pays: contributions of both sides, and the annual bonus
Contributing ==
  {[Month EXCEPT !.parameters.contributions = c, !.parameters.mode = mode,
                 !.parameters.totalUnit = u, !.parameters.workRisk.enabled = r,
                 !.annualBonus = [applies |-> TRUE, best |-> 2345, months |-> m]] :
     c \in UpTo(2, {Item(who, basis) : who \in {"WORKER", "EMPLOYER"},
                                       basis \in {"GROSS_REMUNERATION", "FIXED_AMOUNT"}}),
     mode \in Modes, u \in {100, 1000}, r \in BOOLEAN, m \in {-1, 0, 1, 5, 6, 7}}

\* Errors: what blocks, and divisors of zero
Invalid ==
  {[Month EXCEPT !.agreed = a, !.month = m, !.liveIn = l, !.parameters.source = src,
                 !.parameters.status = st, !.parameters.approvedBy = by,
                 !.parameters.categories = c, !.parameters.effectiveTo = to,
                 !.parameters.vacation.divisor = v,
                 !.events = <<EventOf("VACATION", 7, 0, TRUE)>>] :
     a \in {1999, 2000}, m \in {2, 13}, l \in {"with", "without"},
     src \in {"blank", "official", "fixture"}, st \in {"DRAFT", "PUBLISHED"},
     by \in {"none", "ana", "bea"}, c \in UpTo(2, {Scale("a", "with"), Scale("b", "without")}),
     to \in {Open, 20210227}, v \in {0, 25}}

MCInputs ==
  [hours |-> Hourly, events |-> Eventful, years |-> Senior, payers |-> Contributing,
   errors |-> Invalid]

\* Mistakes at the tolerance and beyond it, in both directions
MCDeltas == {-200, -100, 100, 200}

\* Receipts of up to six lines, with and without two advances
DaysAndAdvances(events) ==
  \A i \in DOMAIN events : events[i].approved /\ events[i].type \in {"VACATION", "ADVANCE"}
MCMistakable ==
  {in \in Eventful :
     /\ in.scheme = "MONTHLY" /\ in.parameters.mode = "HALF_UP"
     /\ DaysAndAdvances(in.events)
     /\ \A i \in DOMAIN in.additionalConcepts : in.additionalConcepts[i].sign = "CREDIT"}
============================================================================
