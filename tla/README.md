# A verification project for AppCasasParticulares

The repository is a platform for household employment in Argentina: a family
(employer) and a worker agree on a relationship, the worker clocks in and out,
the family approves the days, disputes are settled by corrections, the month is
closed with a snapshot and the snapshot is what payroll is computed from. The
API is a NestJS application over PostgreSQL (Prisma); several processes may
serve it, and nothing but PostgreSQL keeps them apart.

These TLA+ modules model that code, TLC checks them on small instances and
TLAPS proves what matters most for instances of every size. Paths below are
relative to the repository; `TT`, `AC` and `PP` stand for the services
`time-tracking`, `attendance-corrections` and `payroll-periods` under
`apps/api/src/modules`.

## 1. Inventory

| Component | State | Operations | Hard behaviours | What makes it correct |
|---|---|---|---|---|
| Time tracking (`TT`) | `work_day`, `time_entry` | clockIn, clockOut, approve | stale copies, retries with an idempotency key, lock per month, unique indexes as last resort | one open day, one active entry of a kind per day, minutes = span, an answered fichaje is stored |
| Corrections (`AC`) | `attendance_correction`, `work_day`, `time_entry` | request, approve, reject | version compare-and-set without a status, chosen target status from a stale read | DISPUTED exactly while a correction is PENDING, nothing stored is lost |
| Monthly periods (`PP`) | `payroll_period`, `period_attendance_snapshot` | getOrCreate, closeAttendance | reads the whole month then writes; races every attendance write | a closed month is its snapshot and never changes |
| Payroll calculations | `payroll_version`, `payroll_calculation` | calculate, getCurrent | engine runs outside the transaction, version number from a stale read | one current version, numbers without gaps, computed from the snapshot in force |
| Payroll engine | none (pure) | calculatePayroll | rounding, proportions, blocking errors | the totals are the lines, each line rounded once, only what is approved counts, nothing is left out in silence |
| Relationships and schedules | `employment_relationship`, `employment_term`, `work_schedule`, acceptance evidence | saveConditions, submit, accept, reject, schedule put | accept races edit; unconditional update of the status | ACTIVE only with evidence of the terms and schedule in force |
| Invitations | `invitation` | create, accept, reject, revoke, resend, expire | non-atomic duplicate check, unconditional revoke, lazy expiry | an accepted invitation stays accepted, one pending per pair |
| Households | `household` | create, update, archive | archive counts relationships before its transaction | an archived household has nothing that could still become a relationship |
| Profiles (employers, workers) | one row each, the user's roles | create, update | the role is committed before the token that carries it is signed and delivered | a role on screen is one the API admits |
| Legal documents | `consent_document`, `consent` | read the text in force, record a consent | two queries for what should be one text | a consent names the text that was read |
| Web client | what each page shows, its loads and its open forms | load, press | stale copies, answers out of order, lost answers | a press acts on what it shows, a fresh button works, a page catches up |
| ARCA connector | none (calls in and out) | createReceipt, validateReceipt | a map by code, a tolerance per concept | a receipt that passes pays the calculated net |
| Outbox | `outbox_message` | enqueue (in the caller's transaction), claim, deliver, fail, dead-letter | several workers, one lease for a batch, crash between sending and recording | no accepted message is lost, attempts bounded, delivered stays delivered |
| Identity and sessions | `one_time_code`, `session`, Redis denylist | requestCode, verifyCode, refresh, logout | rotation without compare, two stores written in two steps | one code in force, bounded attempts, a closed token family stays closed, Redis never refuses what PostgreSQL serves |
| Domain state machines | none (tables) | canTransition, transition | only the relationship and invitation services call them | the services' arcs are among the tables' |
| Payments adapter, audit, crypto, policies, contracts, mobile, tooling | — | read-only, pure, or presentation | — | — |

Interactions: every service writes its rows, its audit record and its e-mails
(outbox rows) in one PostgreSQL transaction. The attendance services share
`work_day` and `time_entry` and are kept apart by
`pg_advisory_xact_lock(hashtext('attendance_lock:<relationship>:<year>:<month>'))`
(the architecture document speaks of a Redis lock; the code takes this one).
`closeAttendance` hands the period over to payroll by moving it to
READY_FOR_CALCULATION; `calculate` moves it on to CALCULATED. The attendance
panels of the web client send `expectedVersion` from the copy on screen, which
may be arbitrarily old; the pages of a relationship send none. The access token
is a cookie with the roles of the moment it was signed, and the guard admits by
those; the pages show the roles of the database.

`PROJECT.json` lists every component with its status, and every hazard at its
line with the properties that watch it.

## 2. Plan

| Part | Modules | Composes |
|---|---|---|
| Attendance (core) | `Attendance`, its abstract specification `AttendanceLedger`, `AttendanceRefinement`, `AttendanceProofs`, `MCAttendance` | time tracking, corrections and periods, which meet in the same rows and lock |
| Outbox | `Outbox`, `OutboxProofs`, `MCOutbox` | workers, leases, crashes |
| Relationship | `Conditions`, `ConditionsProofs` | the services of one relationship |
| Its pages | `ConsentScreens`, `CompositionProofs`, `MCConsentScreens` | `Conditions` and the web pages over it |
| Invitations | `Invitations`, `Households`, `InvitationsProofs`, `MCHouseholds` | the links that lead to a relationship, and the household they are for |
| Payroll | `PayrollCalculation`, `CompositionProofs`, `MCPayroll` | `Conditions` and the months computed from it |
| Engine and receipts | `PayrollEngine`, `PayrollEngineProofs`, `Receipts`, `MCPayrollEngine` | the pure calculation and the comparison of an official receipt with it |
| Identity | `Identity`, `IdentityProofs`, `MCIdentity` | codes, rotation, two stores of revocation |
| Attendance panels | `AttendancePage`, `FamilyDays`, `WorkerClock`, `PeriodPanel` | `AttendanceLedger` (as the API) and the panels over it |
| Profiles | `Profiles` | the profile form, the API and the browser's token |
| Screens | `WebScreens`, `WebScreensProofs`, `MCWebScreens` | the three panels and the profile form, one at a time |
| Legal texts | `LegalTexts`, `ProfileConsents`, `MCProfiles` | texts, their page, and the consents of `Profiles` |

All of this is written, checked and, where section 11 says so, proved. What is
left, in the order of its worth:

1. the public page of an invitation (`app/invitacion/[token]`) over `Invitations`;
2. the move READY_FOR_CALCULATION -> CALCULATED composed into `Attendance` rather
   than beside `Conditions`.

No module with a theorem uses RECURSIVE operators.

## 3. The attendance model

### State and actions

`Attendance.tla` is one employment relationship. A work day is four functions
of its date (`dayStatus`, `dayVersion`, `approvedMinutes`, `linked`), `entries`
and `corrections` are sets of rows, a month has its period row
(`periodStatus`, `periodVersion`, `attendanceApproved`) and its `snapshot`.
`lock` is the advisory lock of each month, `now` the server clock. Minutes are
differences of instants; dates and months are small numbers, `DateOf` and
`MonthOf` the household's time zone and calendar.

Every handler runs in the phases `idle -> loaded -> locked -> checked -> idle`:

| Phase change | Action | Code |
|---|---|---|
| idle -> loaded | `LoadClockIn`, `LoadClockOut`, `LoadApprove`, `LoadRequestCorrection`, `LoadApproveCorrection`, `LoadRejectCorrection`, `LoadClose` | the reads and early returns before `$transaction`; the copy goes to `arg` |
| loaded -> locked | `Lock` | `pg_advisory_xact_lock` |
| locked -> checked | `Check`, or `Refuse` | the queries repeated under the lock |
| checked -> idle | `Commit...`, or `Conflict` | the compare-and-set, the writes and the commit |
| loaded/locked -> idle | `ReplayInTransaction` | the idempotency look-up inside the transaction |
| -> failed -> idle | `Abort`, `AnswerAfterFailure` | the `catch` of the clock handlers, which looks the key up again |
| any -> idle | `TimeOut`, `Crash` | Prisma's transaction timeout; the process dies |

`CreatePeriod` is `getOrCreate`, atomic because of the unique index.
Transactions are READ COMMITTED, so other requests may step between any two of
these. The writes and the commit of one transaction are a single step: from the
compare-and-set on, the row lock and the unique indexes keep others away.

A request's user, role and ownership checks are left out (they do not change
state), as are the notes and reasons, the audit row and the e-mail (one insert
each, in the same transaction), and `realMinutes`/`computableMinutes`, which no
decision reads. `Requests` is the number of concurrent requests; a request
process is reused, which is what lets one client act many times. Clients that
retry send the same `clientIdempotencyKey` again: keys are unique per
relationship and a client never uses one for both kinds (`KeysAssumption`).

### Runs

| Run | Instance | Properties |
|---|---|---|
| `day` | 2 requests, 1 day to work on and a day of the next month, 3 instants, 1 clock-in and 2 clock-out keys, versions up to 5 | `DisputeHasItsCorrection`, `EntriesMatchStatus`, `ApprovedMinutesAgree`, `AckedIsRecorded`, `EntriesAreKept`, `VersionWitnessesChange`, `ImplementsLedger` |
| `month` | 2 requests, 2 days of one month and 1 of the next, 2 clock-in keys, versions up to 2 | `OneOpenDay`, `SnapshotIsTheMonth`, `ClosedMonthIsFrozen` |

Bounds. `MaxVersion` stops a day after so many changes: 5 lets a day be clocked
out, disputed, rejected, disputed again and corrected, so a request can meet
any earlier version of the day. `MaxInstant` = 2 gives an entry, an exit and a
moment in the next month to close at. Two requests suffice for a conflict
between any two handlers; what a third could add is covered by the proofs,
which hold for any number. Symmetry permutes the requests, which the
specification treats alike. Deadlock checking is on in both runs: a request that
holds or awaits a month's lock can always go on, and a client can always ask.

### What the properties say

- `DisputeHasItsCorrection`, `EntriesMatchStatus`, `ApprovedMinutesAgree`: the
  day, its entries, its corrections and its minutes agree although each handler
  decides from an old copy and compares only part of the row (`clockOut` only
  the status, `requestCorrection` only the version).
- `ImplementsLedger`: every step is one operation of `AttendanceLedger` on the
  current rows, or none. The refinement mapping takes the active entries as the
  span of the day and the snapshot as the seal of the month.
- `SnapshotIsTheMonth`, `ClosedMonthIsFrozen`: INV-TIME-05 of
  `docs/domain-model.md`, with writers in flight while the month closes.
- `OneOpenDay`: the clock-ins of two months hold different locks and a rejected
  correction reopens a day; the partial unique index is all that prevents two.
- `AckedIsRecorded`: retries, conflicts and rollbacks never answer success for
  an entry that is not stored.
- `VersionWitnessesChange`: what a client may be reviewing does not change
  without its version; this is what makes `expectedVersion` mean anything.

`state-machine.ts:10` says that no state is set but through `transition`. The
attendance services never call the domain's machines; `approve` moves entries
RECORDED -> APPROVED and `approveCorrection` RECORDED or APPROVED -> CORRECTED,
arcs the time entry machine does not have. No run is spent on it: the machine is
simply not used.

## 4. The outbox model

`Outbox.tla` models `OutboxNotificationService.enqueueEmail` and
`OutboxProcessorWorker`. A row is `status`, `attempts`, `ready` (its
`availableAt` has passed), `lease` and `code` (the payload still holds the
encrypted one-time code). A worker is `idle`, or has a `batch` of copies and is
`sending`, `sent` or `failed` about the oldest of them.

| Action | Code |
|---|---|
| `Enqueue` | the insert in the caller's transaction |
| `Claim` | `claimBatch`: one short transaction, made serial by `FOR UPDATE SKIP LOCKED` |
| `Accept` | `sendMail` resolves |
| `Reject` | decrypting the code throws, or `sendMail` does without the server having the mail |
| `LoseAnswer` | the server takes the mail and its answer is lost: `sendMail` throws all the same |
| `RecordDelivered`, `RecordFailure` | the updates by id, with `attempts` from the copy |
| `LoseRecord`, `DropBatch` | the update after a delivery, or the one in the `catch`, fails |
| `Crash` | the process dies at any point of a batch |
| `Expire`, `Ripen` | the lease runs out; the backoff is over |

Run `outbox`: two workers, a batch of two, two messages (one with a code), two
attempts, one fault. Two messages are what makes a batch share a lease; two
attempts let a copy of `attempts` be stale by one, which is what a second worker
needs to write the count back; one fault (a crash, a lost answer or a failed update)
separates the causes of a duplicate. Expiring leases and refused mails are not bounded.

- `OutcomesAreEarned`, inductive with `CopiesAreHonest`: DELIVERED means the
  server took it, DEAD_LETTER means MAX_ATTEMPTS tries that ended in the `catch` (the
  mail may have gone out in one of them: its answer was lost).
- `OnceUnlessDisturbed`: a second mail has one of four causes: the server took the
  first and its answer was lost (`unanswered`), or the database lost sight of the
  message (`disturbed`) because a lease ran out under a living worker, a worker crashed
  between sending and recording, or an update was lost. Both sets only remember.
- `SettledIsFinal`: a settled row changes only for the last three.
- `CodeGoesWithTheRetries`: the encrypted code is gone once a message is settled,
  whoever settled it, and an undisturbed message that can be retried has it: what
  holds of the sentence that `outbox_code` refutes.
- `EventuallySettled`, under weak fairness of `Claim`, `Process`, `Ripen` and
  `Expire`: the timer polls for ever, a run that began goes on because
  nodemailer gives up on a dead connection, and time passes. SMTP owes nothing.
  Deadlock checking is off because everything may be settled and no mail left.

So the outbox delivers at least once. ADR 0003 says more: that the lease outlasts the
SMTP timeout comfortably (section 4: otherwise "el correo saldría dos veces") and that
several workers live together "sin duplicar correos" (Consecuencias). The code does not
bear the first out: `createTransport` sets no timeout, nodemailer's own are minutes and
the lease of one minute covers a batch of up to twenty mails in a row. The second holds of
two workers that claim at once, and no further: any of the four causes duplicates a mail,
the lost answer with a single worker and every lease in time, and nothing sent with the
mail lets a server or a reader recognise the copy.

`outbox_code` (expected violation): `processMessage` removes the code when it
records a delivery and ADR 0003 says a message that can be retried keeps it.
Two workers holding the same message after a lease ran out, one recording a
delivery and the other a failure, leave a PENDING row without its code.

## 5. The onboarding models

### Conditions

`Conditions.tla` is one relationship from PENDING_CONFIGURATION to ACTIVE:
`status`, `version`, `terms` and `accepted`, the `published` and `superseded`
schedules and the acceptance `evidence`. The four handlers of
`relationships.service.ts` are `Load...` (the read and the early returns, with
the domain machine's answer) and `Commit...` or `Conflict` (the transaction,
which begins by comparing version and status). `put` of
`work-schedules.service.ts` is `LoadPut`, `Supersede` (its first statement, which
sees the schedules committed by then) and `Publish` (the rest, with the commit);
it compares nothing and does not raise the version. `Abort` may end any of them.
The contents of conditions and schedules are opaque (`Drafts`, `Schedules`).

- `ConsentCoversTerms`: ACTIVE comes with evidence of exactly the stored terms.
- `ScheduleIsConsented`: at most one schedule in force, the one the evidence
  names, as long as no put wrote from a reading that had changed (`stalePut`
  remembers one that did).
- `VersionWitnessesTerms`, `FollowsTheMachine` (proved, not run): within one
  version the terms do not change and the status only goes back, so no reading
  comes true again; and the status moves along the machine's arcs, with the same
  exception.

### The pages over them

`ConsentScreens.tla` puts the two web pages of a relationship in front of
`Conditions`: `app/trabajadora/relaciones/[id]` and `app/familia/relaciones/[id]`.
A page is a request process: it shows a copy (`shown`), is `loading` or not, and
disables its buttons while its request runs. `Offers` is what it shows buttons
for (`puedeDecidir`, `editable`, `puedeEnviar`); the press (`Pressed`) is the
service's read, which takes nothing from the page, `Succeeds` its commit, after
which the page loads again unless the answer is lost, `Fails` a conflict or a
failure, after which it does not. A press the server refuses changes neither side
and is no step. `agreed` remembers what the worker's page showed when she pressed.

Run `consent`: two pages of the family and one of the worker, two drafts, two
schedules, versions up to 4: enough to send, edit and send again while the
worker's page is one behind, and for a put to overlap the acceptance. Deadlock
checking is off: at the bound of the version the last page simply rests.

- `RefusedIsStale`: as long as version and status of the copy are current, the
  service takes what the page offers. The converse, that a stale page is refused,
  is exactly what the code does not promise.
- `SameVersionSameOffer`: had her page shown the version that was accepted, she
  agreed to the terms and schedule of her evidence. So a version sent with the
  acceptance would be enough.
- `consent_seen` (expected violation): without it, what she accepts need not be
  what her page shows, while `app/familia/relaciones/[id]/page.tsx:33` and
  `work-schedules.service.ts:100` say that it is. Five versions let the family
  send, edit and send again behind an open page.

Two things seen on the way: `cargar` of the family's page fills both forms again,
so that what was typed in one is lost when the other is saved; and two pages of
the family overwrite each other, since `saveConditions` compares with its own
reading only.

### Invitations

`Invitations.tla` is the invitations of one family to one e-mail at one
household: `status`, `expiresAt` in days, `linked` and how many `relationships`
acceptances created. Requests by token (`resolve`, `accept`, `reject`) and by id
(`revoke`, `resend`) find the row, decide from the copy and write; `create`
looks for a pending duplicate before its transaction. `accept` creates the
relationship before it compares the status, in one transaction, so `Accept` is
one step and its loser (`AlreadyUsed`) leaves nothing. A resend changes the
token: who found the row with the old one still acts on it.

- `OneRelationshipEach`: one relationship per accepted invitation.
- `AnswersAreFinal`, `OnePending`: with two exceptions, remembered by `overtaken`
  and `overlap`. A `revoke` that read PENDING before an acceptance overwrites
  ACCEPTED (the test "no se puede dar de baja una invitación que ya no está
  pendiente" only calls it afterwards); a lazy expiry can mark a link that was
  renewed since; two creates can both find no duplicate. The properties say that
  nothing else disturbs them.

### The household

`Households.tla` composes `Invitations` with the household they are for. `archive`
counts its relationships (`CountRelationships`), then, in a transaction that
compares nothing, archives it and revokes what is pending (`Archive`). Its two
statements are one step, at the moment of the second: what commits between them the
revocation still sees, and who looks at the household before the transaction
ends might as well have looked before it. `create` looks at the household first (`CreateAtHousehold`); all else is blind to it
(`AtInvitations`). Updating a household's fields changes nothing modelled.

Run `onboarding`: two rows, two requests, links valid for a day, four days: a link
can run out, be sent again and run out again while a request holds its first copy.
Deadlock checking is off: both rows may be answered and the days over.

- `ArchivedIsEmpty`: an archived household has no relationship and no pending
  invitation unless a create was under way or an acceptance committed between its
  count and its archive (`raced`): answers, resends and expiries in flight revive
  nothing.

## 6. The payroll model

`PayrollCalculation.tla` extends `Conditions` (whose requests go on changing the
terms, the schedule and the status) with the months of the relationship: a
period is its `periodStatus`, `periodVersion`, `currentVersionNumber`, the
approved minutes of its `snapshot` and its `versions`, each with the minutes and
the terms it was computed from.

| Action | Code |
|---|---|
| `CloseAttendance` | `closeAttendance`, whose steps `Attendance` has: the snapshot, then READY_FOR_CALCULATION |
| `LoadPeriod` | `loadPeriodForEmployer` and the early returns of `calculate` |
| `Compute`, `Refuse` | `resolveTermsForPeriod`, the parameters and the engine, before the transaction |
| `Persist`, `Lose` | the transaction: demote, insert, compare the period; the unique violation or the conflict |
| `AbortCalculation` | any of it fails |

`Persist` is one step although it has several statements: a second insert of the
same number waits at the unique index until the first transaction ends, and the
comparison of the period comes last. Which terms are in force for a month
(`InForce`) and for which the engine reports no blocking error (`Payable`) are
constants. The domain's period machine also has arcs back to a calculation; no
service takes them, so a month is calculated once.

Run `payroll`: two requests to the conditions, two calculators, two months, two
drafts (the second too late for the first month and blocked for the longer
snapshot), two schedules, versions up to 4. Deadlock checking is off: once the
relationship is active and the months are calculated nothing is left to do.

- `VersionsMatchThePeriod`: however many calculations run at once, the version
  numbers have no gaps, the last one is current and no other, and each was
  computed from the snapshot.
- `CalculatedFromConsent`: every calculation has the terms the worker accepted,
  although `calculate` reads them long before it writes and compares only the
  period. It holds because accepted terms are not edited. The exception is the
  put of `Conditions` that wrote from a reading that had changed (`stalePut`):
  it pulls an accepted relationship back to where its terms are edited, with
  `acceptedByWorkerAt` still set, so the edited terms count as accepted.

## 7. The engine and the receipt

`PayrollEngine.tla` is `calculatePayroll` of `packages/payroll-engine`, with the
validation of the parameter version, the category scale and the arithmetic of
`Money` it uses. It has one action, `Calculate`: it takes an input and leaves the
result, which is the thrown error, the errors that block with empty totals, or the
lines, obligations and totals with their warnings. The concepts are operators in
the order of the code (`BaseLine`, `OvertimeLines`, ..., `AdditionalLines`), each a
line or none. An amount is an integer number of the fractions that the arithmetic
keeps (`One` to the peso, where decimal.js keeps 28 digits), a quotient is rounded
at the last of them as decimal.js does, and `Round` is `toDecimalPlaces` in the
four modes. A date is the number yyyymmdd. Labels, explanations and the trace are
left out; `Array.prototype.sort` is a constant with `SortAssumption`.

Run `engine`: some 19,000 inputs in five families around one ordinary month:
hours in all four modes, events and discounts in every state, years against lists
of tiers in any order and valid or not, who pays what, and each blocking error.
Deadlock checking is off: a calculation ends.

- `TotalsAreTheLines`: gross, deductions, net and obligations against the lines,
  although each is computed and rounded on its own.
- `RoundedOnce`: a line is within one unit (two in the modes that round one way)
  of its exact fraction, so no concept rounds a quotient before multiplying it.
- `OnlyTheRelevantCounts`: the same month with the unapproved, the unjustified
  and the family's contributions taken away, and its lists reversed, has the same
  totals for the worker.
- `LeftOutIsAnnounced`: the same month with everything approved either has the
  same totals or the result says what was left out.
- `OneTierEachYear`: the code compares only neighbours after sorting; that is
  enough for one percentage in each year, whatever order they were listed in.
- `MoreIsNeverLess`: an amount goes through quotients, products and roundings, and
  other concepts take rounded amounts for their base; a fraction more of salary or a
  minute more of any kind (`More`) still never lowers the gross, unless the version
  or the salary has a negative amount.

### The receipt

`Receipts.tla` extends the engine with `ManualAssistedARCAConnector`: after a
calculation, `PreparedValues` (`createReceipt`); `Issue`, the receipt that the
family writes outside with those values, or a file that cannot be read;
`MakeMistake`, one mistake more in it; and, when it is imported, `Validate`
(`validateReceipt` with `compareConcepts`). A mistake leaves a concept out, gives
it another amount, repeats it with the same or another amount, or adds one nobody
prepared. The run makes up to two of them (`MaxMistakes`) in the receipts of the
inputs with day events and advances (`Mistakable`), so a concept may be repeated
and another be off, one may be off twice, and one of two advances may be missing;
the theorem has any number. The tolerance is 100 fractions and `Deltas` are on
both of its sides. `PayrollEngine` leaves the suffix of some codes out, so
receipts are for results in which such a code has one line.

- `PassedPaysTheNet`: a receipt that does not block pays the calculated net plus
  what the map by code overlooked (`Overlooked`: of several concepts with a code
  all but the last), up to the tolerance once per difference it was told of, when
  no two lines of the calculation share a code.
- `FaithfulPasses`: a receipt with the prepared values passes, unless two lines
  that share a code differ by more than the tolerance.

Both exceptions are real. `new Map(found...)` (line 328) keeps the last of the
concepts with a code, and the second loop (lines 366-379) looks for unknown codes
only: a receipt that repeats a known code passes without a difference and pays
another net, as much as the repetition is worth, where the comment above
`compareConcepts` says that another amount blocks (lines 318-320) and
`docs/arca-integration-strategy.md` that each difference is classified and blocks
(lines 87-88, 98-99). And every advance has the code ADVANCE_DEDUCTION, so that a
faithful receipt with two different advances is blocked, and one that lacks one of
two equal advances passes, where the same document says that a missing concept
blocks. The
classes PERIOD_MISMATCH and PARTY_MISMATCH are declared and never produced, and a
document marked INVALID whose concepts agree does not block by itself. No service
of the API calls the connector yet.

### Comments

Three places where the code and its comments part, none with a run of its own:
the daily divisors of vacation and absence are documented in `parameters.ts` for
the monthly scheme and `engine.ts:427` and `engine.ts:487` also apply them to an
hourly rate; `money.ts` says that nothing is rounded implicitly while a quotient
is, at the last digit, so in mode DOWN a thousand over thirty times thirty comes
to 999.99; and a version with a daily divisor of zero passes the validation and
the calculation throws.

## 8. The identity model

`Identity.tla` is one person: her one-time codes, her sessions in their token
families and the denylist in Redis. Each request of `identity.service.ts` reads
outside its transaction and writes without comparing, so each is a `Load...`
action, which keeps what it read in `arg`, and an action for the transaction.

| Action | Code |
|---|---|
| `CountRecent`, `BeginCode`, `CommitCode` | `requestCode`: the count of the window, the transaction's first statement, its commit |
| `LoadCode`, then `Exhaust`, `CountAttempt` or `Enter` | `verifyCode`: the latest code in force, and what its attempts and the code typed in decide |
| `LoadRefresh`, `Rotate` | `refresh` with the token of an active session |
| `LoadReuse`, `CloseFamily` | `refresh` with a token used before |
| `LoadLogout`, `Logout`; `LoadLogoutAll`, `LogoutAll` | `logout` and `revokeSessionById`; `logoutAll` |
| `Deny`, `Forget` | `revokeSessions` after the transaction, as far as Redis takes it; the key's expiry |
| `Fail` | a transaction fails or the process dies, anywhere |
| `GrowOld` | a code leaves the window |

`Admitted` is the session guard: Redis may anticipate a refusal or not answer, and
PostgreSQL decides. The expiry of a code or a session only refuses; since any
request may simply not go on, it needs no state of its own. Whether the code typed
in is right is a choice. The user row, tokens and the audit are left out.

Run `identity`: two requests, two codes, three sessions, one attempt, one code per
window. Three sessions are a log-in and two rotations of one session; two codes
overlap or follow each other; one attempt and two requests let the count go past
its limit. Deadlock checking is off: sessions and codes run out.

- `AttemptsAreBounded`: the limit holds within the number of concurrent requests.
- `FamiliesStayClosed`: after a log-out or a reuse nothing reopens the family but a
  rotation that had read its session while it was active.
- `IdentityInv` has, besides what the induction needs, `OneLiveCode`: "there is at
  most one in force per e-mail" (`requestCode`), except that of two transactions open
  at once neither consumes the other's code (`overlapped` remembers those and decides
  nothing); `OneActivePerFamily`, with the exception of the rotations in `overtaken`;
  and `RedisOnlyAnticipates`: what is on the denylist is revoked in PostgreSQL
  whatever failed, which is what lets the guard refuse on Redis's word alone.

## 9. The screens

`WebScreens.tla` runs one of four screens at a time; they share no state but the
server's, and of the other clients (`Elsewhere`) each sees only what they do to it.

### The attendance panels

`AttendancePage.tla` is what the three panels share. The API is `AttendanceLedger`,
whose operations are atomic because `Attendance` implements it, with the day's
`version`, the hours a dispute proposes (`proposal`) and the date (`today`) beside
it. A read is in `loads` from its start to its answer, is served at one moment
(`Read`) and arrives at a later one; reads overtake each other and may fail
(`LoadFails`). `Send` is a request and its answer, which may be lost after it was
served; `busy` is `procesando`, `error` the message. A load carries what the
handler closed over.

| Module | Component | State | Actions |
|---|---|---|---|
| `FamilyDays` | `jornadas-familia.tsx` | the list, the selected copy, the proposal form | select, close, approve, resolve a correction, propose one |
| `WorkerClock` | `fichaje-trabajadora.tsx` | the history, the copy under the form, the date of the last rendering | clock in and out, ask for a correction |
| `PeriodPanel` | `periodos-asistencia.tsx` | the month of the header, the period shown, the dialog, the browser's date at the last rendering | change month, close |

A list has the newest work days, `FamilyLimit` (30) or `WorkerLimit` (15) of them
(`NewestDays`, from `orderBy` and `take` of the service). The family's detail is
refreshed only if its day is among them (`Refreshed`, `Renewed`). The worker's panel
computes its `hoy` in the household's zone, the period's panel takes the browser's
clock and zone as they are: `fecha` is any date within `Skew` days of the household's.

Run `screens`: two days of one month and one of the next, an instant for entries and
one for exits, two reads at once, a browser up to a day off, lists of one day for the
worker and of two for the family; two changes of days (`MaxChanges`), three for the
worker. Two reads are what it takes to arrive in the wrong order, two changes to leave
a copy one behind and then current again, two months to close one while the header
shows the other, three days to push one out of the family's list, and three changes
to dispute a day, finish a newer one and open the first again outside the worker's
list. Each exception of the properties below is reached within these bounds: without
any one of them the run fails. Deadlock checking is off: the days may be over and the
page idle.

- `ActsOnWhatItShows`: whatever order the answers come in, an approval or a
  correction that the API takes was pressed on a copy equal to the day it acts on:
  the expected version is enough to say so of everything a copy shows.
- `FreshButtonsWork`: the panel's conditions against the API's, for a current copy.
  The API's are the guards of the ledger's operations (`CanClockIn` to `CanSeal`).
  The exceptions are in the property: a rejection that would open a second day, and a
  proposal for a day that is in dispute or approved (the button is there all the
  same); for the worker, a day older than her list that is open again, whose *Fichar
  entrada* the API refuses (`ATTENDANCE_ALREADY_OPEN`) until the family settles that
  day; for the period, a late answer that brings a month after the header's, and a
  browser whose month the household has not reached. The property speaks of whichever
  period is shown, also of one that is not the header's month.
- `DetailBecomesCurrent`: an open detail catches up with the days, or the panel has
  an error, or its day is older than the list, infinitely often. It holds because an
  answer with the day makes a new `cargarJornadas`, which the effect calls: the panel
  polls. An answer without it does neither, and the detail stays as it was.

Fairness (`FairScreens`): weak fairness of the family panel's reads being served
and of their answers arriving. The browser and the API owe an answer, if only a
failure, which `LoadFails` may be at any time; users and other clients owe nothing.

Two disagreements with what the code says, which the exceptions above show. The
message after a version conflict, "Actualizamos la información para que puedas
revisarla nuevamente" (`jornadas-familia.tsx:86`), is not true of a detail whose day
is older than the thirty of the list: the load that follows leaves it as it was, and
the next press conflicts again. And the worker's panel says of a forgotten open day
outside its fifteen that the day may begin, where the API says that there is one
open. Both take more than the days of the tests.

Seen on the way, without a property: each selection and each approval adds one
more polling chain, which ends only with its component; closing a detail is undone
by a load under way; the notice after closing a period names the month of the
header; the close sends the period's version, which no change of a day raises, so
it may freeze other totals than those of the dialog; the form of a proposal
survives a change of the selected day, and sends local hours with a `Z`.

### The profile form and the session

`Profiles.tla` is one person with her `Tabs`: `granted` are the roles of the
database, `cookie` those of the access token, which the whole browser shares, `me`
what each tab shows. A create commits the profile with its role (`CreateProfile`),
then signs a token with the roles of that moment (`SignToken`), and the answer may
be lost or overtaken (`Answer`, `Refused`). `ExpireToken` is the token's end and the
log-out.

- `ShownRolesWork`: a role on screen is admitted by the API, unless the create that
  gave it was never answered (`unanswered`) or two answers crossed and the older
  token stayed (`crossed`). Both last until the next log-in: the client never calls
  `auth/refresh`, and a second create answers 409 without a token.

## 10. The legal texts

`LegalTexts.tla` has the texts of each kind in order of publication, and two ways to
find one: `Served` (`legal.controller.ts`: in force, since latest) and `Recorded`
(`recordConsents`: the newest). Texts are published, reviewed and retired by hand,
outside the program. `ProfileConsents` adds to `Profiles` what a tab has `seen` and
what its create recorded.

`consents` (expected violation), one kind, two texts, two dates, one tab: a person
reads the text in force, and her consent names a draft published since, which no
page shows. The comments of `employers.service.ts:156`, `texto-legal.tsx:20` and
`legal.controller.ts:45` say otherwise. Without a later text the two queries agree.

What does hold of the consents is proved in section 11 for any number of texts, dates
and tabs: `ConsentIsNotOlder`, they are to a text that exists and never to an older
one than was seen or is on the page, and `ProfilesHaveConsents`, every role given has
exactly one consent of each kind, none without its role. No run checks these two.

## 11. Proofs

### Attendance

`AttendanceProofs.tla` proves, for all values of the constants that satisfy the
named assumptions (`RequestsAssumption`, `CalendarAssumption`,
`ProposalsAssumption`, `KeysAssumption`):

- `TypeCorrect`: `Spec => []TypeOK`;
- `MonthInvariant`: `Spec => []MonthInv`, the inductive invariant, with the types;
- `SnapshotCorrect`: `Spec => []SnapshotIsTheMonth`;
- `ClosedMonthStays`: `Spec => ClosedMonthIsFrozen`;
- `DayInvariant`: `Spec => []DayInv`, and from it `DisputesAreSingle`,
  `EntriesMatch`, `ApprovedMinutesCorrect` and `VersionsWitness`;
- `EntriesStay`, `AckedCorrect` and `OneDayOpen`, which need little beside the types;
- `LedgerImplemented`: `Spec => ImplementsLedger`, the refinement.

`SnapshotIsTheMonth` is not inductive: it must be known that a request past
`Check` holds its month's lock (`LockIsHeld`), that the month of a request is
the month of its day (`MonthOfItsDay`), that the month it checked is still open
(`CheckedMonthIsOpen`) and that the rows a close copied are still the rows
(`CheckedViewIsCurrent`). `MonthInv` is their conjunction. The argument of its
induction: a commit changes one day of the month whose lock it holds
(`DayCommitFrame`), so it cannot be the month another request has checked, and
that month is open, so no snapshot exists that it could falsify.

The day is held by its version and not by the lock. `DayFits` says which rows go
with a status, with more than the properties ask: a day without a row has no
entries, an OPEN one has never had a clock-out (an archived one would make a
rejected correction wait for approval), a day with a clock-out has one in force.
`CopyFits` says what a request's version is worth: it never exceeds the row's, and
while they are equal the entries, the pending correction and the status to return
to are still the ones the request read. A commit moves the version of its day on
(`CommitMovesOn`), so other copies of that day stop claiming anything.

The refinement adds that proposals run forward in time and that an open month has
no snapshot. Each commit is then one operation of the ledger (a lemma for each,
`...OnLedger`), and every other step leaves what the ledger sees.

### Outbox

From `MessagesAssumption` and `LimitsAssumption`, for any number of messages,
workers and attempts: `OutboxInvariant` (`Spec => []OutboxInv`) and, from it,
that outcomes are earned, mails are single, settled rows stay and the code of a
message goes with its retries (`CodeIsKept`). A worker's
copy of `attempts` is below the number of failures that happened
(`CopiesAreHonest`), which carries OutcomesAreEarned through the updates by id;
an undisturbed message has one holder under a live lease
(`UndisturbedIsExclusive`), so no second worker can have claimed it, and it has been
sent with an answer only if that holder is about to say so.
`EventuallySettled` is left to TLC.

### Conditions

From `DataAssumption` and `EvidenceAssumption`: `ConditionsInvariant`
(`Spec => []ConditionsInv`) and from it `ConsentIsReal`, `ScheduleIsReal`,
`StatusFollowsTheMachine` and `VersionTellsTheTerms`. The key is `ReadingsHold`:
a request whose version is still the row's has the row's terms, hence the
evidence an acceptance writes is of the terms in force. For schedules it must
be known that the ids are fresh (`SchedulesAreFresh`) and that an acceptance
that would succeed has read the published schedule (`AcceptanceSeesTheSchedule`).

### The pages

`CompositionProofs.tla` has what is built over Conditions: the pages and the payroll.
From the assumptions of Conditions and `PagesAssumption`: `PagesImplementConditions`
(`PagesSpec => Spec`: every step of a page is one of the services or none), so that
`ConditionsInv` and `ConsentBehindPages` hold behind the pages; `PagesInvariant`, and
from it `VersionWouldSuffice` and `ButtonsAreHonest`. `ShownHolds` says what an old
copy still tells: at the same version the same terms, and, sent at that version and
without a stale put, the same schedules. `PressedAsOffered` ties an acceptance under
way to the copy it was pressed on.

### Invitations and households

From `TimeAssumption`: `InvitationsInvariant` (`Spec => []InvitationsInv`) and
`HouseholdInvariant` (`HouseholdSpec => [](InvitationsInv /\ HouseholdInv)`), and
from them `RelationshipsAreSingle`, `PendingIsSingle`, `AnswersStay` and
`ArchivedStaysEmpty`. `CopiesHold` says that a
request by id has read PENDING, `UnansweredIsUnlinked` that what is PENDING has
no relationship yet, so an acceptance creates the first; `CreateIsAlone` keeps
the duplicate check valid until the insert. `HouseholdInv` adds that an archive under
way belongs to an idle request and that, unless the archive raced, no create is under
way at an archived household: no later step can then fill it.

### Payroll

From the assumptions of Conditions and `PeriodsAssumption`:
`PayrollKeepsConditions` (`PayrollSpec => Spec`: the composition takes nothing
away from Conditions, whose invariant it inherits), `PayrollInvariant`
(`PayrollSpec => []PayrollInv`) and from it `OneCalculation` and
`CalculationHasConsent`. A calculator that could still persist has read the
number the period has (`CalculatorsHold`); what carries the terms is
`ConsentStays`, that a step of Conditions which does not become the exception
leaves the terms of an accepted relationship alone.

### Engine and receipt

From `SortAssumption`, `InputsAssumption`, `PrecisionAssumption` and
`ReceiptsAssumption`, which are all that is known of the inputs, the sort, the
fractions and the tolerance:

| Theorem | States | Argument |
|---|---|---|
| `SeniorityHasOneAnswer` | `OneTierEachYear` | sorted tiers that do not overlap their neighbours do not overlap at all (`TiersAreApart`), so two that cover a year are one (`OneTierCovers`) |
| `TotalsAddTheLines` | `TotalsAreTheLines` | the total of a concatenation is the sum of the totals; credits come from concepts only; each obligation is one line (`ObligationsAreLines`); the net is rounded already (`RoundedStays`) |
| `ConceptsAreRoundedOnce` | `RoundedOnce` | below |
| `OnlyTheRelevantMoves` | `OnlyTheRelevantCounts` | what is dropped weighs nothing, what is kept weighs the same, and a reversed list sums to the same (`WeighRelevant`) |
| `MoreIsPaidNoLess` | `MoreIsNeverLess` | below |
| `NothingLeftOutInSilence` | `LeftOutIsAnnounced` | without a warning or an error nothing is pending or unjustified, and granting it changes no line (`GrantedTotals`) |
| `PassedReceiptsPay` | `PassedPaysTheNet` | whatever list of codes and amounts is imported: if it does not block, its codes are those prepared (`NothingBlocks`), each prepared line has a place of its own and every other place is overlooked (`PlacesAreFound`); the signed sum at those places is the calculated one moved by what is off (`SumAtPlaces`, `SumOfTwo`), each at most the tolerance (`SumIsWithin`), and there are as many differences (`DifferencesCount`) |
| `FaithfulPassesTheCheck` | `FaithfulPasses` | the map by code finds the last line of that code (`FoundIs`), which is the line itself unless two share it |
| `ReceiptsCalculate` | `ReceiptsSpec => Spec` | importing a receipt changes neither input nor result, so all of the above holds with a receipt |

`RoundingIsClose` and `RoundedStays` say of `Round`, for all amounts, units and
modes, that it moves less than a unit and leaves the rounded alone.

`YearsAreAnniversaries` says of the years of service, for all dates, that they are the
anniversaries that have come, the day itself included.

`MoreWorkIsMorePay` is the general form: of two months on the same terms, the one
with no less salary and no fewer minutes (`Grows`) has no smaller gross. A quotient
and a rounding keep the order of amounts, also across zero (`NearestGrows`,
`RoundingKeepsOrder`), and a product does while nothing is negative
(`ProductsGrow`). Each concept then grows with what it is made of: the hourly value
(`HourlyGrows`), the base and the overtime (`SeniorityGrows`, `ZoneGrows`), the day
(`VacationGrows`); the others do not change (`OtherConceptsStay`). A kind of overtime
nobody worked has no line, and one that appears is worth no less than none.

Sums and filters are recursive functions on the positions of a list. What they
compute is proved by induction, with the set of the lengths for which a fact holds
in the place of the fact (`SetInduction`, from `WellFoundedInduction`, whose
statement has no operator parameter). `Weigh` gives each line a weight, `WeighBoth`,
`WeighReverse` and `WeighKept` say how lists add up, are reversed and are filtered.

`RoundedOnce` is a statement about errors. A quotient is at most half a fraction
away from the exact one (`NearestIsClose`). Each way a concept divides
(`HourlyIsClose`, `DailyIsClose`, `BonusIsClose`) multiplies that by hours, a rate,
days or months, and `PrecisionAssumption` keeps the product below half a unit, so
that one rounding brings the amount at most a unit away, or two in UP and DOWN
(`RoundedIsClose`). The assumption is `money.ts:16`: the digits the arithmetic keeps
leave a margin for intermediate products. With the 28 digits of the code every
realistic salary, rate and month satisfies it; TLC checks that the inputs of the run
do, with the few fractions the model has.

### The screens

From `DatesAssumption` (dates and months are integers, there is a first date, and a
later date is not in an earlier month), `ClockAssumption` (the clock is pressed at
instants) and `WorkerLimitAssumption` (a list has room for a day), for any number of
days, months, reads under way, tabs and roles, any limits of the lists and any `Skew`
of the browser's date:

- `ScreensInvariant` (`ScreensSpec => []ScreensInv`) and from it `PressedIsShown`
  (`ActsOnWhatItShows`). A row on a screen, or on its way to one, is `Before` the
  day it was read of: its version is not above the day's, and while they are equal it
  shows what the day is. `ListBefore` and `CopyBefore` say so of a list, which may
  lack any day, and of a selected copy. An answer that comes late only replaces one earlier sight by
  another, so the order of the answers does not matter.
- `RolesShownWork` (`ShownRolesWork`): a page shows roles the database has
  (`ShownIsGranted`), and until two answers cross a token, in the browser or on its
  way, lacks only those of creates nobody answered (`TokensLag`).
- `ConsentsImplementProfiles` (`ConsentSpec => ProfilesSpec`): with the consents in
  its transaction a create is still the create of `Profiles`. `ConsentsAreToNewerTexts`
  (`ConsentIsNotOlder`) and `RolesComeWithConsents` (`ProfilesHaveConsents`) follow
  from `ConsentsInv`: texts are only added (`TextsAreKept`), so the last one, which a
  consent records (`LastIsRecorded`), is not before any that was on a page; and a role
  that is there is not created again. `ServedIsInForce`: in production the page shows
  a text in force, and shows one whenever one is.
- `FreshButtonsAreServed` (`FreshButtonsWork`): a fresh button meets the guard of the
  operation it asks for. `DaysHold` is what the API keeps true of the days and a
  button relies on: no day is after today, hours go with the status, only a disputed
  day has a proposal, and it runs forward, and a closed month is over and has no day
  under way. As no day is after today, a recorded today is in every list
  (`NewestIsListed`): only an older day may hide an open one. `PeriodSees` says that
  the month of the header and the browser's date are some month and some date.
- `ScreensKeepTheLedger` (`ScreensSpec => Spec`, the ledger's): what is done to the
  days through the panels is what the ledger does, and by `LedgerImplemented` so is
  what the handlers do: one specification bounds both sides of the API.

### Identity

From `LimitsAssumption`, for any number of requests, codes and sessions:
`InvHolds` (`Spec => []IdentityInv`) and from it `OneCodeInForce`,
`AttemptsHaveALimit`, `SessionsAgree` and `ClosedIsClosed`. `ReadingsHold` says
that what a request read is still right for what it will write: `OthersStayRight`
shows that a step of another request cannot spoil it, once for all actions.
`AttemptsAndTrials` counts a mistyped code when it is read, not when it is
written, which is what makes the limit inductive.

### What stays with TLC

- `DetailBecomesCurrent` and `EventuallySettled`: liveness under fairness.
- The expected violations (`outbox_code`, `consent_seen`, `consents`), which are
  single behaviours.

Every other property of a passing run is stated by a theorem of this section.

## 12. Not modelled

- Of the web client: the public page of an invitation, the household and invitation
  forms, the lists of relationships, summaries, layout and wording. They send one
  request and navigate away.
- Of the profiles: their update. Nothing else reads what it writes, but its names are
  read outside its transaction and always written both, so that an update of one name
  may undo a concurrent update of the other.
- Of identity: the user row of a first log-in, the audit of failed ones, the list of
  sessions, the contents of tokens.
- Of the domain: date ranges, masked accounts, the arcs that no service takes.
- The assisted ARCA tasks and the transfer provider: instructions and links; no
  service calls them. The modules for payments, versions, tasks and reconciliation
  are empty.
- Audit, field encryption, policies, error mapping, configuration, health, contracts,
  observability, test support, the placeholder mobile screen, repository checks, seed
  data and containers: stateless, one insert each, or presentation.
- The database's append-only trigger on the audit, and everything about the contents
  of names, messages and explanations.
