------------------------------- MODULE Outbox -------------------------------
(***************************************************************************)
(* The transactional outbox: rows that business transactions enqueue and   *)
(* that OutboxProcessorWorker, in one or more processes, claims with a     *)
(* lease, sends and records.                                               *)
(*                                                                         *)
(* Time is only what it decides: whether a row's availableAt has passed    *)
(* (ready) and whether its leaseExpiresAt has (lease).  No SMTP timeout is *)
(* configured and a batch shares one lease, so a lease may run out at any  *)
(* moment of a sending.  processingBy is written for people to read and    *)
(* decides nothing.                                                        *)
(***************************************************************************)
EXTENDS Integers, FiniteSets

CONSTANTS
  Messages,     \* the rows, as numbers in the order of createdAt
  Otp,          \* those whose payload carries an encrypted one-time code
  Workers,      \* the processes that run the worker
  MAX_ATTEMPTS,
  BATCH_SIZE,
  MaxFaults     \* crashes, lost answers and failed updates in a behaviour (bound)

ASSUME MessagesAssumption == Messages \subseteq Nat /\ Otp \subseteq Messages
ASSUME LimitsAssumption ==
  MAX_ATTEMPTS \in Nat \ {0} /\ BATCH_SIZE \in Nat \ {0} /\ MaxFaults \in Nat

VARIABLES
  status,      \* OutboxMessage.status, "NONE" while there is no row
  attempts,    \* OutboxMessage.attempts
  ready,       \* availableAt <= now
  lease,       \* leaseExpiresAt: "none" (null), "live" or "expired"
  code,        \* the payload still holds encryptedOtp
  phase,       \* what each worker is doing
  batch,       \* the rows as a worker read them, those not yet recorded
  sent,        \* how often the SMTP server took each message
  failures,    \* how often processMessage entered its catch
  unanswered,  \* messages the server took without the worker learning of it
  disturbed,   \* messages whose sending the database lost sight of
  faults       \* crashes, lost answers and failed updates so far

rowVars     == <<status, attempts, ready, lease, code>>
workerVars  == <<phase, batch>>
historyVars == <<sent, failures, unanswered, disturbed>>
vars == <<rowVars, workerVars, historyVars, faults>>

Statuses == {"NONE", "PENDING", "PROCESSING", "DELIVERED", "DEAD_LETTER"}
Phases == {"idle", "sending", "sent", "failed"}
Settled == {"DELIVERED", "DEAD_LETTER"}
ClaimedMessage == [msg: Messages, attempts: Nat]

Init ==
  /\ status = [m \in Messages |-> "NONE"]
  /\ attempts = [m \in Messages |-> 0]
  /\ ready = [m \in Messages |-> FALSE]
  /\ lease = [m \in Messages |-> "none"]
  /\ code = [m \in Messages |-> FALSE]
  /\ phase = [w \in Workers |-> "idle"]
  /\ batch = [w \in Workers |-> {}]
  /\ sent = [m \in Messages |-> 0]
  /\ failures = [m \in Messages |-> 0]
  /\ unanswered = {}
  /\ disturbed = {}
  /\ faults = 0

----------------------------------------------------------------------------
(* Rows *)

\* enqueueEmail: the row commits with the change that it tells of.
Enqueue(m) ==
  /\ status[m] = "NONE"
  /\ status' = [status EXCEPT ![m] = "PENDING"]
  /\ ready' = [ready EXCEPT ![m] = TRUE]
  /\ code' = [code EXCEPT ![m] = m \in Otp]
  /\ UNCHANGED <<attempts, lease, workerVars, historyVars, faults>>

\* The backoff of a failed message is over.
Ripen(m) ==
  /\ ~ready[m]
  /\ status[m] # "NONE"
  /\ ready' = [ready EXCEPT ![m] = TRUE]
  /\ UNCHANGED <<status, attempts, lease, code, workerVars, historyVars, faults>>

HeldBy(w) == {c.msg : c \in batch[w]}

\* LEASE_MS are over.  Nothing tells the worker that still holds the message.
Expire(m) ==
  /\ lease[m] = "live"
  /\ lease' = [lease EXCEPT ![m] = "expired"]
  /\ disturbed' = IF \E w \in Workers : m \in HeldBy(w)
                  THEN disturbed \union {m} ELSE disturbed
  /\ UNCHANGED <<status, attempts, ready, code, workerVars, sent, failures, unanswered,
                 faults>>

----------------------------------------------------------------------------
(* A worker *)

ClaimableIgnoringLease(m) == status[m] \in {"PENDING", "PROCESSING"}
ClaimableOnce(m) == status[m] = "PENDING"
Claimable(m) == status[m] = "PENDING" \/ (status[m] = "PROCESSING" /\ lease[m] = "expired")
Eligible == {m \in Messages : ready[m] /\ attempts[m] < MAX_ATTEMPTS /\ Claimable(m)}

\* ORDER BY createdAt LIMIT BATCH_SIZE
Oldest(S) == {m \in S : Cardinality({n \in S : n < m}) < BATCH_SIZE}

\* claimBatch: a short transaction, serial by FOR UPDATE SKIP LOCKED.
Claim(w) ==
  /\ phase[w] = "idle"
  /\ Oldest(Eligible) # {}
  /\ batch' = [batch EXCEPT ![w] =
       {[msg |-> m, attempts |-> attempts[m]] : m \in Oldest(Eligible)}]
  /\ status' = [m \in Messages |-> IF m \in Oldest(Eligible) THEN "PROCESSING" ELSE status[m]]
  /\ lease' = [m \in Messages |-> IF m \in Oldest(Eligible) THEN "live" ELSE lease[m]]
  /\ phase' = [phase EXCEPT ![w] = "sending"]
  /\ UNCHANGED <<attempts, ready, code, historyVars, faults>>

\* The message the worker is at: a batch is processed in the order claimed.
Current(w, c) == c \in batch[w] /\ \A d \in batch[w] : c.msg <= d.msg

Fault == faults < MaxFaults /\ faults' = faults + 1

\* sendMail resolves: the SMTP server has the message.
Accept(w, c) ==
  /\ phase[w] = "sending" /\ Current(w, c)
  /\ sent' = [sent EXCEPT ![c.msg] = @ + 1]
  /\ phase' = [phase EXCEPT ![w] = "sent"]
  /\ UNCHANGED <<rowVars, batch, failures, unanswered, disturbed, faults>>

\* Decrypting the code throws, or sendMail does and the server has not taken the mail.
Reject(w, c) ==
  /\ phase[w] = "sending" /\ Current(w, c)
  /\ failures' = [failures EXCEPT ![c.msg] = @ + 1]
  /\ phase' = [phase EXCEPT ![w] = "failed"]
  /\ UNCHANGED <<rowVars, batch, sent, unanswered, disturbed, faults>>

\* The server takes the mail and its answer is lost, or comes after nodemailer's
\* own time limits: sendMail throws all the same.
LoseAnswer(w, c) ==
  /\ phase[w] = "sending" /\ Current(w, c)
  /\ Fault
  /\ sent' = [sent EXCEPT ![c.msg] = @ + 1]
  /\ failures' = [failures EXCEPT ![c.msg] = @ + 1]
  /\ unanswered' = unanswered \union {c.msg}
  /\ phase' = [phase EXCEPT ![w] = "failed"]
  /\ UNCHANGED <<rowVars, batch, disturbed>>

\* The loop goes on to the next message of the batch, or the run is over.
Advance(w, c) ==
  /\ batch' = [batch EXCEPT ![w] = @ \ {c}]
  /\ phase' = [phase EXCEPT ![w] = IF batch[w] = {c} THEN "idle" ELSE "sending"]

\* update({ where: { id } }): whatever became of the row since the claim.
MarkDelivered(m) ==
  /\ status' = [status EXCEPT ![m] = "DELIVERED"]
  /\ code' = [code EXCEPT ![m] = FALSE]
  /\ lease' = [lease EXCEPT ![m] = "none"]
  /\ UNCHANGED <<attempts, ready>>

RecordDelivered(w, c) ==
  /\ phase[w] = "sent" /\ Current(w, c)
  /\ MarkDelivered(c.msg)
  /\ Advance(w, c)
  /\ UNCHANGED <<historyVars, faults>>

\* The update fails after sendMail succeeded, or commits and its answer is
\* lost: either way the same try block ends in the catch.
LoseRecord(w, c) ==
  /\ phase[w] = "sent" /\ Current(w, c)
  /\ Fault
  /\ MarkDelivered(c.msg) \/ UNCHANGED rowVars
  /\ failures' = [failures EXCEPT ![c.msg] = @ + 1]
  /\ disturbed' = disturbed \union {c.msg}
  /\ phase' = [phase EXCEPT ![w] = "failed"]
  /\ UNCHANGED <<batch, sent, unanswered>>

\* isDeadLetter, from the attempts that the claim read.
TooEarly(n) == n >= MAX_ATTEMPTS - 1
IsDeadLetter(n) == n >= MAX_ATTEMPTS

\* The payload of a failed message is redacted with the last try only.
RedactsAlways(n) == TRUE
Redacts(n) == IsDeadLetter(n)

RecordFailure(w, c) ==
  LET m == c.msg
      n == c.attempts + 1
  IN
  /\ phase[w] = "failed" /\ Current(w, c)
  /\ attempts' = [attempts EXCEPT ![m] = n]
  /\ lease' = [lease EXCEPT ![m] = "none"]
  /\ status' = [status EXCEPT ![m] = IF IsDeadLetter(n) THEN "DEAD_LETTER" ELSE "PENDING"]
  /\ ready' = [ready EXCEPT ![m] = @ /\ IsDeadLetter(n)]
  /\ code' = [code EXCEPT ![m] = @ /\ ~Redacts(n)]
  /\ Advance(w, c)
  /\ UNCHANGED <<historyVars, faults>>

\* The update in the catch throws as well: the rest of the batch is dropped.
DropBatch(w) ==
  /\ phase[w] = "failed"
  /\ Fault
  /\ batch' = [batch EXCEPT ![w] = {}]
  /\ phase' = [phase EXCEPT ![w] = "idle"]
  /\ UNCHANGED <<rowVars, historyVars>>

\* The process dies and is started again.
Crash(w) ==
  /\ phase[w] # "idle"
  /\ Fault
  /\ batch' = [batch EXCEPT ![w] = {}]
  /\ phase' = [phase EXCEPT ![w] = "idle"]
  /\ disturbed' = IF phase[w] = "sent"
                  THEN disturbed \union {c.msg : c \in {x \in batch[w] : Current(w, x)}}
                  ELSE disturbed
  /\ UNCHANGED <<rowVars, sent, failures, unanswered>>

----------------------------------------------------------------------------
(* The specification *)

Process(w) ==
  \E c \in batch[w] : Accept(w, c) \/ Reject(w, c) \/ RecordDelivered(w, c) \/ RecordFailure(w, c)

Next ==
  \/ \E m \in Messages : Enqueue(m) \/ Ripen(m) \/ Expire(m)
  \/ \E w \in Workers :
       \/ Claim(w) \/ Process(w) \/ DropBatch(w) \/ Crash(w)
       \/ \E c \in batch[w] : LoseAnswer(w, c) \/ LoseRecord(w, c)

Spec == Init /\ [][Next]_vars

\* The timer polls for ever, a run that has begun goes on (nodemailer gives up
\* on a dead connection by itself), and time passes.  SMTP may always refuse.
Fairness ==
  /\ \A w \in Workers : WF_vars(Claim(w)) /\ WF_vars(Process(w))
  /\ \A m \in Messages : WF_vars(Ripen(m)) /\ WF_vars(Expire(m))
FairSpec == Spec /\ Fairness

----------------------------------------------------------------------------
(* Properties *)

TypeOK ==
  /\ status \in [Messages -> Statuses]
  /\ attempts \in [Messages -> Nat]
  /\ ready \in [Messages -> BOOLEAN]
  /\ lease \in [Messages -> {"none", "live", "expired"}]
  /\ code \in [Messages -> BOOLEAN]
  /\ phase \in [Workers -> Phases]
  /\ batch \in [Workers -> SUBSET ClaimedMessage]
  /\ sent \in [Messages -> Nat]
  /\ failures \in [Messages -> Nat]
  /\ unanswered \subseteq Messages
  /\ disturbed \subseteq Messages
  /\ faults \in Nat

\* A message counts as delivered only if the SMTP server took it, and is given
\* up only after MAX_ATTEMPTS tries ended in the catch, however many workers held
\* it at once and whatever their copies of attempts were.
OutcomesAreEarned ==
  \A m \in Messages :
    /\ status[m] = "DELIVERED" => sent[m] > 0
    /\ status[m] = "DEAD_LETTER" => failures[m] >= MAX_ATTEMPTS
    /\ attempts[m] <= failures[m]

\* No mail goes out twice but for four causes: a server that took it and whose
\* answer was lost, a lease that ran out while a living worker held the message,
\* a crash between sending and recording, and a lost update.  In particular two
\* workers that poll at once, and a crash before sending, duplicate nothing.
OnceUnlessDisturbed ==
  \A m \in Messages : sent[m] > 1 => m \in disturbed \union unanswered

\* Why both hold.  A worker's copy never counts more failures than there were,
\* one that is recording a failure has one to record, and one that is
\* recording a delivery has sent.
CopiesAreHonest ==
  \A w \in Workers : \A c \in batch[w] :
    /\ c.attempts <= failures[c.msg]
    /\ phase[w] = "failed" /\ Current(w, c) => c.attempts < failures[c.msg]
    /\ phase[w] = "sent" /\ Current(w, c) => sent[c.msg] > 0
BatchesAreRuns ==
  \A w \in Workers :
    /\ phase[w] = "idle" <=> batch[w] = {}
    /\ \A c, d \in batch[w] : c.msg = d.msg => c = d

\* An undisturbed message is held by one worker at most, while its row is
\* PROCESSING under a live lease, and it has been sent with an answer only if
\* that worker is about to record so, or has recorded it.
UndisturbedIsExclusive ==
  \A m \in Messages \ disturbed :
    /\ \A v, w \in Workers : m \in HeldBy(v) /\ m \in HeldBy(w) => v = w
    /\ \A w \in Workers : m \in HeldBy(w) => status[m] = "PROCESSING" /\ lease[m] = "live"
    /\ sent[m] > 0 /\ m \notin unanswered =>
         \/ status[m] = "DELIVERED"
         \/ \E w \in Workers : \E c \in batch[w] :
              c.msg = m /\ Current(w, c) /\ phase[w] = "sent"

\* What does hold of the code ("while the message can be retried its payload is
\* not touched", ADR 0003, and the redaction in processMessage): it is gone once
\* the message is settled, whoever settled it, and until then an undisturbed
\* message has it.
CodeGoesWithTheRetries ==
  \A m \in Otp :
    /\ status[m] \in Settled => ~code[m]
    /\ status[m] \in {"PENDING", "PROCESSING"} /\ m \notin disturbed => code[m]

OutboxInv ==
  /\ TypeOK
  /\ OutcomesAreEarned
  /\ OnceUnlessDisturbed
  /\ CopiesAreHonest
  /\ BatchesAreRuns
  /\ UndisturbedIsExclusive
  /\ CodeGoesWithTheRetries

\* Without those causes what was delivered or given up stays so: no worker's
\* late result overwrites it.
SettledIsFinal ==
  [][\A m \in Messages : status[m] \in Settled /\ m \notin disturbed' =>
       status'[m] = status[m]]_vars

\* Whatever the order in which workers overwrite each other's results, and
\* even if attempts goes back, every message is settled for good in the end,
\* once crashes, lost answers and failed updates cease.
EventuallySettled ==
  \A m \in Messages : <>[](status[m] \in Settled \union {"NONE"})

\* "While the message can be retried its payload is not touched" (ADR 0003,
\* section 3, and the comment in processMessage): a retry has a code to send.
RetryKeepsItsCode ==
  \A m \in Otp : status[m] \in {"PENDING", "PROCESSING"} => code[m]
============================================================================
