---------------------------- MODULE OutboxProofs ----------------------------
(* Proofs about Outbox: OutboxInv is inductive, for any number of messages, *)
(* workers, attempts and faults.                                            *)
EXTENDS Outbox, TLAPS

\* A batch has one message at a time in hand.
LEMMA CurrentIsUnique ==
  ASSUME TypeOK, BatchesAreRuns, NEW w \in Workers, NEW c, NEW d, Current(w, c), Current(w, d)
  PROVE  c = d
<1>1. c \in ClaimedMessage /\ d \in ClaimedMessage
  BY DEF TypeOK, Current
<1>2. c.msg \in Nat /\ d.msg \in Nat /\ c.msg <= d.msg /\ d.msg <= c.msg
  BY <1>1, MessagesAssumption DEF Current, ClaimedMessage
<1>3. c.msg = d.msg
  BY <1>2
<1> QED
  BY <1>3 DEF Current, BatchesAreRuns

LEMMA InitEstablishesInv == Init => OutboxInv
BY LimitsAssumption, MessagesAssumption DEF Init, OutboxInv, TypeOK, OutcomesAreEarned, OnceUnlessDisturbed,
   CopiesAreHonest, BatchesAreRuns, UndisturbedIsExclusive, CodeGoesWithTheRetries, HeldBy,
   Settled, Statuses, Phases

\* LIMIT only leaves rows out.
LEMMA OldestIsPart == \A S : Oldest(S) \subseteq S
BY Zenon DEF Oldest

LEMMA ClaimedAreTyped ==
  ASSUME TypeOK
  PROVE  {[msg |-> m, attempts |-> attempts[m]] : m \in Oldest(Eligible)} \subseteq ClaimedMessage
<1>1. Oldest(Eligible) \subseteq Messages
  BY OldestIsPart DEF Eligible
<1> QED
  BY <1>1 DEF ClaimedMessage, TypeOK

LEMMA TypeStep == TypeOK /\ [Next]_vars => TypeOK'
<1> SUFFICES ASSUME TypeOK, [Next]_vars PROVE TypeOK'
  OBVIOUS
<1> USE DEF TypeOK, Statuses, Phases
<1>1. ASSUME NEW m \in Messages, Enqueue(m) PROVE TypeOK'
  BY <1>1 DEF Enqueue, workerVars, historyVars
<1>2. ASSUME NEW m \in Messages, Ripen(m) PROVE TypeOK'
  BY <1>2 DEF Ripen, workerVars, historyVars
<1>3. ASSUME NEW m \in Messages, Expire(m) PROVE TypeOK'
  BY <1>3 DEF Expire, workerVars
<1>4. ASSUME NEW w \in Workers, Claim(w) PROVE TypeOK'
  BY <1>4, ClaimedAreTyped DEF Claim, historyVars
<1>5. ASSUME NEW w \in Workers, NEW c \in batch[w], Accept(w, c) PROVE TypeOK'
  BY <1>5 DEF Accept, rowVars, ClaimedMessage
<1>6. ASSUME NEW w \in Workers, NEW c \in batch[w], Reject(w, c) PROVE TypeOK'
  BY <1>6 DEF Reject, rowVars, ClaimedMessage
<1>13. ASSUME NEW w \in Workers, NEW c \in batch[w], LoseAnswer(w, c) PROVE TypeOK'
  BY <1>13 DEF LoseAnswer, Fault, rowVars, ClaimedMessage
<1>7. ASSUME NEW w \in Workers, NEW c \in batch[w], RecordDelivered(w, c) PROVE TypeOK'
  BY <1>7 DEF RecordDelivered, MarkDelivered, Advance, historyVars, ClaimedMessage
<1>8. ASSUME NEW w \in Workers, NEW c \in batch[w], LoseRecord(w, c) PROVE TypeOK'
  <2>1. c.msg \in Messages
    BY DEF ClaimedMessage
  <2>2. CASE MarkDelivered(c.msg)
    BY <1>8, <2>1, <2>2 DEF LoseRecord, MarkDelivered, Fault
  <2>3. CASE UNCHANGED rowVars
    BY <1>8, <2>1, <2>3 DEF LoseRecord, Fault, rowVars
  <2> QED
    BY <1>8, <2>2, <2>3 DEF LoseRecord
<1>9. ASSUME NEW w \in Workers, NEW c \in batch[w], RecordFailure(w, c) PROVE TypeOK'
  <2>1. c.msg \in Messages /\ c.attempts + 1 \in Nat
    BY DEF ClaimedMessage
  <2>2. CASE IsDeadLetter(c.attempts + 1)
    BY <1>9, <2>1, <2>2 DEF RecordFailure, Advance, historyVars
  <2>3. CASE ~IsDeadLetter(c.attempts + 1)
    BY <1>9, <2>1, <2>3 DEF RecordFailure, Advance, historyVars
  <2> QED
    BY <2>2, <2>3
<1>10. ASSUME NEW w \in Workers, DropBatch(w) PROVE TypeOK'
  BY <1>10 DEF DropBatch, Fault, rowVars, historyVars
<1>11. ASSUME NEW w \in Workers, Crash(w) PROVE TypeOK'
  BY <1>11 DEF Crash, Fault, rowVars, ClaimedMessage
<1>12. CASE UNCHANGED vars
  BY <1>12 DEF vars, rowVars, workerVars, historyVars
<1> QED
  BY <1>1, <1>2, <1>3, <1>4, <1>5, <1>6, <1>7, <1>8, <1>9, <1>10, <1>11, <1>12, <1>13
  DEF Next, Process

\* The actions that move no batch, and those that only end one.
LEMMA RunsStep == TypeOK /\ BatchesAreRuns /\ [Next]_vars => BatchesAreRuns'
<1> SUFFICES ASSUME TypeOK, BatchesAreRuns, [Next]_vars PROVE BatchesAreRuns'
  OBVIOUS
<1> USE DEF BatchesAreRuns
<1>1. ASSUME NEW m \in Messages, Enqueue(m) \/ Ripen(m) \/ Expire(m) PROVE BatchesAreRuns'
  BY <1>1 DEF Enqueue, Ripen, Expire, workerVars
<1>2. ASSUME NEW w \in Workers, Claim(w) PROVE BatchesAreRuns'
  <2>1. Oldest(Eligible) # {}
    BY <1>2 DEF Claim
  <2> DEFINE B == {[msg |-> m, attempts |-> attempts[m]] : m \in Oldest(Eligible)}
  <2>2. B # {} /\ \A c, d \in B : c.msg = d.msg => c = d
    <3>1. \A c \in B : c = [msg |-> c.msg, attempts |-> attempts[c.msg]]
      OBVIOUS
    <3>2. \A m \in Oldest(Eligible) : [msg |-> m, attempts |-> attempts[m]] \in B
      OBVIOUS
    <3> QED
      BY <2>1, <3>1, <3>2
  <2>3. batch' = [batch EXCEPT ![w] = B] /\ phase' = [phase EXCEPT ![w] = "sending"]
    BY <1>2 DEF Claim
  <2> HIDE DEF B
  <2> QED
    BY <2>2, <2>3 DEF TypeOK
<1>3. ASSUME NEW w \in Workers, NEW c \in batch[w],
             Accept(w, c) \/ Reject(w, c) \/ LoseAnswer(w, c) \/ LoseRecord(w, c)
      PROVE  BatchesAreRuns'
  BY <1>3 DEF Accept, Reject, LoseAnswer, LoseRecord, TypeOK
<1>4. ASSUME NEW w \in Workers, NEW c \in batch[w], Advance(w, c) PROVE BatchesAreRuns'
  BY <1>4 DEF Advance, TypeOK
<1>5. ASSUME NEW w \in Workers, DropBatch(w) \/ Crash(w) PROVE BatchesAreRuns'
  BY <1>5 DEF DropBatch, Crash, TypeOK
<1>6. CASE UNCHANGED vars
  BY <1>6 DEF vars, workerVars
<1> QED
  BY <1>1, <1>2, <1>3, <1>4, <1>5, <1>6 DEF Next, Process, RecordDelivered, RecordFailure

\* What a worker's copy says of the past.
HonestInv == TypeOK /\ BatchesAreRuns /\ OutcomesAreEarned /\ CopiesAreHonest

LEMMA HonestStep == HonestInv /\ [Next]_vars => OutcomesAreEarned' /\ CopiesAreHonest'
<1> SUFFICES ASSUME HonestInv, [Next]_vars PROVE OutcomesAreEarned' /\ CopiesAreHonest'
  OBVIOUS
<1> DEFINE Goal == OutcomesAreEarned' /\ CopiesAreHonest'
<1> USE DEF HonestInv
<1>1. ASSUME NEW m \in Messages, Enqueue(m) PROVE Goal
  BY <1>1 DEF Enqueue, workerVars, historyVars, OutcomesAreEarned, CopiesAreHonest, Current, TypeOK
<1>2. ASSUME NEW m \in Messages, Ripen(m) \/ Expire(m) PROVE Goal
  BY <1>2 DEF Ripen, Expire, workerVars, historyVars, OutcomesAreEarned, CopiesAreHonest, Current
<1>3. ASSUME NEW w \in Workers, Claim(w) PROVE Goal
  <2> DEFINE B == {[msg |-> m, attempts |-> attempts[m]] : m \in Oldest(Eligible)}
  <2>1. \A c \in B : c.msg \in Messages /\ c.attempts = attempts[c.msg]
    BY ClaimedAreTyped DEF ClaimedMessage
  <2>2. /\ batch' = [batch EXCEPT ![w] = B] /\ phase' = [phase EXCEPT ![w] = "sending"]
        /\ UNCHANGED <<attempts, sent, failures>>
        /\ \A m \in Messages : status'[m] = status[m] \/ status'[m] = "PROCESSING"
    BY <1>3 DEF Claim, historyVars
  <2> HIDE DEF B
  <2>3. OutcomesAreEarned'
    BY <2>2 DEF OutcomesAreEarned
  <2>4. CopiesAreHonest'
    BY <2>1, <2>2 DEF OutcomesAreEarned, CopiesAreHonest, Current, TypeOK
  <2> QED
    BY <2>3, <2>4
<1>4. ASSUME NEW w \in Workers, NEW c \in batch[w], Accept(w, c) PROVE Goal
  <2>1. c.msg \in Messages
    BY DEF TypeOK, ClaimedMessage
  <2>2. OutcomesAreEarned'
    BY <1>4, <2>1 DEF Accept, rowVars, OutcomesAreEarned, TypeOK
  <2>3. ASSUME NEW v \in Workers, NEW d \in batch'[v]
        PROVE  /\ d.attempts <= failures'[d.msg]
               /\ phase'[v] = "failed" /\ Current(v, d)' => d.attempts < failures'[d.msg]
               /\ phase'[v] = "sent" /\ Current(v, d)' => sent'[d.msg] > 0
    <3>1. d \in batch[v] /\ d.msg \in Messages /\ (Current(v, d)' <=> Current(v, d))
      BY <1>4 DEF Accept, Current, TypeOK, ClaimedMessage
    <3>2. v = w /\ Current(v, d) => d = c
      BY <1>4, CurrentIsUnique DEF Accept
    <3> QED
      BY <1>4, <2>1, <3>1, <3>2 DEF Accept, CopiesAreHonest, TypeOK
  <2> QED
    BY <2>2, <2>3 DEF CopiesAreHonest
<1>5. ASSUME NEW w \in Workers, NEW c \in batch[w],
             Reject(w, c) \/ LoseAnswer(w, c) \/ LoseRecord(w, c)
      PROVE  Goal
  <2>1. c.msg \in Messages
    BY DEF TypeOK, ClaimedMessage
  <2>2. /\ failures' = [failures EXCEPT ![c.msg] = @ + 1] /\ UNCHANGED batch
        /\ phase' = [phase EXCEPT ![w] = "failed"] /\ Current(w, c)
        /\ UNCHANGED rowVars \/ (phase[w] = "sent" /\ MarkDelivered(c.msg))
    BY <1>5 DEF Reject, LoseAnswer, LoseRecord
  <2>5. \A m \in Messages : sent[m] \in Nat /\ sent'[m] \in Nat /\ sent[m] <= sent'[m]
    BY <1>5, <2>1 DEF Reject, LoseAnswer, LoseRecord, TypeOK
  <2>3. OutcomesAreEarned'
    <3>1. CASE UNCHANGED rowVars
      <4>1. \A m \in Messages : failures[m] <= failures'[m] /\ failures'[m] \in Nat
        BY <2>1, <2>2 DEF TypeOK
      <4>2. status' = status /\ attempts' = attempts
        BY <2>2, <3>1 DEF rowVars
      <4> QED
        BY <4>1, <4>2, <2>5, LimitsAssumption DEF OutcomesAreEarned, TypeOK
    <3>2. CASE phase[w] = "sent" /\ MarkDelivered(c.msg)
      BY <2>1, <2>2, <2>5, <3>2 DEF MarkDelivered, OutcomesAreEarned, CopiesAreHonest, TypeOK
    <3> QED
      BY <2>2, <3>1, <3>2
  <2>4. ASSUME NEW v \in Workers, NEW d \in batch'[v]
        PROVE  /\ d.attempts <= failures'[d.msg]
               /\ phase'[v] = "failed" /\ Current(v, d)' => d.attempts < failures'[d.msg]
               /\ phase'[v] = "sent" /\ Current(v, d)' => sent'[d.msg] > 0
    <3>1. d \in batch[v] /\ d.msg \in Messages /\ d.attempts \in Nat /\ (Current(v, d)' <=> Current(v, d))
      BY <2>2 DEF Current, TypeOK, ClaimedMessage
    <3>2. v = w /\ Current(v, d) => d = c
      BY <2>2, CurrentIsUnique
    <3> QED
      BY <2>1, <2>2, <2>5, <3>1, <3>2 DEF CopiesAreHonest, TypeOK
  <2> QED
    BY <2>3, <2>4 DEF CopiesAreHonest
<1>6. ASSUME NEW w \in Workers, NEW c \in batch[w], Advance(w, c), UNCHANGED <<sent, failures>>
      PROVE  CopiesAreHonest'
  BY <1>6 DEF Advance, CopiesAreHonest, Current, TypeOK
<1>7. ASSUME NEW w \in Workers, NEW c \in batch[w], RecordDelivered(w, c) PROVE Goal
  <2>1. OutcomesAreEarned'
    BY <1>7 DEF RecordDelivered, MarkDelivered, historyVars, OutcomesAreEarned, CopiesAreHonest,
                TypeOK, ClaimedMessage
  <2> QED
    BY <1>6, <1>7, <2>1 DEF RecordDelivered, historyVars
<1>8. ASSUME NEW w \in Workers, NEW c \in batch[w], RecordFailure(w, c) PROVE Goal
  <2>1. c.msg \in Messages /\ c.attempts \in Nat /\ c.attempts < failures[c.msg]
    BY <1>8 DEF RecordFailure, CopiesAreHonest, TypeOK, ClaimedMessage
  <2>2. OutcomesAreEarned'
    BY <1>8, <2>1, LimitsAssumption
    DEF RecordFailure, historyVars, OutcomesAreEarned, IsDeadLetter, TypeOK
  <2> QED
    BY <1>6, <1>8, <2>2 DEF RecordFailure, historyVars
<1>9. ASSUME NEW w \in Workers, DropBatch(w) \/ Crash(w) PROVE Goal
  BY <1>9 DEF DropBatch, Crash, rowVars, historyVars, OutcomesAreEarned, CopiesAreHonest, Current, TypeOK
<1>10. CASE UNCHANGED vars
  BY <1>10 DEF vars, rowVars, workerVars, historyVars, OutcomesAreEarned, CopiesAreHonest, Current
<1> QED
  BY <1>1, <1>2, <1>3, <1>4, <1>5, <1>7, <1>8, <1>9, <1>10 DEF Next, Process

\* UndisturbedIsExclusive and OnceUnlessDisturbed of one message.
OneHolder(m) == \A v, w \in Workers : m \in HeldBy(v) /\ m \in HeldBy(w) => v = w
HolderHasLease(m) ==
  \A w \in Workers : m \in HeldBy(w) => status[m] = "PROCESSING" /\ lease[m] = "live"
SendingIsKnown(m) ==
  sent[m] > 0 /\ m \notin unanswered =>
    \/ status[m] = "DELIVERED"
    \/ \E w \in Workers : \E c \in batch[w] : c.msg = m /\ Current(w, c) /\ phase[w] = "sent"
AtMostOnce(m) == m \notin unanswered => sent[m] <= 1
Exclusive(m) == OneHolder(m) /\ HolderHasLease(m) /\ SendingIsKnown(m) /\ AtMostOnce(m)

LEMMA ExclusiveMeans ==
  ASSUME TypeOK
  PROVE  (\A m \in Messages \ disturbed : Exclusive(m))
           <=> UndisturbedIsExclusive /\ OnceUnlessDisturbed
<1>1. \A m \in Messages : (sent[m] <= 1) <=> ~(sent[m] > 1)
  BY DEF TypeOK
<1> QED
  BY <1>1 DEF Exclusive, OneHolder, HolderHasLease, SendingIsKnown, AtMostOnce,
              UndisturbedIsExclusive, OnceUnlessDisturbed

\* A message that a step does not concern keeps what is known of it.
LEMMA ExclusiveFrame ==
  ASSUME NEW m \in Messages, Exclusive(m),
         \A v \in Workers : m \in HeldBy(v)' => m \in HeldBy(v),
         \A v \in Workers : m \in HeldBy(v)' => status'[m] = status[m] /\ lease'[m] = lease[m],
         sent'[m] = sent[m], unanswered \subseteq unanswered', SendingIsKnown(m)'
  PROVE  Exclusive(m)'
BY DEF Exclusive, OneHolder, HolderHasLease, AtMostOnce

LEMMA ExclusiveStep ==
  ASSUME OutboxInv, [Next]_vars, NEW m \in Messages \ disturbed'
  PROVE  Exclusive(m)'
<1> USE DEF OutboxInv
<1>0. disturbed \subseteq disturbed' /\ unanswered \subseteq unanswered'
  BY DEF Next, Process, Enqueue, Ripen, Expire, Claim, Accept, Reject, LoseAnswer, RecordDelivered,
         LoseRecord, RecordFailure, DropBatch, Crash, historyVars, vars
<1>1. m \notin disturbed /\ Exclusive(m)
  BY <1>0, ExclusiveMeans
<1>2. ASSUME NEW n \in Messages, Enqueue(n) \/ Ripen(n) PROVE Exclusive(m)'
  <2>1. CASE Enqueue(n) /\ n = m
    <3>1. \A w \in Workers : m \notin HeldBy(w)
      BY <2>1, <1>1 DEF Enqueue, Exclusive, HolderHasLease
    <3>2. UNCHANGED <<batch, phase, sent, unanswered>> /\ (m \notin unanswered => ~(sent[m] > 0))
      BY <2>1, <1>1, <3>1 DEF Enqueue, workerVars, historyVars, Exclusive, SendingIsKnown, HeldBy
    <3> QED
      BY <3>1, <3>2, <1>1 DEF Exclusive, OneHolder, HolderHasLease, SendingIsKnown, AtMostOnce, HeldBy
  <2>2. UNCHANGED <<lease, batch, phase, sent, unanswered>>
    BY <1>2 DEF Enqueue, Ripen, workerVars, historyVars
  <2>3. CASE status'[m] = status[m]
    BY <2>2, <2>3, <1>1 DEF Exclusive, OneHolder, HolderHasLease, SendingIsKnown, AtMostOnce,
                            HeldBy, Current
  <2> QED
    BY <1>2, <2>1, <2>3 DEF Enqueue, Ripen, TypeOK
<1>3. ASSUME NEW n \in Messages, Expire(n) PROVE Exclusive(m)'
  <2>1. UNCHANGED <<status, batch, phase, sent, unanswered>>
    BY <1>3 DEF Expire, workerVars
  <2>2. lease'[m] = lease[m] \/ \A w \in Workers : m \notin HeldBy(w)
    BY <1>3 DEF Expire, TypeOK
  <2> QED
    BY <2>1, <2>2, <1>1 DEF Exclusive, OneHolder, HolderHasLease, SendingIsKnown, AtMostOnce,
                            HeldBy, Current
<1>4. ASSUME NEW w \in Workers, Claim(w) PROVE Exclusive(m)'
  <2> DEFINE B == {[msg |-> n, attempts |-> attempts[n]] : n \in Oldest(Eligible)}
  <2>1. /\ batch' = [batch EXCEPT ![w] = B] /\ phase' = [phase EXCEPT ![w] = "sending"]
        /\ sent' = sent /\ unanswered' = unanswered /\ phase[w] = "idle"
        /\ status'[m] = IF m \in Oldest(Eligible) THEN "PROCESSING" ELSE status[m]
        /\ lease'[m] = IF m \in Oldest(Eligible) THEN "live" ELSE lease[m]
    BY <1>4 DEF Claim, historyVars
  <2>2. HeldBy(w)' = Oldest(Eligible)
    <3>1. batch'[w] = B
      BY <2>1 DEF TypeOK
    <3>2. \A n \in Oldest(Eligible) : [msg |-> n, attempts |-> attempts[n]] \in B
      OBVIOUS
    <3>3. \A c \in B : c.msg \in Oldest(Eligible)
      OBVIOUS
    <3>4. \A n \in Oldest(Eligible) : \E c \in B : c.msg = n
      BY <3>2
    <3> HIDE DEF B
    <3> QED
      BY <3>1, <3>3, <3>4 DEF HeldBy
  <2>3. batch[w] = {}
    <3>1. phase[w] = "idle"
      BY <1>4 DEF Claim
    <3> QED
      BY <3>1 DEF BatchesAreRuns
  <2>4. \A v \in Workers \ {w} : batch'[v] = batch[v] /\ phase'[v] = phase[v]
    BY <2>1 DEF TypeOK
  <2> HIDE DEF B
  <2>5. CASE m \in Oldest(Eligible)
    <3>1. m \in Eligible
      BY <2>5, OldestIsPart
    <3>2. \A v \in Workers : m \notin HeldBy(v)
      BY <3>1, <1>1 DEF Eligible, Claimable, Exclusive, HolderHasLease
    <3>3. m \notin unanswered => ~(sent[m] > 0)
      BY <3>1, <3>2, <1>1 DEF Eligible, Claimable, Exclusive, SendingIsKnown, HeldBy
    <3>4. \A v \in Workers : m \in HeldBy(v)' => v = w
      BY <3>2, <2>4 DEF HeldBy
    <3> QED
      BY <2>1, <2>5, <3>3, <3>4, <1>1
      DEF Exclusive, OneHolder, HolderHasLease, SendingIsKnown, AtMostOnce
  <2>6. CASE m \notin Oldest(Eligible)
    <3>1. \A v \in Workers : m \in HeldBy(v)' => m \in HeldBy(v)
      BY <2>2, <2>4, <2>6 DEF HeldBy
    <3>2. SendingIsKnown(m)'
      BY <2>1, <2>3, <2>4, <2>6, <1>1 DEF Exclusive, SendingIsKnown, Current
    <3> QED
      BY <2>1, <2>6, <3>1, <3>2, <1>1, ExclusiveFrame
  <2> QED
    BY <2>5, <2>6
<1>5. ASSUME NEW w \in Workers, NEW c \in batch[w], Accept(w, c) PROVE Exclusive(m)'
  <2>1. /\ UNCHANGED <<status, lease, batch, unanswered>> /\ phase[w] = "sending" /\ Current(w, c)
        /\ sent' = [sent EXCEPT ![c.msg] = @ + 1] /\ phase' = [phase EXCEPT ![w] = "sent"]
    BY <1>5 DEF Accept, rowVars
  <2>2. c.msg \in HeldBy(w) /\ c.msg \in Messages
    BY DEF HeldBy, TypeOK, ClaimedMessage
  <2>3. CASE c.msg = m
    <3>1. m \notin unanswered => ~(sent[m] > 0)
      <4>1. ASSUME NEW v \in Workers, NEW d \in batch[v], d.msg = m, phase[v] = "sent" PROVE FALSE
        BY <4>1, <2>1, <2>2, <2>3, <1>1 DEF Exclusive, OneHolder, HeldBy
      <4>2. status[m] = "PROCESSING"
        BY <2>2, <2>3, <1>1 DEF Exclusive, HolderHasLease
      <4> QED
        BY <4>1, <4>2, <1>1 DEF Exclusive, SendingIsKnown
    <3>2. SendingIsKnown(m)'
      <4>1. c \in batch'[w] /\ Current(w, c)' /\ phase'[w] = "sent"
        BY <2>1 DEF Current, TypeOK
      <4> QED
        BY <4>1, <2>3 DEF SendingIsKnown
    <3>3. m \notin unanswered => sent'[m] <= 1
      BY <2>1, <2>3, <3>1 DEF TypeOK
    <3> QED
      BY <2>1, <3>2, <3>3, <1>1 DEF Exclusive, OneHolder, HolderHasLease, AtMostOnce, HeldBy
  <2>4. CASE c.msg # m
    <3>1. sent'[m] = sent[m]
      BY <2>1, <2>4 DEF TypeOK
    <3>2. SendingIsKnown(m)'
      BY <2>1, <3>1, <1>1 DEF Exclusive, SendingIsKnown, Current, TypeOK
    <3> QED
      BY <2>1, <3>1, <3>2, <1>1 DEF Exclusive, OneHolder, HolderHasLease, AtMostOnce, HeldBy
  <2> QED
    BY <2>3, <2>4
<1>6. ASSUME NEW w \in Workers, NEW c \in batch[w], Reject(w, c) PROVE Exclusive(m)'
  <2>1. /\ UNCHANGED <<status, lease, batch, sent, unanswered>> /\ phase[w] = "sending"
        /\ phase' = [phase EXCEPT ![w] = "failed"]
    BY <1>6 DEF Reject, rowVars
  <2>2. SendingIsKnown(m)'
    BY <2>1, <1>1 DEF Exclusive, SendingIsKnown, Current, TypeOK
  <2> QED
    BY <2>1, <2>2, <1>1 DEF Exclusive, OneHolder, HolderHasLease, AtMostOnce, HeldBy
<1>11. ASSUME NEW w \in Workers, NEW c \in batch[w], LoseAnswer(w, c) PROVE Exclusive(m)'
  <2>1. /\ UNCHANGED <<status, lease, batch>> /\ phase[w] = "sending" /\ c.msg \in Messages
        /\ sent' = [sent EXCEPT ![c.msg] = @ + 1] /\ unanswered' = unanswered \union {c.msg}
        /\ phase' = [phase EXCEPT ![w] = "failed"]
    BY <1>11 DEF LoseAnswer, rowVars, TypeOK, ClaimedMessage
  <2>2. m \in unanswered' \/ (m \notin unanswered /\ sent'[m] = sent[m])
    BY <2>1 DEF TypeOK
  <2>3. SendingIsKnown(m)'
    BY <2>1, <2>2, <1>1 DEF Exclusive, SendingIsKnown, Current, TypeOK
  <2>4. AtMostOnce(m)'
    BY <2>2, <1>1 DEF Exclusive, AtMostOnce
  <2> QED
    BY <2>1, <2>3, <2>4, <1>1 DEF Exclusive, OneHolder, HolderHasLease, HeldBy
<1>7. ASSUME NEW w \in Workers, NEW c \in batch[w], LoseRecord(w, c) PROVE Exclusive(m)'
  <2>1. m # c.msg /\ c.msg \in Messages
    BY <1>7 DEF LoseRecord, TypeOK, ClaimedMessage
  <2>2. /\ status'[m] = status[m] /\ lease'[m] = lease[m] /\ UNCHANGED <<batch, sent>>
        /\ phase' = [phase EXCEPT ![w] = "failed"] /\ Current(w, c) /\ unanswered' = unanswered
    BY <1>7, <2>1 DEF LoseRecord, MarkDelivered, rowVars, TypeOK
  <2>3. \A d \in batch[w] : Current(w, d) => d = c
    BY <2>2, CurrentIsUnique
  <2>4. SendingIsKnown(m)'
    BY <2>1, <2>2, <2>3, <1>1 DEF Exclusive, SendingIsKnown, Current, TypeOK
  <2> QED
    BY <2>2, <2>4, <1>1 DEF Exclusive, OneHolder, HolderHasLease, AtMostOnce, HeldBy
<1>8. ASSUME NEW w \in Workers, NEW c \in batch[w], RecordDelivered(w, c) \/ RecordFailure(w, c)
      PROVE  Exclusive(m)'
  <2>1. /\ Current(w, c) /\ c.msg \in Messages /\ sent' = sent /\ unanswered' = unanswered
        /\ (phase[w] = "sent" /\ status'[c.msg] = "DELIVERED") \/ phase[w] = "failed"
        /\ \A n \in Messages : n # c.msg => status'[n] = status[n] /\ lease'[n] = lease[n]
        /\ Advance(w, c)
    <3>1. c.msg \in Messages
      BY DEF TypeOK, ClaimedMessage
    <3>2. CASE RecordDelivered(w, c)
      BY <3>1, <3>2 DEF RecordDelivered, MarkDelivered, historyVars, TypeOK
    <3>3. CASE RecordFailure(w, c)
      <4>1. \A n \in Messages : n # c.msg => status'[n] = status[n] /\ lease'[n] = lease[n]
        BY <3>1, <3>3 DEF RecordFailure, TypeOK
      <4> QED
        BY <3>1, <3>3, <4>1 DEF RecordFailure, historyVars
    <3> QED
      BY <1>8, <3>2, <3>3
  <2>2. /\ batch'[w] = batch[w] \ {c} /\ phase'[w] \in {"idle", "sending"}
        /\ \A v \in Workers \ {w} : batch'[v] = batch[v] /\ phase'[v] = phase[v]
    BY <2>1 DEF Advance, TypeOK
  <2>3. \A v \in Workers : m \in HeldBy(v)' => m \in HeldBy(v)
    BY <2>2 DEF HeldBy
  <2>4. CASE c.msg = m
    <3>1. m \in HeldBy(w) /\ m \notin HeldBy(w)'
      BY <2>2, <2>4 DEF HeldBy, BatchesAreRuns
    <3>2. \A v \in Workers : m \notin HeldBy(v)'
      BY <2>3, <3>1, <1>1 DEF Exclusive, OneHolder
    <3>3. sent[m] > 0 /\ m \notin unanswered => phase[w] = "sent"
      <4>1. status[m] = "PROCESSING"
        BY <3>1, <1>1 DEF Exclusive, HolderHasLease
      <4>2. ASSUME NEW v \in Workers, NEW d \in batch[v], d.msg = m, phase[v] = "sent"
            PROVE  phase[w] = "sent"
        BY <4>2, <3>1, <1>1 DEF Exclusive, OneHolder, HeldBy
      <4> QED
        BY <4>1, <4>2, <1>1 DEF Exclusive, SendingIsKnown
    <3>4. SendingIsKnown(m)'
      BY <2>1, <2>4, <3>3 DEF SendingIsKnown
    <3> QED
      BY <2>1, <2>3, <3>2, <3>4, <1>1, ExclusiveFrame
  <2>5. CASE c.msg # m
    <3>1. SendingIsKnown(m)'
      <4>1. ASSUME NEW v \in Workers, NEW d \in batch[v], d.msg = m, Current(v, d), phase[v] = "sent"
            PROVE  v # w
        BY <4>1, <2>1, <2>5, CurrentIsUnique
      <4>2. ASSUME NEW v \in Workers \ {w}, NEW d \in batch[v], Current(v, d) PROVE Current(v, d)'
        BY <4>2, <2>2 DEF Current
      <4> QED
        BY <4>1, <4>2, <2>1, <2>2, <2>5, <1>1 DEF Exclusive, SendingIsKnown
    <3> QED
      BY <2>1, <2>3, <2>5, <3>1, <1>1, ExclusiveFrame
  <2> QED
    BY <2>4, <2>5
<1>9. ASSUME NEW w \in Workers, DropBatch(w) \/ Crash(w) PROVE Exclusive(m)'
  <2>1. /\ UNCHANGED <<status, lease, sent, unanswered>>
        /\ batch' = [batch EXCEPT ![w] = {}] /\ phase' = [phase EXCEPT ![w] = "idle"]
        /\ phase[w] = "sent" => \A d \in batch[w] : Current(w, d) => d.msg # m
    BY <1>9 DEF DropBatch, Crash, rowVars, historyVars
  <2>2. \A v \in Workers : m \in HeldBy(v)' => m \in HeldBy(v)
    BY <2>1 DEF HeldBy, TypeOK
  <2>3. SendingIsKnown(m)'
    <3>1. \A v \in Workers \ {w} : batch'[v] = batch[v] /\ phase'[v] = phase[v]
      BY <2>1 DEF TypeOK
    <3>2. ASSUME NEW v \in Workers \ {w}, NEW d \in batch[v], Current(v, d) PROVE Current(v, d)'
      BY <3>1, <3>2 DEF Current
    <3> QED
      BY <2>1, <3>1, <3>2, <1>1 DEF Exclusive, SendingIsKnown
  <2> QED
    BY <2>1, <2>2, <2>3, <1>1, ExclusiveFrame
<1>10. CASE UNCHANGED vars
  BY <1>1, <1>10 DEF vars, rowVars, workerVars, historyVars,
     Exclusive, OneHolder, HolderHasLease, SendingIsKnown, AtMostOnce, HeldBy, Current
<1> QED
  BY <1>2, <1>3, <1>4, <1>5, <1>6, <1>7, <1>8, <1>9, <1>10, <1>11 DEF Next, Process

\* What a message that is not settled owes to its code.
HasItsCode(m) ==
  /\ status[m] \in Settled => ~code[m]
  /\ status[m] \in {"PENDING", "PROCESSING"} /\ m \notin disturbed => code[m]

\* A result recorded without its claim may leave a retry without a code only where the
\* database lost sight of the message.
LEMMA CodeStep ==
  ASSUME OutboxInv, [Next]_vars, NEW m \in Otp
  PROVE  HasItsCode(m)'
<1> USE DEF HasItsCode, Settled
<1>0. m \in Messages /\ HasItsCode(m) /\ TypeOK /\ disturbed \subseteq disturbed'
  <2>1. disturbed \subseteq disturbed'
    BY DEF Next, Process, Enqueue, Ripen, Expire, Claim, Accept, Reject, LoseAnswer, RecordDelivered,
           LoseRecord, RecordFailure, DropBatch, Crash, historyVars, vars
  <2> QED
    BY <2>1, MessagesAssumption DEF OutboxInv, CodeGoesWithTheRetries
<1>1. CASE UNCHANGED <<status, code>>
  BY <1>0, <1>1
<1>2. ASSUME NEW n \in Messages, Enqueue(n) PROVE HasItsCode(m)'
  BY <1>0, <1>2 DEF Enqueue, historyVars, TypeOK
<1>3. ASSUME NEW w \in Workers, Claim(w) PROVE HasItsCode(m)'
  <2>1. \A n \in Oldest(Eligible) : status[n] \in {"PENDING", "PROCESSING"}
    BY OldestIsPart DEF Eligible, Claimable
  <2> QED
    BY <1>0, <1>3, <2>1 DEF Claim, historyVars
<1>4. ASSUME NEW w \in Workers, NEW c \in batch[w],
             RecordDelivered(w, c) \/ RecordFailure(w, c) \/ LoseRecord(w, c)
      PROVE  HasItsCode(m)'
  <2>1. c.msg \in Messages
    BY <1>0 DEF TypeOK, ClaimedMessage
  <2>2. CASE c.msg # m
    <3>1. status'[m] = status[m] /\ code'[m] = code[m]
      BY <1>0, <1>4, <2>1, <2>2 DEF RecordDelivered, RecordFailure, LoseRecord, MarkDelivered,
         rowVars, TypeOK
    <3> QED
      BY <1>0, <3>1
  <2>3. CASE c.msg = m /\ RecordDelivered(w, c)
    BY <1>0, <2>3 DEF RecordDelivered, MarkDelivered, TypeOK
  <2>4. CASE c.msg = m /\ LoseRecord(w, c)
    BY <1>0, <2>4 DEF LoseRecord, MarkDelivered, rowVars, TypeOK
  <2>5. CASE c.msg = m /\ RecordFailure(w, c)
    <3>1. /\ status'[m] = IF IsDeadLetter(c.attempts + 1) THEN "DEAD_LETTER" ELSE "PENDING"
          /\ code'[m] = (code[m] /\ ~Redacts(c.attempts + 1))
          /\ disturbed' = disturbed
      BY <1>0, <2>5 DEF RecordFailure, historyVars, TypeOK
    <3>2. m \notin disturbed => status[m] = "PROCESSING"
      BY <1>0, <2>5 DEF OutboxInv, UndisturbedIsExclusive, HeldBy
    <3> QED
      BY <1>0, <3>1, <3>2, Zenon DEF Redacts
  <2> QED
    BY <1>4, <2>2, <2>3, <2>4, <2>5
<1>5. ASSUME NEW w \in Workers, NEW c \in batch[w],
             Accept(w, c) \/ Reject(w, c) \/ LoseAnswer(w, c)
      PROVE  UNCHANGED <<status, code>>
  BY <1>5 DEF Accept, Reject, LoseAnswer, rowVars
<1> QED
  BY <1>1, <1>2, <1>3, <1>4, <1>5 DEF Next, Process, Ripen, Expire, DropBatch, Crash,
     rowVars, vars

LEMMA InvStep == OutboxInv /\ [Next]_vars => OutboxInv'
<1> SUFFICES ASSUME OutboxInv, [Next]_vars PROVE OutboxInv'
  OBVIOUS
<1>1. TypeOK' /\ BatchesAreRuns'
  BY TypeStep, RunsStep DEF OutboxInv
<1>2. OutcomesAreEarned' /\ CopiesAreHonest'
  BY HonestStep DEF OutboxInv, HonestInv
<1>3. \A m \in Messages \ disturbed' : Exclusive(m)'
  BY ExclusiveStep
<1>4. UndisturbedIsExclusive' /\ OnceUnlessDisturbed'
  <2>1. ((\A m \in Messages \ disturbed : Exclusive(m))
           <=> UndisturbedIsExclusive /\ OnceUnlessDisturbed)'
    BY <1>1, ExclusiveMeans, PTL
  <2> QED
    BY <1>3, <2>1
<1> QED
  <2>1. CodeGoesWithTheRetries'
    BY CodeStep DEF CodeGoesWithTheRetries, HasItsCode
  <2> QED
    BY <1>1, <1>2, <1>4, <2>1 DEF OutboxInv

\* The inductive invariant of the outbox, whatever the number of messages,
\* workers, attempts and faults.
THEOREM OutboxInvariant == Spec => []OutboxInv
<1>1. Init => OutboxInv
  BY InitEstablishesInv
<1>2. OutboxInv /\ [Next]_vars => OutboxInv'
  BY InvStep
<1> QED
  BY <1>1, <1>2, PTL DEF Spec

\* Nothing counts as delivered that was not sent, and nothing is given up
\* before MAX_ATTEMPTS tries have failed.
THEOREM OutcomesEarned == Spec => []OutcomesAreEarned
<1>1. OutboxInv => OutcomesAreEarned
  BY DEF OutboxInv
<1> QED
  BY <1>1, OutboxInvariant, PTL

\* A mail goes out twice only for one of the four causes: an answer lost after the
\* server took it, a lease that ran out, a crash after sending, a lost update.
THEOREM SentOnce == Spec => []OnceUnlessDisturbed
<1>1. OutboxInv => OnceUnlessDisturbed
  BY DEF OutboxInv
<1> QED
  BY <1>1, OutboxInvariant, PTL

\* The code of a message is gone once it is settled, and until then only a message that
\* the database lost sight of can be retried without it (ADR 0003, section 3).
THEOREM CodeIsKept == Spec => []CodeGoesWithTheRetries
<1>1. OutboxInv => CodeGoesWithTheRetries
  BY DEF OutboxInv
<1> QED
  BY <1>1, OutboxInvariant, PTL

\* Without those causes a settled message stays as it is.
THEOREM SettledStays == Spec => SettledIsFinal
<1> DEFINE Final == \A m \in Messages :
      status[m] \in Settled /\ m \notin disturbed' => status'[m] = status[m]
<1>1. OutboxInv /\ [Next]_vars => Final
  <2> SUFFICES ASSUME OutboxInv, [Next]_vars, NEW m \in Messages,
                      status[m] \in Settled, m \notin disturbed'
               PROVE  status'[m] = status[m]
    OBVIOUS
  <2>1. m \notin disturbed
    BY DEF Next, Process, Enqueue, Ripen, Expire, Claim, Accept, Reject, LoseAnswer, RecordDelivered,
           LoseRecord, RecordFailure, DropBatch, Crash, historyVars, vars
  <2>2. \A w \in Workers : m \notin HeldBy(w)
    BY <2>1, ExclusiveMeans DEF OutboxInv, Exclusive, HolderHasLease, Settled
  <2>3. ASSUME NEW w \in Workers, NEW c \in batch[w],
               RecordDelivered(w, c) \/ RecordFailure(w, c) \/ LoseRecord(w, c)
        PROVE  status'[m] = status[m]
    <3>1. c.msg # m /\ c.msg \in Messages
      BY <2>2 DEF HeldBy, OutboxInv, TypeOK, ClaimedMessage
    <3> QED
      BY <2>3, <3>1 DEF RecordDelivered, RecordFailure, LoseRecord, MarkDelivered, rowVars,
         OutboxInv, TypeOK
  <2>4. ASSUME NEW w \in Workers, Claim(w) PROVE status'[m] = status[m]
    <3>1. m \notin Oldest(Eligible)
      BY OldestIsPart DEF Eligible, Claimable, Settled
    <3> QED
      BY <2>4, <3>1 DEF Claim
  <2>5. ASSUME NEW n \in Messages, Enqueue(n) PROVE status'[m] = status[m]
    BY <2>5 DEF Enqueue, Settled, OutboxInv, TypeOK
  <2> QED
    BY <2>3, <2>4, <2>5 DEF Next, Process, Ripen, Expire, Accept, Reject, LoseAnswer, DropBatch, Crash,
       rowVars, vars
<1> QED
  BY <1>1, OutboxInvariant, PTL DEF Spec, SettledIsFinal
============================================================================
