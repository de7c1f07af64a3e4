--------------------------- MODULE IdentityProofs ---------------------------
(***************************************************************************)
(* Proofs about Identity, for every number of requests, codes and          *)
(* sessions and every limit.  An action that only reads (LoadPreserves)    *)
(* has to be right about what it reads; an action that writes must leave   *)
(* right what the other requests have read.                                *)
(***************************************************************************)
EXTENDS Identity, FiniteSetTheorems, TLAPS

LEMMA InitInv == Init => IdentityInv
<1> SUFFICES ASSUME Init PROVE IdentityInv
  OBVIOUS
<1>1. \A r \in Requests : phase[r] = "idle" /\ arg[r] = NoArg
  BY DEF Init
<1>2. NoArg \in Arg
  BY LimitsAssumption DEF NoArg, Arg
<1>3. TypeOK
  BY <1>2, LimitsAssumption DEF Init, TypeOK, Phases
<1>4. Opened = {}
  BY DEF Init, Opened
<1>5. NumbersAreFresh
  BY <1>4 DEF Init, NumbersAreFresh, Sessions
<1>6. ReadingsHold /\ OverlapsAreKnown
  BY <1>1 DEF ReadingsHold, Right, OverlapsAreKnown
<1>7. RedisOnlyAnticipates /\ OneLiveCode /\ OneActivePerFamily
  BY <1>4 DEF Init, RedisOnlyAnticipates, OneLiveCode, LiveCodes, OneActivePerFamily, Active
<1>8. AttemptsAndTrials
  <2> SUFFICES ASSUME NEW c \in Codes
               PROVE  attempts[c] + Cardinality(Trying(c)) <= MaxAttempts + Cardinality(Requests) - 1
    BY DEF AttemptsAndTrials
  <2>1. Trying(c) = {} /\ attempts[c] = 0
    BY <1>1 DEF Trying, Init
  <2>2. Cardinality(Trying(c)) = 0 /\ Cardinality(Requests) \in Nat
    BY <2>1, FS_EmptySet, FS_CardinalityType, LimitsAssumption
  <2> QED
    BY <2>1, <2>2, LimitsAssumption
<1> QED
  BY <1>3, <1>5, <1>6, <1>7, <1>8 DEF IdentityInv
----------------------------------------------------------------------------
(* The limit on attempts *)

\* Attempts that are about to be counted are requests.
LEMMA TryingIsFinite ==
  ASSUME NEW c \in Codes
  PROVE  /\ IsFiniteSet(Trying(c)) /\ Cardinality(Trying(c)) \in Nat
         /\ Cardinality(Requests) \in Nat
         /\ Cardinality(Trying(c)) <= Cardinality(Requests)
<1>1. Trying(c) \subseteq Requests
  BY DEF Trying
<1> QED
  BY <1>1, FS_Subset, FS_CardinalityType, LimitsAssumption

\* No step but a new trial or its counting brings a code nearer to the limit.
LEMMA AttemptsStay ==
  ASSUME IdentityInv, UNCHANGED attempts,
         \A r \in Requests : phase'[r] = "mismatched" =>
           phase[r] = "mismatched" /\ arg'[r] = arg[r]
  PROVE  AttemptsAndTrials'
<1> SUFFICES ASSUME NEW c \in Codes
             PROVE  attempts'[c] + Cardinality(Trying(c)')
                      <= MaxAttempts + Cardinality(Requests) - 1
  BY DEF AttemptsAndTrials
<1>1. Trying(c)' \subseteq Trying(c)
  BY DEF Trying
<1>2. Cardinality(Trying(c)') \in Nat /\ Cardinality(Trying(c)') <= Cardinality(Trying(c))
  BY <1>1, TryingIsFinite, FS_Subset, FS_CardinalityType
<1>3. attempts[c] \in Nat /\ attempts'[c] = attempts[c]
  BY DEF IdentityInv, TypeOK
<1>4. attempts[c] + Cardinality(Trying(c)) <= MaxAttempts + Cardinality(Requests) - 1
  BY DEF IdentityInv, AttemptsAndTrials
<1> QED
  BY <1>2, <1>3, <1>4, TryingIsFinite, LimitsAssumption

\* A trial begins when the code is below the limit, and there are no more
\* trials than requests.
LEMMA TrialBegins ==
  ASSUME IdentityInv, NEW r \in Requests, NEW d \in Codes, UNCHANGED attempts,
         attempts[d] < MaxAttempts,
         Become(r, "mismatched", [NoArg EXCEPT !.code = d])
  PROVE  AttemptsAndTrials'
<1> SUFFICES ASSUME NEW c \in Codes
             PROVE  attempts'[c] + Cardinality(Trying(c)')
                      <= MaxAttempts + Cardinality(Requests) - 1
  BY DEF AttemptsAndTrials
<1>1. \A q \in Requests \ {r} : phase'[q] = phase[q] /\ arg'[q] = arg[q]
  BY DEF Become, IdentityInv, TypeOK
<1>2. arg'[r].code = d
  BY DEF Become, IdentityInv, TypeOK, NoArg
<1>3. attempts[c] \in Nat /\ attempts'[c] = attempts[c]
  BY DEF IdentityInv, TypeOK
<1>4. attempts[c] + Cardinality(Trying(c)) <= MaxAttempts + Cardinality(Requests) - 1
  BY DEF IdentityInv, AttemptsAndTrials
<1>5. Trying(c)' \subseteq Requests
  BY DEF Trying
<1>6. Cardinality(Trying(c)') \in Nat /\ Cardinality(Trying(c)') <= Cardinality(Requests)
  BY <1>5, FS_Subset, FS_CardinalityType, LimitsAssumption
<1>7. CASE c = d
  BY <1>3, <1>6, <1>7, TryingIsFinite, LimitsAssumption
<1>8. CASE c # d
  <2>1. Trying(c)' \subseteq Trying(c)
    BY <1>1, <1>2, <1>8 DEF Trying
  <2>2. Cardinality(Trying(c)') <= Cardinality(Trying(c))
    BY <2>1, TryingIsFinite, FS_Subset
  <2> QED
    BY <1>3, <1>4, <1>6, <2>2, TryingIsFinite, LimitsAssumption
<1> QED
  BY <1>7, <1>8

LEMMA TrialIsCounted ==
  ASSUME IdentityInv, NEW r \in Requests, CountAttempt(r)
  PROVE  AttemptsAndTrials'
<1> SUFFICES ASSUME NEW c \in Codes
             PROVE  attempts'[c] + Cardinality(Trying(c)')
                      <= MaxAttempts + Cardinality(Requests) - 1
  BY DEF AttemptsAndTrials
<1>1. /\ \A q \in Requests \ {r} : phase'[q] = phase[q] /\ arg'[q] = arg[q]
      /\ phase[r] = "mismatched" /\ phase'[r] = "idle"
  BY DEF CountAttempt, End, Become, IdentityInv, TypeOK
<1>2. /\ attempts[c] \in Nat
      /\ attempts'[c] = IF c = arg[r].code THEN attempts[c] + 1 ELSE attempts[c]
  BY DEF CountAttempt, IdentityInv, TypeOK
<1>3. attempts[c] + Cardinality(Trying(c)) <= MaxAttempts + Cardinality(Requests) - 1
  BY DEF IdentityInv, AttemptsAndTrials
<1>4. CASE c = arg[r].code
  <2>1. r \in Trying(c) /\ Trying(c)' = Trying(c) \ {r}
    BY <1>1, <1>4 DEF Trying
  <2>2. Cardinality(Trying(c)') = Cardinality(Trying(c)) - 1
    BY <2>1, TryingIsFinite, FS_RemoveElement
  <2> QED
    BY <1>2, <1>3, <1>4, <2>2, TryingIsFinite, LimitsAssumption
<1>5. CASE c # arg[r].code
  <2>1. Trying(c)' = Trying(c)
    BY <1>1, <1>5 DEF Trying
  <2> QED
    BY <1>2, <1>3, <1>5, <2>1, TryingIsFinite, LimitsAssumption
<1> QED
  BY <1>4, <1>5

----------------------------------------------------------------------------
(* What a request has read *)

LEMMA BecomeMoves ==
  ASSUME TypeOK, NEW r \in Requests, NEW p, NEW a, Become(r, p, a)
  PROVE  /\ phase'[r] = p /\ arg'[r] = a
         /\ \A q \in Requests \ {r} : phase'[q] = phase[q] /\ arg'[q] = arg[q]
BY DEF Become, TypeOK

LEMMA BecomeTyped ==
  ASSUME TypeOK, NEW r \in Requests, NEW p \in Phases, NEW a \in Arg, Become(r, p, a)
  PROVE  phase' \in [Requests -> Phases] /\ arg' \in [Requests -> Arg]
BY DEF Become, TypeOK

\* What the others have read stays right when codes and sessions are only added,
\* nothing is revived, and a new code is that of the request's own transaction.
LEMMA OthersStayRight ==
  ASSUME IdentityInv, NEW r \in Requests, NEW q \in Requests \ {r},
         phase'[q] = phase[q], arg'[q] = arg[q],
         lastCode' \in Nat, lastCode <= lastCode', overlapped \subseteq overlapped',
         \A c \in Codes : codeStatus[c] # "none" => codeStatus'[c] # "none",
         \A c \in Codes : codeStatus[c] = "none" /\ codeStatus'[c] # "none" =>
           phase[r] = "issuing" /\ c = arg[r].code,
         \A c \in Codes : codeStatus'[c] = "live" =>
           codeStatus[c] = "live" \/ (phase[r] = "issuing" /\ c = arg[r].code),
         \A s \in Opened : family'[s] = family[s],
         revoked \subseteq revoked'
  PROVE  Right(phase[q], arg[q])'
<1>1. Right(phase[q], arg[q]) /\ arg[q] \in Arg /\ lastCode \in 0..MaxCodes
  BY DEF IdentityInv, ReadingsHold, TypeOK
<1>2. \A s \in Opened : s \in Opened'
  BY DEF Opened
<1>3. phase[q] \in {"issuing", "exhausted", "mismatched", "matched"} =>
        arg[q].code \in 1..lastCode /\ arg[q].code \in 1..lastCode' /\ arg[q].code \in Codes
  BY <1>1, LimitsAssumption DEF Right, Codes
<1>4. phase[q] = "issuing" =>
        /\ codeStatus'[arg[q].code] = "none"
        /\ \A c \in arg[q].found : codeStatus'[c] # "none"
        /\ \A c \in LiveCodes' \ arg[q].found : {c, arg[q].code} \subseteq overlapped'
  <2> SUFFICES ASSUME phase[q] = "issuing"
               PROVE  /\ codeStatus'[arg[q].code] = "none"
                      /\ \A c \in arg[q].found : codeStatus'[c] # "none"
                      /\ \A c \in LiveCodes' \ arg[q].found : {c, arg[q].code} \subseteq overlapped'
    OBVIOUS
  <2>1. phase[r] = "issuing" =>
          {arg[q].code, arg[r].code} \subseteq overlapped /\ arg[q].code # arg[r].code
    BY DEF IdentityInv, OverlapsAreKnown
  <2>2. /\ codeStatus[arg[q].code] = "none"
        /\ \A c \in arg[q].found : c \in Codes /\ codeStatus[c] # "none"
        /\ \A c \in LiveCodes \ arg[q].found : {c, arg[q].code} \subseteq overlapped
    BY <1>1 DEF Right, Arg
  <2> QED
    BY <1>3, <2>1, <2>2 DEF LiveCodes
<1>5. phase[q] \in {"exhausted", "mismatched", "matched"} => codeStatus'[arg[q].code] # "none"
  BY <1>1, <1>3 DEF Right
<1>6. phase[q] = "reused" =>
        \A s \in arg[q].deny : s \in Opened' /\ family'[s] = family'[arg[q].session]
  BY <1>1, <1>2 DEF Right
<1> QED
  BY <1>1, <1>2, <1>3, <1>4, <1>5, <1>6 DEF Right

\* Transactions still know of each other when the request is not in one.
LEMMA OverlapsStay ==
  ASSUME IdentityInv, NEW r \in Requests, phase'[r] # "issuing",
         \A q \in Requests \ {r} : phase'[q] = phase[q] /\ arg'[q] = arg[q],
         overlapped \subseteq overlapped'
  PROVE  OverlapsAreKnown'
BY DEF IdentityInv, OverlapsAreKnown

\* A request that only reads, or only ends
LEMMA LoadPreserves ==
  ASSUME IdentityInv, NEW r \in Requests, NEW p \in Phases, NEW a \in Arg, Become(r, p, a),
         UNCHANGED <<codeVars, sessionVars, denied>>,
         p # "issuing", Right(p, a), AttemptsAndTrials'
  PROVE  IdentityInv'
<1>1. /\ phase'[r] = p /\ arg'[r] = a
      /\ \A q \in Requests \ {r} : phase'[q] = phase[q] /\ arg'[q] = arg[q]
  BY BecomeMoves DEF IdentityInv
<1>2. UNCHANGED <<codeStatus, attempts, old, lastCode, overlapped,
                  family, revoked, lastSession, overtaken, denied>>
  BY DEF codeVars, sessionVars
<1>3. TypeOK'
  BY <1>2, BecomeTyped DEF IdentityInv, TypeOK
<1>4. NumbersAreFresh' /\ RedisOnlyAnticipates' /\ OneLiveCode' /\ OneActivePerFamily'
  BY <1>2 DEF IdentityInv, NumbersAreFresh, RedisOnlyAnticipates, OneLiveCode, LiveCodes,
              OneActivePerFamily, Active, Opened
<1>5. ReadingsHold'
  <2>1. Right(p, a)'
    BY <1>2 DEF Right, LiveCodes, Opened
  <2>2. ASSUME NEW q \in Requests \ {r} PROVE Right(phase[q], arg[q])'
    <3>1. lastCode \in Nat
      BY LimitsAssumption DEF IdentityInv, TypeOK
    <3> QED
      BY <1>1, <1>2, <3>1, OthersStayRight
  <2> QED
    BY <1>1, <2>1, <2>2 DEF ReadingsHold, Right
<1>6. OverlapsAreKnown'
  BY <1>1, <1>2, OverlapsStay
<1> QED
  BY <1>3, <1>4, <1>5, <1>6 DEF IdentityInv

LEMMA IdleIsRight == \A a : Right("idle", a)
BY DEF Right

LEMMA ArgShape ==
  ASSUME TypeOK, NEW r \in Requests
  PROVE  /\ NoArg \in Arg
         /\ arg[r].code \in 0..MaxCodes /\ arg[r].found \subseteq Codes
         /\ arg[r].session \in 0..MaxSessions /\ arg[r].deny \subseteq Sessions
         /\ "idle" \in Phases /\ "revoked" \in Phases
         /\ \A ids \in SUBSET Sessions : [NoArg EXCEPT !.deny = ids] \in Arg
<1>1. arg[r] \in Arg
  BY DEF TypeOK
<1>2. NoArg \in Arg
  BY LimitsAssumption DEF Arg, NoArg
<1>3. \A ids \in SUBSET Sessions : [NoArg EXCEPT !.deny = ids] \in Arg
  BY <1>2 DEF Arg, NoArg
<1> QED
  BY <1>1, <1>2, <1>3 DEF Arg, Phases

LEMMA LoadsPreserve ==
  ASSUME IdentityInv, NEW r \in Requests,
         \/ CountRecent(r) \/ LoadLogoutAll(r) \/ Fail(r)
         \/ \E c \in Codes : LoadCode(r, c)
         \/ \E s \in Sessions : LoadRefresh(r, s) \/ LoadReuse(r, s) \/ LoadLogout(r, s)
  PROVE  IdentityInv'
<1>1. NoArg \in Arg /\ TypeOK
  BY ArgShape DEF IdentityInv
<1>2. ASSUME NEW p, NEW a, Become(r, p, a), p # "mismatched", UNCHANGED <<codeVars, sessionVars, denied>>
      PROVE  AttemptsAndTrials'
  <2>1. UNCHANGED attempts
    BY <1>2 DEF codeVars
  <2> QED
    BY <1>1, <1>2, <2>1, BecomeMoves, AttemptsStay
<1>3. CASE CountRecent(r)
  BY <1>1, <1>2, <1>3, LoadPreserves DEF CountRecent, Phases, Right
<1>4. CASE LoadLogoutAll(r)
  <2>1. [NoArg EXCEPT !.deny = Active] \in Arg
    BY <1>1, ArgShape DEF Active, Opened
  <2>2. Right("leavingAll", [NoArg EXCEPT !.deny = Active])
    BY DEF Right, Active, NoArg
  <2> QED
    BY <1>2, <1>4, <2>1, <2>2, LoadPreserves DEF LoadLogoutAll, Phases
<1>5. CASE Fail(r)
  BY <1>1, <1>2, <1>5, LoadPreserves, IdleIsRight DEF Fail, End, Phases
<1>6. ASSUME NEW c \in Codes, LoadCode(r, c) PROVE IdentityInv'
  <2> DEFINE a == [NoArg EXCEPT !.code = c]
  <2>1. PICK p \in {"exhausted", "mismatched", "matched"} :
          Become(r, p, a) /\ (p # "exhausted" => ~ Exhausted(c))
    BY <1>6 DEF LoadCode
  <2>2. a \in Arg /\ a.code = c
    <3>1. c \in 0..MaxCodes
      BY LimitsAssumption DEF Codes
    <3> QED
      BY <1>1, <3>1 DEF Arg, NoArg
  <2>3. codeStatus[c] = "live" /\ UNCHANGED <<codeVars, sessionVars, denied>>
    BY <1>6 DEF LoadCode, Latest, LiveCodes
  <2>4. c \in 1..lastCode
    <3>1. ~ (c > lastCode)
      BY <2>3 DEF IdentityInv, NumbersAreFresh
    <3> QED
      BY <1>1, <3>1, LimitsAssumption DEF TypeOK, Codes
  <2>5. Right(p, a)
    BY <2>2, <2>3, <2>4 DEF Right
  <2>6. AttemptsAndTrials'
    <3>1. UNCHANGED attempts
      BY <2>3 DEF codeVars
    <3>2. CASE p = "mismatched"
      <4>1. attempts[c] < MaxAttempts
        BY <1>1, <2>1, <3>2, LimitsAssumption DEF Exhausted, TypeOK
      <4> QED
        BY <2>1, <3>1, <3>2, <4>1, TrialBegins
    <3> QED
      BY <1>2, <2>1, <2>3, <3>2
  <2> QED
    BY <2>1, <2>2, <2>3, <2>5, <2>6, LoadPreserves DEF Phases
<1>7. ASSUME NEW s \in Sessions, LoadRefresh(r, s) PROVE IdentityInv'
  <2> DEFINE a == [NoArg EXCEPT !.session = s, !.active = TRUE]
  <2>1. a \in Arg /\ a.session = s /\ a.active
    <3>1. s \in 0..MaxSessions
      BY LimitsAssumption DEF Sessions
    <3> QED
      BY <1>1, <3>1 DEF Arg, NoArg
  <2>2. s \in Active /\ (s \in Active) = TRUE /\ s \in Opened
    BY <1>7 DEF LoadRefresh, CanRotate, Active
  <2>3. Become(r, "rotating", a)
    BY <1>7, <2>2 DEF LoadRefresh
  <2>4. Right("rotating", a)
    BY <2>1, <2>2 DEF Right
  <2> QED
    BY <1>2, <1>7, <2>1, <2>3, <2>4, LoadPreserves DEF LoadRefresh, Phases
<1>8. ASSUME NEW s \in Sessions, LoadReuse(r, s) PROVE IdentityInv'
  <2> DEFINE ids == {t \in Opened : family[t] = family[s]}
             a == [NoArg EXCEPT !.session = s, !.deny = ids]
  <2>1. a \in Arg /\ a.session = s /\ a.deny = ids
    <3>1. s \in 0..MaxSessions
      BY LimitsAssumption DEF Sessions
    <3> QED
      BY <1>1, <3>1 DEF Arg, NoArg, Opened
  <2>2. Right("reused", a)
    BY <1>8, <2>1 DEF LoadReuse, Right
  <2> QED
    BY <1>2, <1>8, <2>1, <2>2, LoadPreserves DEF LoadReuse, Phases
<1>9. ASSUME NEW s \in Sessions, LoadLogout(r, s) PROVE IdentityInv'
  <2> DEFINE a == [NoArg EXCEPT !.session = s, !.deny = {s}]
  <2>1. a \in Arg /\ a.session = s /\ a.deny = {s}
    <3>1. s \in 0..MaxSessions
      BY LimitsAssumption DEF Sessions
    <3> QED
      BY <1>1, <3>1 DEF Arg, NoArg
  <2>2. Right("leaving", a)
    BY <1>9, <2>1 DEF LoadLogout, Right
  <2> QED
    BY <1>2, <1>9, <2>1, <2>2, LoadPreserves DEF LoadLogout, Phases
<1> QED
  BY <1>3, <1>4, <1>5, <1>6, <1>7, <1>8, <1>9

----------------------------------------------------------------------------
(* Codes *)

LEMMA BeginCodePreserves ==
  ASSUME IdentityInv, NEW r \in Requests, BeginCode(r)
  PROVE  IdentityInv'
<1> DEFINE a == [NoArg EXCEPT !.code = lastCode + 1, !.found = LiveCodes]
<1>1. /\ TypeOK /\ lastCode \in Nat /\ lastCode' = lastCode + 1 /\ lastCode + 1 \in Codes
      /\ phase[r] = "counted" /\ Become(r, "issuing", a)
  BY LimitsAssumption DEF BeginCode, ToConsume, IdentityInv, TypeOK, Codes
<1>2. UNCHANGED <<codeStatus, attempts, old, family, revoked, lastSession, overtaken, denied>>
  BY DEF BeginCode, sessionVars
<1>3. /\ a \in Arg /\ a.code = lastCode + 1 /\ a.found = LiveCodes
  <2>1. lastCode + 1 \in 0..MaxCodes /\ LiveCodes \subseteq Codes
    BY <1>1, LimitsAssumption DEF Codes, LiveCodes
  <2> QED
    BY <1>1, <2>1, ArgShape DEF Arg, NoArg
<1>4. /\ phase'[r] = "issuing" /\ arg'[r] = a
      /\ \A q \in Requests \ {r} : phase'[q] = phase[q] /\ arg'[q] = arg[q]
  BY <1>1, BecomeMoves
<1>5. /\ overlapped \subseteq overlapped'
      /\ \A q \in Requests \ {r} : phase[q] = "issuing" =>
           {arg[q].code, lastCode + 1} \subseteq overlapped'
  BY DEF BeginCode
<1>6. \A q \in Requests : phase[q] = "issuing" => arg[q].code \in 1..lastCode
  BY DEF IdentityInv, ReadingsHold, Right
<1>7. TypeOK'
  <2>1. overlapped' \subseteq Codes
    <3>1. \A q \in Requests : phase[q] = "issuing" => arg[q].code \in Codes
      BY <1>1, <1>6, LimitsAssumption DEF Codes, TypeOK
    <3> QED
      BY <1>1, <3>1 DEF BeginCode, TypeOK
  <2>2. phase' \in [Requests -> Phases] /\ arg' \in [Requests -> Arg]
    BY <1>1, <1>3, BecomeTyped DEF Phases
  <2>3. lastCode' \in 0..MaxCodes
    BY <1>1, LimitsAssumption DEF Codes
  <2> QED
    BY <1>1, <1>2, <2>1, <2>2, <2>3 DEF TypeOK
<1>8. NumbersAreFresh'
  BY <1>1, <1>2, LimitsAssumption DEF IdentityInv, NumbersAreFresh, Opened, Codes
<1>9. ReadingsHold'
  <2>1. Right(phase[r], arg[r])'
    <3>1. codeStatus[lastCode + 1] = "none"
      BY <1>1 DEF IdentityInv, NumbersAreFresh
    <3> QED
      BY <1>1, <1>2, <1>3, <1>4, <3>1 DEF Right, LiveCodes, Opened
  <2>2. ASSUME NEW q \in Requests \ {r} PROVE Right(phase[q], arg[q])'
    BY <1>1, <1>2, <1>4, <1>5, OthersStayRight
  <2> QED
    BY <1>4, <2>1, <2>2 DEF ReadingsHold
<1>10. OverlapsAreKnown'
  <2>1. ASSUME NEW q \in Requests \ {r}, phase[q] = "issuing"
        PROVE  {arg[q].code, lastCode + 1} \subseteq overlapped' /\ arg[q].code # lastCode + 1
    BY <1>1, <1>5, <1>6, <2>1
  <2>2. ASSUME NEW p \in Requests \ {r}, NEW q \in Requests \ {r}, p # q,
               phase[p] = "issuing", phase[q] = "issuing"
        PROVE  {arg[q].code, arg[p].code} \subseteq overlapped' /\ arg[q].code # arg[p].code
    BY <1>5, <2>2 DEF IdentityInv, OverlapsAreKnown
  <2> SUFFICES ASSUME NEW p \in Requests, NEW q \in Requests, p # q,
                      phase'[p] = "issuing", phase'[q] = "issuing"
               PROVE  {arg'[q].code, arg'[p].code} \subseteq overlapped' /\ arg'[q].code # arg'[p].code
    BY DEF OverlapsAreKnown
  <2>6. arg'[r].code = lastCode + 1
    BY <1>3, <1>4
  <2>3. CASE p = r
    <3>1. q \in Requests \ {r} /\ phase[q] = "issuing" /\ arg'[q].code = arg[q].code
      BY <1>4, <2>3
    <3> QED
      BY <2>1, <2>3, <2>6, <3>1
  <2>4. CASE q = r
    <3>1. p \in Requests \ {r} /\ phase[p] = "issuing" /\ arg'[p].code = arg[p].code
      BY <1>4, <2>4
    <3> QED
      BY <2>1, <2>4, <2>6, <3>1
  <2>5. CASE p # r /\ q # r
    BY <1>4, <2>2, <2>5
  <2> QED
    BY <2>3, <2>4, <2>5
<1>11. OneLiveCode'
  BY <1>2, <1>5 DEF IdentityInv, OneLiveCode, LiveCodes
<1>12. RedisOnlyAnticipates' /\ OneActivePerFamily'
  BY <1>2 DEF IdentityInv, RedisOnlyAnticipates, OneActivePerFamily, Active, Opened
<1>13. AttemptsAndTrials'
  BY <1>2, <1>4, AttemptsStay
<1> QED
  BY <1>7, <1>8, <1>9, <1>10, <1>11, <1>12, <1>13 DEF IdentityInv

LEMMA CommitCodePreserves ==
  ASSUME IdentityInv, NEW r \in Requests, CommitCode(r)
  PROVE  IdentityInv'
<1>1. TypeOK /\ phase[r] = "issuing" /\ Right("issuing", arg[r]) /\ NoArg \in Arg
  BY ArgShape DEF CommitCode, IdentityInv, ReadingsHold
<1>2. UNCHANGED <<attempts, old, lastCode, overlapped,
                  family, revoked, lastSession, overtaken, denied>>
  BY DEF CommitCode, sessionVars
<1>3. \A c \in Codes : codeStatus'[c] = IF c = arg[r].code THEN "live"
                                        ELSE IF c \in arg[r].found THEN "consumed"
                                        ELSE codeStatus[c]
  BY DEF CommitCode
<1>4. /\ phase'[r] = "idle" /\ arg'[r] = NoArg
      /\ \A q \in Requests \ {r} : phase'[q] = phase[q] /\ arg'[q] = arg[q]
  BY <1>1, BecomeMoves DEF CommitCode, End
<1>5. arg[r].code \in 1..lastCode /\ lastCode \in 0..MaxCodes /\ lastCode \in Nat
  BY <1>1, LimitsAssumption DEF Right, TypeOK
<1>6. TypeOK'
  <2>1. phase' \in [Requests -> Phases] /\ arg' \in [Requests -> Arg]
    BY <1>1, BecomeTyped DEF CommitCode, End, Phases
  <2>2. codeStatus' \in [Codes -> {"none", "live", "consumed"}]
    BY <1>1 DEF CommitCode, TypeOK
  <2> QED
    BY <1>1, <1>2, <2>1, <2>2 DEF TypeOK
<1>7. OneLiveCode'
  <2> SUFFICES ASSUME NEW c \in LiveCodes', NEW d \in LiveCodes', c # d
               PROVE  {c, d} \subseteq overlapped
    BY <1>2 DEF OneLiveCode
  <2>1. ASSUME NEW e \in LiveCodes', e # arg[r].code
        PROVE  e \in LiveCodes \ arg[r].found
    BY <1>3, <2>1 DEF LiveCodes
  <2> QED
    BY <1>1, <2>1 DEF Right, IdentityInv, OneLiveCode
<1>8. ReadingsHold'
  <2>1. ASSUME NEW q \in Requests \ {r} PROVE Right(phase[q], arg[q])'
    <3>1. \A c \in arg[r].found : codeStatus[c] # "none"
      BY <1>1 DEF Right
    <3>2. \A c \in Codes : codeStatus[c] # "none" => codeStatus'[c] # "none"
      BY <1>3
    <3>3. \A c \in Codes : codeStatus[c] = "none" /\ codeStatus'[c] # "none" => c = arg[r].code
      BY <1>3, <3>1
    <3>4. \A c \in Codes : codeStatus'[c] = "live" => codeStatus[c] = "live" \/ c = arg[r].code
      BY <1>3
    <3> QED
      BY <1>1, <1>2, <1>4, <1>5, <3>2, <3>3, <3>4, OthersStayRight
  <2> QED
    BY <1>4, <2>1, IdleIsRight DEF ReadingsHold, Right
<1>9. OverlapsAreKnown'
  BY <1>2, <1>4, OverlapsStay
<1>10. NumbersAreFresh'
  <2>1. \A c \in arg[r].found : codeStatus[c] # "none"
    BY <1>1 DEF Right
  <2> QED
    BY <1>2, <1>3, <1>5, <2>1 DEF IdentityInv, NumbersAreFresh, Opened, Codes
<1>11. RedisOnlyAnticipates' /\ OneActivePerFamily'
  BY <1>2 DEF IdentityInv, RedisOnlyAnticipates, OneActivePerFamily, Active, Opened
<1>12. AttemptsAndTrials'
  BY <1>2, <1>4, AttemptsStay
<1> QED
  BY <1>6, <1>7, <1>8, <1>9, <1>10, <1>11, <1>12 DEF IdentityInv

LEMMA ExhaustPreserves ==
  ASSUME IdentityInv, NEW r \in Requests, Exhaust(r)
  PROVE  IdentityInv'
<1>1. /\ TypeOK /\ NoArg \in Arg /\ phase[r] # "issuing" /\ lastCode \in Nat
      /\ codeStatus[arg[r].code] # "none"
  BY ArgShape, LimitsAssumption DEF Exhaust, IdentityInv, ReadingsHold, Right, TypeOK
<1>2. UNCHANGED <<attempts, old, lastCode, overlapped,
                  family, revoked, lastSession, overtaken, denied>>
  BY DEF Exhaust, sessionVars
<1>3. \A c \in Codes : codeStatus'[c] = IF c = arg[r].code THEN "consumed" ELSE codeStatus[c]
  BY <1>1 DEF Exhaust, Consume, TypeOK
<1>4. /\ phase'[r] = "idle" /\ arg'[r] = NoArg
      /\ \A q \in Requests \ {r} : phase'[q] = phase[q] /\ arg'[q] = arg[q]
  BY <1>1, BecomeMoves DEF Exhaust, End
<1>5. TypeOK'
  <2>1. phase' \in [Requests -> Phases] /\ arg' \in [Requests -> Arg]
    BY <1>1, BecomeTyped DEF Exhaust, End, Phases
  <2>2. codeStatus' \in [Codes -> {"none", "live", "consumed"}]
    BY <1>1 DEF Exhaust, Consume, TypeOK
  <2> QED
    BY <1>1, <1>2, <2>1, <2>2 DEF TypeOK
<1>6. ReadingsHold'
  <2>1. ASSUME NEW q \in Requests \ {r} PROVE Right(phase[q], arg[q])'
    BY <1>1, <1>2, <1>3, <1>4, OthersStayRight
  <2> QED
    BY <1>4, <2>1, IdleIsRight DEF ReadingsHold, Right
<1>7. OverlapsAreKnown' /\ AttemptsAndTrials'
  BY <1>2, <1>4, OverlapsStay, AttemptsStay
<1>8. OneLiveCode'
  BY <1>2, <1>3 DEF IdentityInv, OneLiveCode, LiveCodes
<1>9. NumbersAreFresh'
  BY <1>1, <1>2, <1>3 DEF IdentityInv, NumbersAreFresh, Opened
<1>10. RedisOnlyAnticipates' /\ OneActivePerFamily'
  BY <1>2 DEF IdentityInv, RedisOnlyAnticipates, OneActivePerFamily, Active, Opened
<1> QED
  BY <1>5, <1>6, <1>7, <1>8, <1>9, <1>10 DEF IdentityInv

LEMMA CountAttemptPreserves ==
  ASSUME IdentityInv, NEW r \in Requests, CountAttempt(r)
  PROVE  IdentityInv'
<1>1. TypeOK /\ NoArg \in Arg /\ lastCode \in Nat
  BY ArgShape, LimitsAssumption DEF IdentityInv, TypeOK
<1>2. UNCHANGED <<codeStatus, old, lastCode, overlapped,
                  family, revoked, lastSession, overtaken, denied>>
  BY DEF CountAttempt, sessionVars
<1>3. /\ phase'[r] = "idle" /\ arg'[r] = NoArg
      /\ \A q \in Requests \ {r} : phase'[q] = phase[q] /\ arg'[q] = arg[q]
  BY <1>1, BecomeMoves DEF CountAttempt, End
<1>4. TypeOK'
  <2>1. phase' \in [Requests -> Phases] /\ arg' \in [Requests -> Arg]
    BY <1>1, BecomeTyped DEF CountAttempt, End, Phases
  <2>2. attempts' \in [Codes -> Nat]
    <3>1. arg[r].code \in Codes
      BY <1>1, LimitsAssumption DEF CountAttempt, IdentityInv, ReadingsHold, Right, TypeOK, Codes
    <3>2. attempts[arg[r].code] + 1 \in Nat
      BY <1>1, <3>1 DEF TypeOK
    <3> QED
      BY <1>1, <3>2 DEF CountAttempt, TypeOK
  <2> QED
    BY <1>1, <1>2, <2>1, <2>2 DEF TypeOK
<1>5. ReadingsHold'
  <2>1. ASSUME NEW q \in Requests \ {r} PROVE Right(phase[q], arg[q])'
    BY <1>1, <1>2, <1>3, OthersStayRight
  <2> QED
    BY <1>3, <2>1, IdleIsRight DEF ReadingsHold, Right
<1>6. OverlapsAreKnown' /\ AttemptsAndTrials'
  BY <1>2, <1>3, OverlapsStay, TrialIsCounted
<1>7. /\ OneLiveCode' /\ NumbersAreFresh' /\ RedisOnlyAnticipates' /\ OneActivePerFamily'
  BY <1>2 DEF IdentityInv, OneLiveCode, LiveCodes, NumbersAreFresh, RedisOnlyAnticipates,
              OneActivePerFamily, Active, Opened
<1> QED
  BY <1>4, <1>5, <1>6, <1>7 DEF IdentityInv

----------------------------------------------------------------------------
(* Sessions *)

\* The session that is opened is new, and in a family that was there or is its own.
LEMMA OpenSessionAdds ==
  ASSUME IdentityInv, NEW f \in Opened \union {0}, OpenSession(f)
  PROVE  LET n == lastSession + 1 IN
         /\ n \in Sessions /\ n \notin Opened /\ lastSession' = n
         /\ family' \in [Sessions -> 0..MaxSessions] /\ lastSession' \in 0..MaxSessions
         /\ Opened' = Opened \union {n}
         /\ family'[n] = IF f = 0 THEN n ELSE f
         /\ \A s \in Sessions \ {n} : family'[s] = family[s]
<1> DEFINE n == lastSession + 1
<1>1. /\ lastSession \in 0..MaxSessions /\ n \in Sessions /\ lastSession' = n /\ n # 0
      /\ n \in 0..MaxSessions /\ family \in [Sessions -> 0..MaxSessions]
  BY LimitsAssumption DEF IdentityInv, TypeOK, OpenSession, Sessions
<1>2. n \notin Opened
  BY <1>1, LimitsAssumption DEF IdentityInv, NumbersAreFresh
<1>3. f \in 0..MaxSessions
  BY LimitsAssumption DEF Opened, Sessions
<1>4. family' = [family EXCEPT ![n] = IF f = 0 THEN n ELSE f]
  BY DEF OpenSession
<1> HIDE DEF n
<1>5. /\ family' \in [Sessions -> 0..MaxSessions]
      /\ family'[n] = IF f = 0 THEN n ELSE f
      /\ \A s \in Sessions \ {n} : family'[s] = family[s]
  BY <1>1, <1>3, <1>4
<1>6. Opened' = Opened \union {n}
  BY <1>1, <1>5 DEF Opened
<1> QED
  BY <1>1, <1>2, <1>5, <1>6 DEF n

LEMMA OpenSessionKeeps ==
  ASSUME IdentityInv, NEW f \in Opened \union {0}, OpenSession(f)
  PROVE  /\ \A s \in Opened : family'[s] = family[s]
         /\ Opened' = Opened \union {lastSession + 1}
         /\ lastSession + 1 \notin Opened
         /\ family'[lastSession + 1] = IF f = 0 THEN lastSession + 1 ELSE f
<1>1. /\ lastSession + 1 \notin Opened
      /\ \A s \in Sessions \ {lastSession + 1} : family'[s] = family[s]
  BY OpenSessionAdds
<1>2. \A s \in Opened : family'[s] = family[s]
  BY <1>1 DEF Opened
<1> QED
  BY <1>2, OpenSessionAdds

LEMMA SessionNumbersStay ==
  ASSUME IdentityInv, NEW n, n = lastSession + 1,
         n \in Sessions, n \notin Opened, lastSession' = n,
         Opened' = Opened \union {n},
         family'[n] \in Opened \union {n},
         \A t \in Sessions \ {n} : family'[t] = family[t],
         revoked' \subseteq Opened,
         lastCode' = lastCode,
         \A c \in Codes : codeStatus[c] = "none" => codeStatus'[c] = "none"
  PROVE  NumbersAreFresh'
<1>1. lastSession \in 0..MaxSessions /\ Sessions = 1..MaxSessions
  BY DEF IdentityInv, TypeOK, Sessions
<1>2. \A s \in Sessions : s \in Opened' <=> s <= lastSession'
  BY <1>1, LimitsAssumption DEF IdentityInv, NumbersAreFresh
<1>3. \A s \in Opened' : family'[s] \in Opened'
  BY DEF IdentityInv, NumbersAreFresh, Opened
<1> QED
  BY <1>2, <1>3 DEF IdentityInv, NumbersAreFresh

\* A request that writes sessions and no codes
LEMMA SessionsPreserve ==
  ASSUME IdentityInv, NEW r \in Requests, NEW a \in Arg, Become(r, "revoked", a),
         UNCHANGED <<codeVars, denied>>,
         family' \in [Sessions -> 0..MaxSessions], lastSession' \in 0..MaxSessions,
         overtaken' \subseteq Sessions,
         \A s \in Opened : family'[s] = family[s],
         revoked \subseteq revoked', a.deny \subseteq revoked',
         NumbersAreFresh', OneActivePerFamily'
  PROVE  IdentityInv'
<1>1. /\ phase'[r] = "revoked" /\ arg'[r] = a
      /\ \A q \in Requests \ {r} : phase'[q] = phase[q] /\ arg'[q] = arg[q]
  BY BecomeMoves DEF IdentityInv
<1>2. UNCHANGED <<codeStatus, attempts, old, lastCode, overlapped, denied>>
  BY DEF codeVars
<1>3. TypeOK'
  <2>1. phase' \in [Requests -> Phases] /\ arg' \in [Requests -> Arg]
    BY BecomeTyped DEF IdentityInv, Phases
  <2>2. revoked' \subseteq Sessions
    BY DEF NumbersAreFresh, Opened
  <2> QED
    BY <1>2, <2>1, <2>2 DEF IdentityInv, TypeOK
<1>4. RedisOnlyAnticipates' /\ OneLiveCode'
  BY <1>2 DEF IdentityInv, RedisOnlyAnticipates, OneLiveCode, LiveCodes
<1>5. ReadingsHold'
  <2>1. lastCode \in Nat
    BY LimitsAssumption DEF IdentityInv, TypeOK
  <2>2. ASSUME NEW q \in Requests \ {r} PROVE Right(phase[q], arg[q])'
    BY <1>1, <1>2, <2>1, OthersStayRight
  <2> QED
    BY <1>1, <2>2 DEF ReadingsHold, Right
<1>6. OverlapsAreKnown' /\ AttemptsAndTrials'
  BY <1>1, <1>2, OverlapsStay, AttemptsStay
<1> QED
  BY <1>3, <1>4, <1>5, <1>6 DEF IdentityInv

LEMMA RotatePreserves ==
  ASSUME IdentityInv, NEW r \in Requests, Rotate(r)
  PROVE  IdentityInv'
<1> DEFINE s == arg[r].session
           f == family[s]
           n == lastSession + 1
           a == [NoArg EXCEPT !.deny = {s}]
<1>1. TypeOK /\ phase[r] = "rotating" /\ s \in Opened /\ arg[r].active
  BY DEF Rotate, IdentityInv, ReadingsHold, Right
<1>2. /\ f \in Opened /\ f # 0 /\ f \in Sessions /\ s \in Sessions
      /\ revoked \subseteq Opened
  BY <1>1, LimitsAssumption DEF IdentityInv, NumbersAreFresh, Opened, Sessions
<1>3. /\ OpenSession(f) /\ Become(r, "revoked", a) /\ revoked' = revoked \union {s}
      /\ overtaken' = (IF s \in revoked THEN overtaken \union {f} ELSE overtaken)
      /\ UNCHANGED <<codeVars, denied>>
  BY <1>1 DEF Rotate, ToDeny
<1>4. a \in Arg /\ a.deny = {s}
  BY <1>1, <1>2, ArgShape DEF NoArg
<1> HIDE DEF a
<1>5. /\ n \in Sessions /\ n \notin Opened /\ lastSession' = n
      /\ family' \in [Sessions -> 0..MaxSessions] /\ lastSession' \in 0..MaxSessions
      /\ Opened' = Opened \union {n}
      /\ family'[n] = f
      /\ \A t \in Sessions \ {n} : family'[t] = family[t]
  BY <1>2, <1>3, OpenSessionAdds
<1>6. \A t \in Opened : t \in Sessions \ {n} /\ family'[t] = family[t]
  BY <1>5 DEF Opened
<1>7. NumbersAreFresh'
  <2>1. revoked' \subseteq Opened /\ family'[n] \in Opened \union {n}
    BY <1>1, <1>2, <1>3, <1>5
  <2>2. lastCode' = lastCode /\ codeStatus' = codeStatus
    BY <1>3 DEF codeVars
  <2> QED
    BY <1>5, <2>1, <2>2, SessionNumbersStay
<1>8. OneActivePerFamily'
  <2>1. Active' = (Active \ {s}) \union {n}
    BY <1>1, <1>2, <1>3, <1>5 DEF Active
  <2>2. overtaken \subseteq overtaken'
    BY <1>3
  <2>3. ASSUME NEW t \in Active \ {s}, family[t] = f PROVE f \in overtaken'
    <3>1. CASE s \in revoked
      BY <1>3, <3>1
    <3>2. CASE s \notin revoked
      BY <1>1, <2>2, <2>3, <3>2 DEF IdentityInv, OneActivePerFamily, Active
    <3> QED
      BY <3>1, <3>2
  <2>4. \A t \in Active \ {s} : family'[t] = family[t]
    BY <1>6 DEF Active
  <2> SUFFICES ASSUME NEW t \in Active', NEW u \in Active', t # u, family'[t] = family'[u]
               PROVE  family'[t] \in overtaken'
    BY DEF OneActivePerFamily
  <2>5. CASE t = n
    BY <1>5, <2>1, <2>3, <2>4, <2>5
  <2>6. CASE u = n
    BY <1>5, <2>1, <2>3, <2>4, <2>6
  <2>7. CASE t # n /\ u # n
    BY <2>1, <2>2, <2>4, <2>7 DEF IdentityInv, OneActivePerFamily
  <2> QED
    BY <2>5, <2>6, <2>7
<1>9. overtaken' \subseteq Sessions
  BY <1>1, <1>2, <1>3 DEF TypeOK
<1>10. revoked \subseteq revoked' /\ a.deny \subseteq revoked'
  BY <1>3, <1>4
<1> HIDE DEF s, f, n
<1> QED
  BY <1>3, <1>4, <1>5, <1>6, <1>7, <1>8, <1>9, <1>10, SessionsPreserve

LEMMA EnterPreserves ==
  ASSUME IdentityInv, NEW r \in Requests, Enter(r)
  PROVE  IdentityInv'
<1> DEFINE n == lastSession + 1
<1>1. /\ TypeOK /\ NoArg \in Arg /\ phase[r] # "issuing" /\ lastCode \in Nat
      /\ codeStatus[arg[r].code] # "none"
  BY ArgShape, LimitsAssumption DEF Enter, IdentityInv, ReadingsHold, Right, TypeOK
<1>2. UNCHANGED <<attempts, old, lastCode, overlapped, revoked, overtaken, denied>>
  BY DEF Enter
<1>3. \A c \in Codes : codeStatus'[c] = IF c = arg[r].code THEN "consumed" ELSE codeStatus[c]
  BY <1>1 DEF Enter, Consume, TypeOK
<1>4. /\ phase'[r] = "idle" /\ arg'[r] = NoArg
      /\ \A q \in Requests \ {r} : phase'[q] = phase[q] /\ arg'[q] = arg[q]
  BY <1>1, BecomeMoves DEF Enter, End
<1>5. /\ n \in Sessions /\ n \notin Opened /\ lastSession' = n
      /\ family' \in [Sessions -> 0..MaxSessions] /\ lastSession' \in 0..MaxSessions
      /\ Opened' = Opened \union {n}
      /\ family'[n] = n
      /\ \A t \in Sessions \ {n} : family'[t] = family[t]
  BY OpenSessionAdds DEF Enter
<1>6. \A t \in Opened : t \in Sessions \ {n} /\ family'[t] = family[t]
  BY <1>5 DEF Opened
<1>7. TypeOK'
  <2>1. phase' \in [Requests -> Phases] /\ arg' \in [Requests -> Arg]
    BY <1>1, BecomeTyped DEF Enter, End, Phases
  <2>2. codeStatus' \in [Codes -> {"none", "live", "consumed"}]
    BY <1>1 DEF Enter, Consume, TypeOK
  <2> QED
    BY <1>1, <1>2, <1>5, <2>1, <2>2 DEF TypeOK
<1>8. ReadingsHold'
  <2>1. ASSUME NEW q \in Requests \ {r} PROVE Right(phase[q], arg[q])'
    BY <1>1, <1>2, <1>3, <1>4, <1>6, OthersStayRight
  <2> QED
    BY <1>4, <2>1, IdleIsRight DEF ReadingsHold, Right
<1>9. OverlapsAreKnown' /\ AttemptsAndTrials'
  BY <1>2, <1>4, OverlapsStay, AttemptsStay
<1>10. OneLiveCode' /\ RedisOnlyAnticipates'
  BY <1>2, <1>3 DEF IdentityInv, OneLiveCode, LiveCodes, RedisOnlyAnticipates
<1>11. NumbersAreFresh'
  <2>1. revoked \subseteq Opened
    BY DEF IdentityInv, NumbersAreFresh
  <2>2. \A c \in Codes : codeStatus[c] = "none" => codeStatus'[c] = "none"
    BY <1>1, <1>3
  <2>3. family'[n] \in Opened \union {n} /\ revoked' \subseteq Opened /\ lastCode' = lastCode
    BY <1>2, <1>5, <2>1
  <2> QED
    BY <1>5, <2>2, <2>3, SessionNumbersStay
<1>12. OneActivePerFamily'
  <2>1. Active' = Active \union {n}
    <3>1. n \notin revoked
      BY <1>5 DEF IdentityInv, NumbersAreFresh
    <3> QED
      BY <1>2, <1>5, <3>1 DEF Active
  <2>2. \A t \in Active : family'[t] = family[t] /\ family[t] # n
    BY <1>5, <1>6 DEF IdentityInv, NumbersAreFresh, Active
  <2> QED
    BY <1>2, <1>5, <2>1, <2>2 DEF IdentityInv, OneActivePerFamily
<1> QED
  BY <1>7, <1>8, <1>9, <1>10, <1>11, <1>12 DEF IdentityInv

LEMMA RevokePreserves ==
  ASSUME IdentityInv, NEW r \in Requests, CloseFamily(r) \/ Logout(r) \/ LogoutAll(r)
  PROVE  IdentityInv'
<1> DEFINE a == [NoArg EXCEPT !.deny = arg[r].deny]
<1>1. TypeOK /\ Right(phase[r], arg[r]) /\ arg[r].deny \subseteq Sessions
  BY ArgShape DEF IdentityInv, ReadingsHold
<1>2. a \in Arg /\ a.deny = arg[r].deny
  BY <1>1, ArgShape DEF NoArg
<1>3. /\ Become(r, "revoked", a)
      /\ UNCHANGED <<codeVars, family, lastSession, overtaken, denied>>
  BY DEF CloseFamily, Logout, LogoutAll, ToDeny
<1>4. revoked \subseteq revoked' /\ revoked' \subseteq Opened /\ arg[r].deny \subseteq revoked'
  <2>1. revoked \subseteq Opened
    BY DEF IdentityInv, NumbersAreFresh
  <2>2. CASE CloseFamily(r)
    BY <1>1, <2>1, <2>2 DEF CloseFamily, FamilyOf, Right
  <2>3. CASE Logout(r)
    BY <1>1, <2>1, <2>3 DEF Logout, Right
  <2>4. CASE LogoutAll(r)
    BY <1>1, <2>1, <2>4 DEF LogoutAll, Right
  <2> QED
    BY <2>2, <2>3, <2>4
<1>5. NumbersAreFresh'
  BY <1>3, <1>4 DEF IdentityInv, NumbersAreFresh, Opened, codeVars
<1>6. OneActivePerFamily'
  BY <1>3, <1>4 DEF IdentityInv, OneActivePerFamily, Active, Opened
<1>7. /\ family' \in [Sessions -> 0..MaxSessions] /\ lastSession' \in 0..MaxSessions
      /\ overtaken' \subseteq Sessions /\ \A s \in Opened : family'[s] = family[s]
  BY <1>1, <1>3 DEF TypeOK
<1> HIDE DEF a
<1> QED
  BY <1>2, <1>3, <1>4, <1>5, <1>6, <1>7, SessionsPreserve

----------------------------------------------------------------------------
(* The denylist and time *)

LEMMA DenyPreserves ==
  ASSUME IdentityInv, NEW r \in Requests, Deny(r)
  PROVE  IdentityInv'
<1>1. /\ TypeOK /\ NoArg \in Arg /\ lastCode \in Nat
      /\ arg[r].deny \subseteq revoked /\ denied \subseteq revoked
  BY ArgShape, LimitsAssumption DEF Deny, IdentityInv, ReadingsHold, Right, TypeOK, RedisOnlyAnticipates
<1>2. UNCHANGED <<codeStatus, attempts, old, lastCode, overlapped,
                  family, revoked, lastSession, overtaken>>
  BY DEF Deny, codeVars, sessionVars
<1>3. /\ phase'[r] = "idle" /\ arg'[r] = NoArg
      /\ \A q \in Requests \ {r} : phase'[q] = phase[q] /\ arg'[q] = arg[q]
  BY <1>1, BecomeMoves DEF Deny, End
<1>4. denied' \subseteq revoked
  BY <1>1 DEF Deny
<1>5. TypeOK'
  <2>1. phase' \in [Requests -> Phases] /\ arg' \in [Requests -> Arg]
    BY <1>1, BecomeTyped DEF Deny, End, Phases
  <2> QED
    BY <1>1, <1>2, <1>4, <2>1 DEF TypeOK
<1>6. ReadingsHold'
  <2>1. ASSUME NEW q \in Requests \ {r} PROVE Right(phase[q], arg[q])'
    BY <1>1, <1>2, <1>3, OthersStayRight
  <2> QED
    BY <1>3, <2>1, IdleIsRight DEF ReadingsHold, Right
<1>7. OverlapsAreKnown' /\ AttemptsAndTrials'
  BY <1>2, <1>3, OverlapsStay, AttemptsStay
<1>8. /\ OneLiveCode' /\ NumbersAreFresh' /\ RedisOnlyAnticipates' /\ OneActivePerFamily'
  BY <1>2, <1>4 DEF IdentityInv, OneLiveCode, LiveCodes, NumbersAreFresh, RedisOnlyAnticipates,
                    OneActivePerFamily, Active, Opened
<1> QED
  BY <1>5, <1>6, <1>7, <1>8 DEF IdentityInv

LEMMA TimePreserves ==
  ASSUME IdentityInv,
         (\E c \in Codes : GrowOld(c)) \/ (\E s \in Sessions : Forget(s)) \/ UNCHANGED vars
  PROVE  IdentityInv'
<1>1. /\ UNCHANGED <<codeStatus, attempts, lastCode, overlapped,
                     family, revoked, lastSession, overtaken, phase, arg>>
      /\ old' \subseteq Codes /\ denied' \subseteq denied
  BY DEF GrowOld, Forget, vars, codeVars, sessionVars, IdentityInv, TypeOK
<1>2. TypeOK'
  BY <1>1 DEF IdentityInv, TypeOK
<1>3. ReadingsHold' /\ OverlapsAreKnown'
  BY <1>1 DEF IdentityInv, ReadingsHold, Right, OverlapsAreKnown, LiveCodes, Opened
<1>4. AttemptsAndTrials'
  BY <1>1, AttemptsStay
<1>5. /\ OneLiveCode' /\ NumbersAreFresh' /\ RedisOnlyAnticipates' /\ OneActivePerFamily'
  BY <1>1 DEF IdentityInv, OneLiveCode, LiveCodes, NumbersAreFresh, RedisOnlyAnticipates,
              OneActivePerFamily, Active, Opened
<1> QED
  BY <1>2, <1>3, <1>4, <1>5 DEF IdentityInv

----------------------------------------------------------------------------
(* The theorems *)

LEMMA StepInv == IdentityInv /\ [Next]_vars => IdentityInv'
<1> SUFFICES ASSUME IdentityInv, [Next]_vars PROVE IdentityInv'
  OBVIOUS
<1>1. ASSUME NEW r \in Requests,
             \/ CountRecent(r) \/ LoadLogoutAll(r) \/ Fail(r)
             \/ \E c \in Codes : LoadCode(r, c)
             \/ \E s \in Sessions : LoadRefresh(r, s) \/ LoadReuse(r, s) \/ LoadLogout(r, s)
      PROVE  IdentityInv'
  BY <1>1, LoadsPreserve
<1>2. ASSUME NEW r \in Requests,
             BeginCode(r) \/ CommitCode(r) \/ Exhaust(r) \/ CountAttempt(r) \/ Enter(r)
      PROVE  IdentityInv'
  BY <1>2, BeginCodePreserves, CommitCodePreserves, ExhaustPreserves, CountAttemptPreserves,
     EnterPreserves
<1>3. ASSUME NEW r \in Requests,
             Rotate(r) \/ CloseFamily(r) \/ Logout(r) \/ LogoutAll(r) \/ Deny(r)
      PROVE  IdentityInv'
  BY <1>3, RotatePreserves, RevokePreserves, DenyPreserves
<1>4. CASE (\E c \in Codes : GrowOld(c)) \/ (\E s \in Sessions : Forget(s)) \/ UNCHANGED vars
  BY <1>4, TimePreserves
<1> QED
  BY <1>1, <1>2, <1>3, <1>4 DEF Next

\* Everything identity.service.ts relies on between a read and the write it
\* decides, with codes, sessions, families and the denylist as they should be.
THEOREM InvHolds == Spec => []IdentityInv
<1> QED
  BY InitInv, StepInv, PTL DEF Spec

\* "At most one code in force per e-mail", unless two requests for a code had
\* their transactions open at the same time.
THEOREM OneCodeInForce == Spec => []OneLiveCode
<1>1. IdentityInv => OneLiveCode
  BY DEF IdentityInv
<1> QED
  BY <1>1, InvHolds, PTL

\* The limit on mistyped codes holds with any number of concurrent requests,
\* within one less than that number.
THEOREM AttemptsHaveALimit == Spec => []AttemptsAreBounded
<1>1. IdentityInv => AttemptsAreBounded
  <2> SUFFICES ASSUME IdentityInv, NEW c \in Codes
               PROVE  attempts[c] <= MaxAttempts + Cardinality(Requests) - 1
    BY DEF AttemptsAreBounded
  <2>1. attempts[c] \in Nat
    BY DEF IdentityInv, TypeOK
  <2>2. attempts[c] + Cardinality(Trying(c)) <= MaxAttempts + Cardinality(Requests) - 1
    BY DEF IdentityInv, AttemptsAndTrials
  <2> QED
    BY <2>1, <2>2, TryingIsFinite, LimitsAssumption
<1> QED
  BY <1>1, InvHolds, PTL

\* What the denylist refuses is revoked in PostgreSQL, and a family with two
\* active sessions had two rotations of one session at once.
THEOREM SessionsAgree == Spec => [](RedisOnlyAnticipates /\ OneActivePerFamily)
<1>1. IdentityInv => RedisOnlyAnticipates /\ OneActivePerFamily
  BY DEF IdentityInv
<1> QED
  BY <1>1, InvHolds, PTL

\* A closed token family stays closed, but for a rotation that was already
\* under way.
THEOREM ClosedIsClosed == Spec => FamiliesStayClosed
<1>1. ASSUME IdentityInv, [Next]_vars
      PROVE  \A f \in Sessions : Closed(f) => Closed(f)' \/ RotatesLate(f)
  <2> SUFFICES ASSUME NEW f \in Sessions, Closed(f), ~ RotatesLate(f) PROVE Closed(f)'
    OBVIOUS
  <2>1. f \in Opened /\ \A s \in Active : family[s] # f
    BY DEF Closed
  <2>2. CASE UNCHANGED family /\ revoked \subseteq revoked'
    BY <2>1, <2>2 DEF Closed, Active, Opened
  <2>3. ASSUME NEW r \in Requests, Enter(r) PROVE Closed(f)'
    <3>1. /\ \A s \in Opened : family'[s] = family[s]
          /\ Opened' = Opened \union {lastSession + 1}
          /\ lastSession + 1 \notin Opened /\ family'[lastSession + 1] = lastSession + 1
          /\ revoked' = revoked
      <4>1. OpenSession(0)
        BY <2>3 DEF Enter
      <4>2. 0 \in Opened \union {0}
        OBVIOUS
      <4> QED
        BY <1>1, <2>3, <4>1, <4>2, OpenSessionKeeps DEF Enter
    <3> QED
      BY <2>1, <3>1 DEF Closed, Active
  <2>4. ASSUME NEW r \in Requests, Rotate(r) PROVE Closed(f)'
    <3> DEFINE s == arg[r].session
    <3>1. phase[r] = "rotating" /\ arg[r].active /\ s \in Opened /\ phase'[r] = "revoked"
      <4>1. phase[r] = "rotating" /\ Right(phase[r], arg[r]) /\ TypeOK
        BY <2>4, <1>1 DEF Rotate, IdentityInv, ReadingsHold
      <4>2. Become(r, "revoked", [NoArg EXCEPT !.deny = {s}])
        BY <2>4 DEF Rotate, ToDeny
      <4> QED
        BY <4>1, <4>2, BecomeMoves DEF Right
    <3>2. family[s] # f
      BY <3>1 DEF RotatesLate
    <3>3. /\ \A t \in Opened : family'[t] = family[t]
          /\ Opened' = Opened \union {lastSession + 1}
          /\ lastSession + 1 \notin Opened /\ family'[lastSession + 1] = family[s]
          /\ revoked \subseteq revoked'
      <4>1. OpenSession(family[s]) /\ revoked \subseteq revoked'
        BY <2>4 DEF Rotate
      <4>2. family[s] \in Opened /\ family[s] # 0
        BY <1>1, <3>1 DEF IdentityInv, NumbersAreFresh, Opened, Sessions
      <4> QED
        BY <1>1, <4>1, <4>2, OpenSessionKeeps
    <3> QED
      BY <2>1, <3>2, <3>3 DEF Closed, Active
  <2>5. \/ UNCHANGED family /\ revoked \subseteq revoked'
        \/ \E r \in Requests : Enter(r) \/ Rotate(r)
    BY <1>1 DEF Next, vars, codeVars, sessionVars, CountRecent, BeginCode, CommitCode, Exhaust,
                CountAttempt, CloseFamily, Logout, LoadLogoutAll, LogoutAll, Deny, Fail, LoadCode,
                LoadRefresh, LoadReuse, LoadLogout, GrowOld, Forget
  <2> QED
    BY <2>2, <2>3, <2>4, <2>5
<1> QED
  BY <1>1, InvHolds, PTL DEF Spec, FamiliesStayClosed
=============================================================================
