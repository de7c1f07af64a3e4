------------------------------ MODULE Identity ------------------------------
(***************************************************************************)
(* The one-time codes and the sessions of one person.                      *)
(*                                                                         *)
(* Every operation reads, decides, and only then writes, in a transaction  *)
(* of its own; no write compares what was read.  A revocation is written   *)
(* to PostgreSQL first and copied to the denylist in Redis afterwards, as  *)
(* far as Redis takes it.  Codes and sessions are numbered in the order    *)
(* of their createdAt, which for a code is when its transaction began.     *)
(* A code or a session past its expiresAt is refused, and the refusal      *)
(* changes nothing here: any request may simply not go on.                 *)
(***************************************************************************)
EXTENDS Integers, FiniteSets

CONSTANTS
  Requests,      \* concurrent requests of this person
  MaxAttempts,   \* OTP_MAX_ATTEMPTS
  PerWindow,     \* OTP_REQUESTS_PER_WINDOW
  MaxCodes,      \* bounds: how many codes are ever requested,
  MaxSessions    \* and how many sessions opened

ASSUME LimitsAssumption ==
  /\ IsFiniteSet(Requests)
  /\ MaxAttempts \in Nat \ {0} /\ PerWindow \in Nat
  /\ MaxCodes \in Nat /\ MaxSessions \in Nat

Codes == 1..MaxCodes
Sessions == 1..MaxSessions

VARIABLES
  codeStatus,   \* of each OneTimeCode: consumedAt, "none" before its commit
  attempts,     \* OneTimeCode.attempts
  old,          \* codes created before the window
  lastCode,     \* codes whose transaction has begun
  family,       \* tokenFamilyId of each session: its first session; 0 before it opens
  revoked,      \* sessions with revokedAt
  lastSession,
  denied,       \* keys revoked_session:<id> in Redis
  phase, arg,   \* of each request: how far it is, what it has read
  overlapped,   \* codes whose transaction overlapped another's
  overtaken     \* families with a rotation that had read its session active too early

codeVars == <<codeStatus, attempts, old, lastCode, overlapped>>
sessionVars == <<family, revoked, lastSession, overtaken>>
vars == <<codeVars, sessionVars, denied, phase, arg>>

Arg == [code : 0..MaxCodes, found : SUBSET Codes,
        session : 0..MaxSessions, active : BOOLEAN, deny : SUBSET Sessions]
NoArg == [code |-> 0, found |-> {}, session |-> 0, active |-> FALSE, deny |-> {}]

Init ==
  /\ codeStatus = [c \in Codes |-> "none"]
  /\ attempts = [c \in Codes |-> 0]
  /\ lastCode = 0
  /\ family = [s \in Sessions |-> 0]
  /\ old = {} /\ revoked = {} /\ denied = {}
  /\ lastSession = 0
  /\ phase = [r \in Requests |-> "idle"]
  /\ arg = [r \in Requests |-> NoArg]
  /\ overlapped = {} /\ overtaken = {}

Opened == {s \in Sessions : family[s] # 0}
Active == Opened \ revoked

Become(r, p, a) ==
  /\ phase' = [phase EXCEPT ![r] = p]
  /\ arg' = [arg EXCEPT ![r] = a]
End(r) == Become(r, "idle", NoArg)
ToDeny(r, ids) == Become(r, "revoked", [NoArg EXCEPT !.deny = ids])

----------------------------------------------------------------------------
(* requestCode *)

LiveCodes == {c \in Codes : codeStatus[c] = "live"}
Recent == {c \in Codes \ old : codeStatus[c] # "none"}

\* The count of the window, outside the transaction
CountRecent(r) ==
  /\ phase[r] = "idle"
  /\ Cardinality(Recent) < PerWindow
  /\ Become(r, "counted", NoArg)
  /\ UNCHANGED <<codeVars, sessionVars, denied>>

NoCodes == {}
ToConsume == LiveCodes

\* The transaction begins and its first statement finds the codes to consume.
BeginCode(r) ==
  LET others == {q \in Requests \ {r} : phase[q] = "issuing"} IN
  /\ phase[r] = "counted"
  /\ lastCode < MaxCodes
  /\ lastCode' = lastCode + 1
  /\ Become(r, "issuing", [NoArg EXCEPT !.code = lastCode + 1, !.found = ToConsume])
  /\ overlapped' = IF others = {} THEN overlapped
                   ELSE overlapped \union {lastCode + 1} \union {arg[q].code : q \in others}
  /\ UNCHANGED <<codeStatus, attempts, old, sessionVars, denied>>

\* It commits: they are consumed, and the new one is there with its e-mail.
CommitCode(r) ==
  /\ phase[r] = "issuing"
  /\ codeStatus' = [c \in Codes |-> IF c = arg[r].code THEN "live"
                                    ELSE IF c \in arg[r].found THEN "consumed"
                                    ELSE codeStatus[c]]
  /\ End(r)
  /\ UNCHANGED <<attempts, old, lastCode, overlapped, sessionVars, denied>>

----------------------------------------------------------------------------
(* verifyCode *)

Latest(c) == c \in LiveCodes /\ \A d \in LiveCodes : d <= c
ExhaustedOneLater(c) == attempts[c] > MaxAttempts
Exhausted(c) == attempts[c] >= MaxAttempts

\* The latest code is read, and the one typed in matches it or does not.
LoadCode(r, c) ==
  /\ phase[r] = "idle"
  /\ Latest(c) /\ c \notin old
  /\ \E p \in IF Exhausted(c) THEN {"exhausted"} ELSE {"mismatched", "matched"} :
       Become(r, p, [NoArg EXCEPT !.code = c])
  /\ UNCHANGED <<codeVars, sessionVars, denied>>

Consume(c) == codeStatus' = [codeStatus EXCEPT ![c] = "consumed"]

Exhaust(r) ==
  /\ phase[r] = "exhausted"
  /\ Consume(arg[r].code)
  /\ End(r)
  /\ UNCHANGED <<attempts, old, lastCode, overlapped, sessionVars, denied>>

CountAttempt(r) ==
  /\ phase[r] = "mismatched"
  /\ attempts' = [attempts EXCEPT ![arg[r].code] = @ + 1]
  /\ End(r)
  /\ UNCHANGED <<codeStatus, old, lastCode, overlapped, sessionVars, denied>>

\* openSession, in the family of another or in one of its own
OpenSession(f) ==
  /\ lastSession < MaxSessions
  /\ lastSession' = lastSession + 1
  /\ family' = [family EXCEPT ![lastSession + 1] = IF f = 0 THEN lastSession + 1 ELSE f]

Enter(r) ==
  /\ phase[r] = "matched"
  /\ Consume(arg[r].code)
  /\ OpenSession(0)
  /\ End(r)
  /\ UNCHANGED <<attempts, old, lastCode, overlapped, revoked, overtaken, denied>>

----------------------------------------------------------------------------
(* refresh *)

OnlyItself(s) == {s}
FamilyOf(s) == {t \in Opened : family[t] = family[s]}

CanRotateAnything(s) == s \in Opened
CanRotate(s) == s \in Active

\* The token is that of an active session,
LoadRefresh(r, s) ==
  /\ phase[r] = "idle"
  /\ CanRotate(s)
  /\ Become(r, "rotating", [NoArg EXCEPT !.session = s, !.active = s \in Active])
  /\ UNCHANGED <<codeVars, sessionVars, denied>>

\* which is replaced by another of its family.
Rotate(r) ==
  LET s == arg[r].session IN
  /\ phase[r] = "rotating"
  /\ OpenSession(family[s])
  /\ revoked' = revoked \union {s}
  /\ overtaken' = IF arg[r].active /\ s \in revoked
                  THEN overtaken \union {family[s]} ELSE overtaken
  /\ ToDeny(r, {s})
  /\ UNCHANGED <<codeVars, denied>>

\* The token was used before: the ids of its family are read,
LoadReuse(r, s) ==
  /\ phase[r] = "idle"
  /\ s \in Opened /\ s \in revoked
  /\ Become(r, "reused", [NoArg EXCEPT !.session = s,
                            !.deny = {t \in Opened : family[t] = family[s]}])
  /\ UNCHANGED <<codeVars, sessionVars, denied>>

\* and all of it that is active is revoked.
CloseFamily(r) ==
  /\ phase[r] = "reused"
  /\ revoked' = revoked \union FamilyOf(arg[r].session)
  /\ ToDeny(r, arg[r].deny)
  /\ UNCHANGED <<codeVars, family, lastSession, overtaken, denied>>

----------------------------------------------------------------------------
(* logout, revokeSessionById and logoutAll, behind the session guard *)

\* Redis may anticipate a refusal or not answer; PostgreSQL decides.
Admitted(s) ==
  \E answers \in BOOLEAN :
    /\ answers => s \notin denied
    /\ s \in Active

\* One session, the person's own or another of hers
LoadLogout(r, s) ==
  /\ phase[r] = "idle"
  /\ s \in Opened
  /\ \E current \in Sessions : Admitted(current)
  /\ Become(r, "leaving", [NoArg EXCEPT !.session = s, !.deny = {s}])
  /\ UNCHANGED <<codeVars, sessionVars, denied>>

Logout(r) ==
  /\ phase[r] = "leaving"
  /\ revoked' = revoked \union {arg[r].session}
  /\ ToDeny(r, arg[r].deny)
  /\ UNCHANGED <<codeVars, family, lastSession, overtaken, denied>>

\* All of them: the ids for Redis are read before the transaction.
LoadLogoutAll(r) ==
  /\ phase[r] = "idle"
  /\ \E current \in Sessions : Admitted(current)
  /\ Become(r, "leavingAll", [NoArg EXCEPT !.deny = Active])
  /\ UNCHANGED <<codeVars, sessionVars, denied>>

LogoutAll(r) ==
  /\ phase[r] = "leavingAll"
  /\ revoked' = revoked \union Opened
  /\ ToDeny(r, arg[r].deny)
  /\ UNCHANGED <<codeVars, family, lastSession, overtaken, denied>>

----------------------------------------------------------------------------
(* The denylist, failures and time *)

\* revokeSessions: the pipeline writes the keys, some of them, or none.
Deny(r) ==
  /\ phase[r] = "revoked"
  /\ \E written \in SUBSET arg[r].deny : denied' = denied \union written
  /\ End(r)
  /\ UNCHANGED <<codeVars, sessionVars>>

\* A transaction fails, or the process dies before or after it.
Fail(r) ==
  /\ phase[r] # "idle"
  /\ End(r)
  /\ UNCHANGED <<codeVars, sessionVars, denied>>

\* The key lives as long as the access token it is about.
Forget(s) ==
  /\ s \in denied
  /\ denied' = denied \ {s}
  /\ UNCHANGED <<codeVars, sessionVars, phase, arg>>

\* Time passes for a code no later than for those after it.
GrowOld(c) ==
  /\ codeStatus[c] # "none"
  /\ c \notin old
  /\ \A d \in Codes : d < c /\ codeStatus[d] # "none" => d \in old
  /\ old' = old \union {c}
  /\ UNCHANGED <<codeStatus, attempts, lastCode, overlapped, sessionVars, denied, phase, arg>>

Next ==
  \/ \E r \in Requests :
       \/ CountRecent(r) \/ BeginCode(r) \/ CommitCode(r)
       \/ Exhaust(r) \/ CountAttempt(r) \/ Enter(r)
       \/ Rotate(r) \/ CloseFamily(r) \/ Logout(r) \/ LoadLogoutAll(r) \/ LogoutAll(r)
       \/ Deny(r) \/ Fail(r)
       \/ \E c \in Codes : LoadCode(r, c)
       \/ \E s \in Sessions : LoadRefresh(r, s) \/ LoadReuse(r, s) \/ LoadLogout(r, s)
  \/ \E c \in Codes : GrowOld(c)
  \/ \E s \in Sessions : Forget(s)

Spec == Init /\ [][Next]_vars

----------------------------------------------------------------------------
(* Properties *)

Phases == {"idle", "counted", "issuing", "exhausted", "mismatched", "matched",
           "rotating", "reused", "leaving", "leavingAll", "revoked"}

TypeOK ==
  /\ codeStatus \in [Codes -> {"none", "live", "consumed"}]
  /\ attempts \in [Codes -> Nat]
  /\ old \subseteq Codes
  /\ lastCode \in 0..MaxCodes
  /\ family \in [Sessions -> 0..MaxSessions]
  /\ revoked \subseteq Sessions /\ denied \subseteq Sessions
  /\ lastSession \in 0..MaxSessions
  /\ phase \in [Requests -> Phases]
  /\ arg \in [Requests -> Arg]
  /\ overlapped \subseteq Codes /\ overtaken \subseteq Sessions

\* However many mistyped codes are checked at once, each from a count read
\* earlier, a code is tried at most once per concurrent request beyond the limit.
AttemptsAreBounded ==
  \A c \in Codes : attempts[c] <= MaxAttempts + Cardinality(Requests) - 1

\* "At most one code in force per e-mail", as requestCode says: two can only be
\* in force when their transactions overlapped.
OneLiveCode ==
  \A c, d \in LiveCodes : c # d => {c, d} \subseteq overlapped

\* Redis can only anticipate a refusal: what is on the denylist is revoked in
\* PostgreSQL, whatever failed, so the guard's answer is PostgreSQL's.
RedisOnlyAnticipates == denied \subseteq revoked

\* A token family has one active session, its chain's last.
OneActivePerFamily ==
  \A s, t \in Active : s # t /\ family[s] = family[t] => family[s] \in overtaken

\* A family that was closed is never opened again, by a logout, a reuse or the
\* rotation of another: the exception is a rotation that had read its session
\* while it was active.
Closed(f) == f \in Opened /\ \A s \in Active : family[s] # f
RotatesLate(f) ==
  \E r \in Requests : /\ phase[r] = "rotating" /\ phase'[r] = "revoked"
                     /\ arg[r].active /\ family[arg[r].session] = f
FamiliesStayClosed ==
  [][\A f \in Sessions : Closed(f) => Closed(f)' \/ RotatesLate(f)]_vars

----------------------------------------------------------------------------
(* Why they hold *)

\* Numbers are given in order, to codes and to sessions.
NumbersAreFresh ==
  /\ \A c \in Codes : c > lastCode => codeStatus[c] = "none"
  /\ \A s \in Sessions : s \in Opened <=> s <= lastSession
  /\ \A s \in Opened : family[s] \in Opened
  /\ revoked \subseteq Opened

\* What a request has read when it is at p, and will write from a: the code of a
\* transaction is not there yet and overlaps those it will not consume; a
\* rotation was right when it read; what goes to Redis is revoked by then.
Right(p, a) ==
  /\ p \in {"issuing", "exhausted", "mismatched", "matched"} => a.code \in 1..lastCode
  /\ p = "issuing" =>
       /\ codeStatus[a.code] = "none"
       /\ \A c \in a.found : codeStatus[c] # "none"
       /\ \A c \in LiveCodes \ a.found : {c, a.code} \subseteq overlapped
  /\ p \in {"exhausted", "mismatched", "matched"} => codeStatus[a.code] # "none"
  /\ p \in {"rotating", "reused", "leaving"} => a.session \in Opened
  /\ p = "rotating" => a.active
  /\ p = "reused" => \A s \in a.deny : s \in Opened /\ family[s] = family[a.session]
  /\ p = "leaving" => a.deny = {a.session}
  /\ p = "leavingAll" => a.deny \subseteq Opened
  /\ p = "revoked" => a.deny \subseteq revoked
ReadingsHold == \A r \in Requests : Right(phase[r], arg[r])

\* Two transactions at once know of each other.
OverlapsAreKnown ==
  \A r, q \in Requests : r # q /\ phase[r] = "issuing" /\ phase[q] = "issuing" =>
    /\ {arg[q].code, arg[r].code} \subseteq overlapped
    /\ arg[q].code # arg[r].code

\* Attempts and those that are about to be counted
Trying(c) == {r \in Requests : phase[r] = "mismatched" /\ arg[r].code = c}
AttemptsAndTrials ==
  \A c \in Codes :
    attempts[c] + Cardinality(Trying(c)) <= MaxAttempts + Cardinality(Requests) - 1

IdentityInv ==
  /\ TypeOK
  /\ NumbersAreFresh
  /\ RedisOnlyAnticipates
  /\ ReadingsHold
  /\ OneLiveCode
  /\ OverlapsAreKnown
  /\ OneActivePerFamily
  /\ AttemptsAndTrials
=============================================================================
