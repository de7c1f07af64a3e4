------------------------ MODULE WebScreensProofs ------------------------
(***************************************************************************)
(* Proofs about the screens, for every number of days, months, loads,      *)
(* tabs, roles and legal texts: what a copy still tells about the day it   *)
(* was taken of, what a shown role tells about the token, and to which     *)
(* text a consent is.                                                      *)
(***************************************************************************)
EXTENDS WebScreens, ProfileConsents, FiniteSetTheorems, WellFoundedInduction, TLAPS

----------------------------------------------------------------------------
(* Profiles *)

Steps == {"idle", "sent", "created", "signed"}
Request == [role : Roles \union {Nobody}, admitted : SUBSET Roles, token : SUBSET Roles]
Admitted == (SUBSET Roles) \union {Nobody}
Loading == [at : {"no", "asked", "served"}, roles : Admitted]
ProfilesType ==
  /\ granted \subseteq Roles
  /\ cookie \in Admitted
  /\ step \in [Tabs -> Steps]
  /\ request \in [Tabs -> Request]
  /\ \A t \in Tabs : step[t] = "sent" => request[t].role \in Roles
  /\ me \in [Tabs -> Admitted]
  /\ loading \in [Tabs -> Loading]
  /\ crossed \in BOOLEAN

\* A page shows roles the database has.
ShownIsGranted ==
  \A t \in Tabs :
    /\ me[t] # Nobody => me[t] \subseteq granted
    /\ loading[t].roles # Nobody => loading[t].roles \subseteq granted

\* Until two answers cross, a token lacks only the roles of creates that have not
\* been answered: the one in the browser and the one of an answer on its way.
TokensLag ==
  ~crossed =>
    /\ cookie # Nobody => granted \subseteq cookie \union unanswered
    /\ \A t \in Tabs : step[t] = "signed" => granted \subseteq request[t].token \union unanswered

ProfilesInv == ProfilesType /\ ShownIsGranted /\ TokensLag

LEMMA RequestsAreTyped ==
  /\ NoRequest \in Request
  /\ \A role \in Roles, roles \in SUBSET Roles :
       /\ [NoRequest EXCEPT !.role = role, !.admitted = roles] \in Request
       /\ [NoRequest EXCEPT !.role = role, !.admitted = roles].role = role
  /\ \A r \in Request, roles \in SUBSET Roles :
       /\ [r EXCEPT !.token = roles] \in Request
       /\ [r EXCEPT !.token = roles].token = roles
<1>1. NoRequest \in Request
  BY DEF NoRequest, Request
<1>2. ASSUME NEW role \in Roles, NEW roles \in SUBSET Roles
      PROVE  /\ [NoRequest EXCEPT !.role = role, !.admitted = roles] \in Request
             /\ [NoRequest EXCEPT !.role = role, !.admitted = roles].role = role
  BY <1>1 DEF Request
<1>3. ASSUME NEW r \in Request, NEW roles \in SUBSET Roles
      PROVE  /\ [r EXCEPT !.token = roles] \in Request
             /\ [r EXCEPT !.token = roles].token = roles
  BY DEF Request
<1> QED BY <1>1, <1>2, <1>3

LEMMA LoadingsAreTyped ==
  /\ NotLoading \in Loading /\ NotLoading.roles = Nobody
  /\ Asked \in Loading /\ Asked.roles = Nobody
  /\ \A roles \in Admitted : [at |-> "served", roles |-> roles] \in Loading
BY DEF NotLoading, Asked, Loading, Admitted

LEMMA ProfilesStart == ProfilesInit => ProfilesInv
<1> SUFFICES ASSUME ProfilesInit PROVE ProfilesInv
  OBVIOUS
<1>1. ProfilesType
  <2>1. NoRequest \in Request /\ NotLoading \in Loading /\ Nobody \in Admitted
    BY RequestsAreTyped, LoadingsAreTyped DEF Admitted
  <2> QED BY <2>1 DEF ProfilesInit, ProfilesType, Steps
<1>2. ShownIsGranted
  BY DEF ProfilesInit, ShownIsGranted, NotLoading
<1>3. TokensLag
  BY DEF ProfilesInit, TokensLag
<1> QED BY <1>1, <1>2, <1>3 DEF ProfilesInv

LEMMA ProfilesStep == ProfilesInv /\ [ProfilesNext]_profileVars => ProfilesInv'
<1> SUFFICES ASSUME ProfilesInv, [ProfilesNext]_profileVars PROVE ProfilesInv'
  OBVIOUS
<1> USE DEF ProfilesInv
<1>1. ASSUME NEW t \in Tabs, NEW role \in Roles, Submit(t, role) PROVE ProfilesInv'
  <2> USE <1>1 DEF Submit, Ask
  <2>0. /\ [NoRequest EXCEPT !.role = role, !.admitted = cookie] \in Request
        /\ [NoRequest EXCEPT !.role = role, !.admitted = cookie].role = role
    BY RequestsAreTyped DEF ProfilesType, Admitted
  <2>1. ProfilesType'
    BY <2>0 DEF ProfilesType, Steps
  <2>2. ShownIsGranted'
    BY DEF ShownIsGranted
  <2>3. TokensLag'
    BY DEF TokensLag, ProfilesType
  <2> QED BY <2>1, <2>2, <2>3
<1>2. ASSUME NEW t \in Tabs, LogIn(t) PROVE ProfilesInv'
  <2> USE <1>2 DEF LogIn, Ask
  <2>0. /\ [NoRequest EXCEPT !.token = granted] \in Request
        /\ [NoRequest EXCEPT !.token = granted].token = granted
    BY RequestsAreTyped DEF ProfilesType
  <2>1. ProfilesType'
    BY <2>0 DEF ProfilesType, Steps
  <2>2. ShownIsGranted'
    BY DEF ShownIsGranted
  <2>3. TokensLag'
    BY <2>0 DEF TokensLag, ProfilesType
  <2> QED BY <2>1, <2>2, <2>3
<1>3. ASSUME NEW t \in Tabs, CreateProfile(t) PROVE ProfilesInv'
  <2> USE <1>3 DEF CreateProfile, Ask
  <2>1. ProfilesType'
    BY DEF ProfilesType, Steps
  <2>2. ShownIsGranted'
    BY DEF ShownIsGranted
  <2>3. TokensLag'
    BY DEF TokensLag, ProfilesType
  <2> QED BY <2>1, <2>2, <2>3
<1>4. ASSUME NEW t \in Tabs, SignToken(t) PROVE ProfilesInv'
  <2> USE <1>4 DEF SignToken, Ask, TokenRoles
  <2>0. /\ [request[t] EXCEPT !.token = granted] \in Request
        /\ [request[t] EXCEPT !.token = granted].token = granted
    BY RequestsAreTyped DEF ProfilesType
  <2>1. ProfilesType'
    BY <2>0 DEF ProfilesType, Steps
  <2>2. ShownIsGranted'
    BY DEF ShownIsGranted
  <2>3. TokensLag'
    BY <2>0 DEF TokensLag, ProfilesType
  <2> QED BY <2>1, <2>2, <2>3
<1>5. ASSUME NEW t \in Tabs, ServeMe(t) PROVE ProfilesInv'
  <2> USE <1>5 DEF ServeMe
  <2>1. ProfilesType'
    <3>1. [at |-> "served", roles |-> IF cookie = Nobody THEN Nobody ELSE granted] \in Loading
      BY LoadingsAreTyped DEF ProfilesType, Admitted
    <3> QED BY <3>1 DEF ProfilesType
  <2>2. ShownIsGranted'
    BY DEF ShownIsGranted, ProfilesType
  <2>3. TokensLag'
    BY DEF TokensLag
  <2> QED BY <2>1, <2>2, <2>3
<1>6. ASSUME NEW t \in Tabs, Answer(t) PROVE ProfilesInv'
  <2> USE <1>6 DEF Answer, Ask
  <2>1. ProfilesType'
    BY RequestsAreTyped, LoadingsAreTyped DEF ProfilesType, Steps, Admitted, Request
  <2>2. ShownIsGranted'
    BY LoadingsAreTyped DEF ShownIsGranted, ProfilesType
  <2>3. TokensLag'
    BY DEF TokensLag, ProfilesType
  <2> QED BY <2>1, <2>2, <2>3
<1>7. ASSUME NEW t \in Tabs, Refused(t) PROVE ProfilesInv'
  <2> USE <1>7 DEF Refused, Ask
  <2>1. ProfilesType'
    BY RequestsAreTyped DEF ProfilesType, Steps
  <2>2. ShownIsGranted'
    BY DEF ShownIsGranted
  <2>3. TokensLag'
    BY DEF TokensLag, ProfilesType
  <2> QED BY <2>1, <2>2, <2>3
<1>8. ASSUME NEW t \in Tabs, ShowMe(t) PROVE ProfilesInv'
  <2> USE <1>8 DEF ShowMe
  <2>1. ProfilesType'
    BY LoadingsAreTyped DEF ProfilesType, Loading, Admitted
  <2>2. ShownIsGranted'
    BY LoadingsAreTyped DEF ShownIsGranted, ProfilesType
  <2>3. TokensLag'
    BY DEF TokensLag
  <2> QED BY <2>1, <2>2, <2>3
<1>9. ASSUME NEW t \in Tabs, OpenPage(t) PROVE ProfilesInv'
  <2> USE <1>9 DEF OpenPage
  <2>1. ProfilesType'
    BY LoadingsAreTyped DEF ProfilesType, Admitted
  <2>2. ShownIsGranted'
    BY LoadingsAreTyped DEF ShownIsGranted, ProfilesType
  <2>3. TokensLag'
    BY DEF TokensLag
  <2> QED BY <2>1, <2>2, <2>3
<1>10. CASE ExpireToken
  BY <1>10 DEF ExpireToken, ProfilesType, Admitted, ShownIsGranted, TokensLag
<1>11. CASE UNCHANGED profileVars
  BY <1>11 DEF profileVars, ProfilesType, ShownIsGranted, TokensLag
<1> QED BY <1>1, <1>2, <1>3, <1>4, <1>5, <1>6, <1>7, <1>8, <1>9, <1>10, <1>11
        DEF ProfilesNext, OtherStep

LEMMA RolesWork == ProfilesInv => ShownRolesWork
BY DEF ProfilesInv, ShownIsGranted, TokensLag, ShownRolesWork

----------------------------------------------------------------------------
(* The consents of a profile *)

\* Texts are only added, so what was seen stays among them.
TextsType ==
  /\ texts \in [Kinds -> Seq(Text)]
  /\ \A t \in Tabs, k \in Kinds : seen[t][k] \in {0} \union Numbers(k)
SeenShape == seen \in [Tabs -> [Kinds -> Nat]]
ConsentsInv ==
  /\ ProfilesInv /\ SeenShape /\ TextsType
  /\ ConsentIsNotOlder /\ ProfilesHaveConsents

\* A set of numbers up to a limit that is not empty has a greatest one.
LEMMA GreatestExists ==
  ASSUME NEW n \in Nat, NEW S \in SUBSET (1..n), S # {}
  PROVE  Max(S) \in S /\ \A m \in S : m <= Max(S)
<1> DEFINE T == {n - m : m \in S}
<1>1. T \subseteq Nat /\ T # {}
  <2>1. \A m \in S : n - m \in Nat
    BY SMT
  <2> QED BY <2>1, Zenon
<1>2. PICK x \in T : \A y \in T : ~(<<y, x>> \in OpToRel(<, Nat))
  BY <1>1, NatLessThanWellFounded, WFMin, Zenon
<1>3. \A y \in T : ~(y < x)
  BY <1>1, <1>2 DEF OpToRel
<1>4. PICK m \in S : x = n - m
  OBVIOUS
<1>5. \A p \in S : m >= p
  BY <1>3, <1>4, SMT
<1>6. Max(S) \in S /\ \A p \in S : Max(S) >= p
  BY <1>5 DEF Max
<1> QED BY <1>6, SMT

LEMMA NumbersAre ==
  ASSUME TextsType, NEW k \in Kinds
  PROVE  /\ Len(texts[k]) \in Nat /\ Numbers(k) = 1..Len(texts[k])
         /\ \A n \in Numbers(k) : texts[k][n] \in Text
BY DEF TextsType, Numbers

\* The text recorded is the last one, whatever its status; the one on the page is
\* one of the texts.
LEMMA LastIsRecorded ==
  ASSUME TextsType, NEW k \in Kinds
  PROVE  /\ Recorded(k) = Len(texts[k])
         /\ Served(k) \in {0} \union Numbers(k)
<1>1. Len(texts[k]) \in Nat /\ Numbers(k) = 1..Len(texts[k])
  BY NumbersAre
<1>2. \A S \in SUBSET Numbers(k) : Newest(S) \in {0} \union S
  BY <1>1, GreatestExists DEF Newest
<1>3. Recorded(k) = Len(texts[k])
  <2>1. CASE Len(texts[k]) = 0
    <3>1. Numbers(k) = {}
      BY <1>1, <2>1, SMT
    <3> QED BY <2>1, <3>1 DEF Recorded, Newest
  <2>2. CASE Len(texts[k]) # 0
    <3>1. Len(texts[k]) \in Numbers(k)
      BY <1>1, <2>2, SMT
    <3>2. Max(Numbers(k)) \in Numbers(k) /\ \A m \in Numbers(k) : m <= Max(Numbers(k))
      BY <1>1, <3>1, GreatestExists
    <3>3. Max(Numbers(k)) = Len(texts[k])
      BY <1>1, <3>1, <3>2, SMT
    <3> QED BY <3>1, <3>3 DEF Recorded, Newest
  <2> QED BY <2>1, <2>2
<1>4. SinceLatest(k) \subseteq Numbers(k)
  BY DEF SinceLatest, Effective
<1>5. {n \in Numbers(k) : texts[k][n].status # "RETIRED"} \subseteq Numbers(k)
  OBVIOUS
<1>6. Served(k) \in {0} \union Numbers(k)
  BY <1>2, <1>4, <1>5 DEF Served
<1> QED BY <1>3, <1>6

\* In production the text of the page is one in force (effectiveDocumentWhere), and
\* there is one on the page whenever one is in force.
THEOREM ServedIsInForce ==
  ASSUME TextsType, NEW k \in Kinds, Production
  PROVE  /\ Served(k) # 0 => Served(k) \in Effective(k)
         /\ Effective(k) # {} /\ LastDate \in Nat => Served(k) # 0
<1>1. Len(texts[k]) \in Nat /\ Numbers(k) = 1..Len(texts[k])
      /\ \A n \in Numbers(k) : texts[k][n] \in Text
  BY NumbersAre
<1>2. SinceLatest(k) \in SUBSET (1..Len(texts[k])) /\ SinceLatest(k) \subseteq Effective(k)
  BY <1>1 DEF SinceLatest, Effective
<1>3. Served(k) # 0 => Served(k) \in Effective(k)
  <2> SUFFICES ASSUME Served(k) # 0 PROVE Served(k) \in Effective(k)
    OBVIOUS
  <2>1. Served(k) = Newest(SinceLatest(k)) /\ SinceLatest(k) # {}
    BY DEF Served, Newest
  <2>2. Served(k) \in SinceLatest(k)
    BY <1>1, <1>2, <2>1, GreatestExists DEF Newest
  <2> QED BY <1>2, <2>2
<1>4. ASSUME Effective(k) # {}, LastDate \in Nat PROVE Served(k) # 0
  <2> DEFINE dates == {texts[k][n].effectiveFrom + 1 : n \in Effective(k)}
  <2>1. dates \in SUBSET (1..(LastDate + 1)) /\ dates # {}
    <3>1. \A n \in Effective(k) : texts[k][n].effectiveFrom \in 0..LastDate
      BY <1>1 DEF Effective, Text
    <3>2. \A d \in 0..LastDate : d + 1 \in 1..(LastDate + 1)
      BY <1>4, SMT
    <3> QED BY <1>4, <3>1, <3>2
  <2>2. Max(dates) \in dates /\ \A d \in dates : d <= Max(dates)
    BY <1>4, <2>1, LastDate + 1 \in Nat, GreatestExists
  <2>3. PICK n \in Effective(k) : Max(dates) = texts[k][n].effectiveFrom + 1
    BY <2>2
  <2>4. \A m \in Effective(k) : texts[k][m].effectiveFrom + 1 <= texts[k][n].effectiveFrom + 1
    BY <2>2, <2>3
  <2>5. \A m \in Effective(k) : texts[k][m].effectiveFrom \in Int
    <3>1. \A m \in Effective(k) : texts[k][m].effectiveFrom \in 0..LastDate
      BY <1>1 DEF Effective, Text
    <3> QED BY <1>4, <3>1, SMT
  <2> HIDE DEF dates
  <2>6. n \in SinceLatest(k)
    BY <2>4, <2>5, SMT DEF SinceLatest
  <2>7. Max(SinceLatest(k)) \in 1..Len(texts[k])
    BY <1>1, <1>2, <2>6, GreatestExists
  <2>8. Served(k) = Max(SinceLatest(k))
    BY <1>4, <2>6 DEF Served, Newest
  <2> QED BY <1>1, <2>7, <2>8, SMT
<1> QED BY <1>3, <1>4

LEMMA ConsentsStart == ConsentInit => ConsentsInv
<1> SUFFICES ASSUME ConsentInit PROVE ConsentsInv
  OBVIOUS
<1>1. ProfilesInv
  BY ProfilesStart DEF ConsentInit
<1>2. texts \in [Kinds -> Seq(Text)]
  <2>1. <<>> \in Seq(Text)
    OBVIOUS
  <2> QED BY <2>1 DEF ConsentInit, LegalInit
<1>3. SeenShape /\ TextsType
  BY <1>2 DEF ConsentInit, SeenShape, TextsType
<1>4. ConsentIsNotOlder /\ ProfilesHaveConsents
  BY DEF ConsentInit, ProfilesInit, ConsentIsNotOlder, ProfilesHaveConsents
<1> QED BY <1>1, <1>3, <1>4 DEF ConsentsInv

\* A step of the texts adds to them at most.
LEMMA TextsAreKept ==
  ASSUME texts \in [Kinds -> Seq(Text)], LegalNext
  PROVE  /\ texts' \in [Kinds -> Seq(Text)]
         /\ \A k \in Kinds : Numbers(k) \subseteq Numbers(k)'
<1>1. CASE NextDay
  BY <1>1 DEF NextDay, Numbers
<1>2. ASSUME NEW k \in Kinds, NEW text \in Text, Publish(k, text)
      PROVE  /\ texts' \in [Kinds -> Seq(Text)]
             /\ \A j \in Kinds : Numbers(j) \subseteq Numbers(j)'
  <2>1. texts' = [texts EXCEPT ![k] = Append(texts[k], text)]
    BY <1>2 DEF Publish
  <2>2. /\ texts[k] \in Seq(Text) /\ Append(texts[k], text) \in Seq(Text)
        /\ DOMAIN texts[k] \subseteq DOMAIN Append(texts[k], text)
    OBVIOUS
  <2>3. texts' \in [Kinds -> Seq(Text)]
    BY <2>1, <2>2
  <2>4. \A j \in Kinds : texts'[j] = IF j = k THEN Append(texts[k], text) ELSE texts[j]
    BY <2>1
  <2> QED BY <2>2, <2>3, <2>4 DEF Numbers
<1>3. ASSUME NEW k \in Kinds, NEW text \in Text, NEW n \in 1..MaxTexts, Review(k, n, text)
      PROVE  /\ texts' \in [Kinds -> Seq(Text)]
             /\ \A j \in Kinds : Numbers(j) \subseteq Numbers(j)'
  <2> DEFINE reviewed == [texts[k] EXCEPT ![n] = text]
  <2>1. texts' = [texts EXCEPT ![k] = reviewed]
    BY <1>3 DEF Review
  <2>2. /\ texts[k] \in Seq(Text) /\ reviewed \in Seq(Text)
        /\ DOMAIN texts[k] = DOMAIN reviewed
    BY <1>3 DEF Review
  <2> HIDE DEF reviewed
  <2>3. texts' \in [Kinds -> Seq(Text)]
    BY <2>1, <2>2
  <2>4. \A j \in Kinds : texts'[j] = IF j = k THEN reviewed ELSE texts[j]
    BY <2>1
  <2> QED BY <2>2, <2>3, <2>4 DEF Numbers
<1> QED BY <1>1, <1>2, <1>3 DEF LegalNext

\* The consents a create adds: one of each kind, to the last text.
LEMMA CreateRecords ==
  ASSUME ConsentsInv, NEW t \in Tabs, CreateWithConsents(t), ProfilesInv'
  PROVE  ConsentsInv'
<1> DEFINE given(k) == [role |-> request[t].role, kind |-> k, text |-> Recorded(k),
                        seen |-> seen[t][k], served |-> Served(k)]
<1>1. consents' = consents \union {given(k) : k \in Kinds}
  BY DEF CreateWithConsents
<1>2. /\ UNCHANGED <<texts, seen>>
      /\ granted' = granted \union {request[t].role} /\ request[t].role \notin granted
  BY DEF CreateWithConsents, legalVars, CreateProfile
<1>3. \A k \in Kinds : Numbers(k)' = Numbers(k)
  BY <1>2 DEF Numbers
<1>4. SeenShape' /\ TextsType'
  BY <1>2, <1>3 DEF ConsentsInv, SeenShape, TextsType
<1>5. ASSUME NEW k \in Kinds
      PROVE  given(k).text \in Numbers(k) /\ given(k).seen <= given(k).text
             /\ given(k).served <= given(k).text
  <2>1. TextsType /\ Recorded(k) # 0
    BY DEF ConsentsInv, CreateWithConsents
  <2>2. Len(texts[k]) \in Nat /\ Numbers(k) = 1..Len(texts[k])
    BY <2>1, NumbersAre
  <2>3. Recorded(k) = Len(texts[k]) /\ Served(k) \in {0} \union Numbers(k)
    BY <2>1, LastIsRecorded
  <2>4. seen[t][k] \in {0} \union Numbers(k)
    BY <2>1 DEF TextsType
  <2>5. Recorded(k) \in Numbers(k) /\ Served(k) <= Recorded(k) /\ seen[t][k] <= Recorded(k)
    BY <2>1, <2>2, <2>3, <2>4, SMT
  <2> QED BY <2>5
<1>6. \A k \in Kinds : given(k).role = request[t].role /\ given(k).kind = k
  OBVIOUS
<1> HIDE DEF given
<1>7. ConsentIsNotOlder'
  <2> SUFFICES ASSUME NEW c \in consents'
               PROVE  c.text \in Numbers(c.kind)' /\ c.seen <= c.text /\ c.served <= c.text
    BY DEF ConsentIsNotOlder
  <2>1. CASE c \in consents
    <3>1. c.kind \in Kinds /\ c.text \in Numbers(c.kind) /\ c.seen <= c.text /\ c.served <= c.text
      BY <2>1 DEF ConsentsInv, ConsentIsNotOlder, ProfilesHaveConsents
    <3> QED BY <3>1, <1>3
  <2>2. ASSUME NEW k \in Kinds, c = given(k)
        PROVE  c.text \in Numbers(c.kind)' /\ c.seen <= c.text /\ c.served <= c.text
    BY <2>2, <1>3, <1>5, <1>6
  <2> QED BY <1>1, <2>1, <2>2
<1>8. ProfilesHaveConsents'
  <2> USE DEF ProfilesHaveConsents
  <2>1. \A role \in granted, k \in Kinds : \E c \in consents : c.role = role /\ c.kind = k
    BY DEF ConsentsInv
  <2>2. \A c \in consents : c.role \in granted /\ c.kind \in Kinds
    BY DEF ConsentsInv
  <2>3. \A c, d \in consents : c.role = d.role /\ c.kind = d.kind => c = d
    BY DEF ConsentsInv
  <2>4. \A role \in granted', k \in Kinds : \E c \in consents' : c.role = role /\ c.kind = k
    BY <1>1, <1>2, <1>6, <2>1
  <2>5. \A c \in consents' : c.role \in granted' /\ c.kind \in Kinds
    BY <1>1, <1>2, <1>6, <2>2
  <2>6. ASSUME NEW c \in consents', NEW d \in consents', c.role = d.role, c.kind = d.kind
        PROVE  c = d
    <3>1. CASE c \in consents /\ d \in consents
      BY <3>1, <2>3, <2>6
    <3>2. ASSUME NEW j \in Kinds, c = given(j) PROVE c = d
      <4>1. d \notin consents
        BY <1>2, <1>6, <2>2, <2>6, <3>2
      <4> QED BY <1>1, <1>6, <2>6, <3>2, <4>1
    <3>3. ASSUME NEW j \in Kinds, d = given(j) PROVE c = d
      <4>1. c \notin consents
        BY <1>2, <1>6, <2>2, <2>6, <3>3
      <4> QED BY <1>1, <1>6, <2>6, <3>3, <4>1
    <3> QED BY <1>1, <3>1, <3>2, <3>3
  <2> QED BY <2>4, <2>5, <2>6
<1> QED BY <1>4, <1>7, <1>8 DEF ConsentsInv

\* A step that leaves consents, roles and what was seen, and only adds texts.
LEMMA ConsentsStay ==
  ASSUME ConsentsInv, ProfilesInv', UNCHANGED <<granted, seen, consents>>,
         texts' \in [Kinds -> Seq(Text)], \A k \in Kinds : Numbers(k) \subseteq Numbers(k)'
  PROVE  ConsentsInv'
<1>1. SeenShape' /\ TextsType'
  BY DEF ConsentsInv, SeenShape, TextsType
<1>2. ProfilesHaveConsents'
  BY DEF ConsentsInv, ProfilesHaveConsents
<1>3. ConsentIsNotOlder'
  <2> SUFFICES ASSUME NEW c \in consents
               PROVE  c.text \in Numbers(c.kind)' /\ c.seen <= c.text /\ c.served <= c.text
    BY DEF ConsentIsNotOlder
  <2>1. c.kind \in Kinds /\ c.text \in Numbers(c.kind) /\ c.seen <= c.text /\ c.served <= c.text
    BY DEF ConsentsInv, ConsentIsNotOlder, ProfilesHaveConsents
  <2> QED BY <2>1
<1> QED BY <1>1, <1>2, <1>3 DEF ConsentsInv

LEMMA CreatesAreProfiles == [ConsentNext]_consentVars => [ProfilesNext]_profileVars
<1>1. ASSUME NEW t \in Tabs, CreateWithConsents(t) PROVE ProfilesNext
  BY <1>1 DEF CreateWithConsents, ProfilesNext
<1>2. ASSUME NEW t \in Tabs, NEW k \in Kinds, ShowText(t, k) PROVE UNCHANGED profileVars
  BY <1>2 DEF ShowText
<1>3. CASE UNCHANGED consentVars
  BY <1>3 DEF consentVars
<1> QED BY <1>1, <1>2, <1>3 DEF ConsentNext, ProfilesNext

LEMMA OthersGiveNoRole == OtherStep => UNCHANGED granted
BY Zenon DEF OtherStep, Submit, LogIn, SignToken, ServeMe, Answer, Refused, ShowMe, OpenPage, ExpireToken

LEMMA ConsentsStep == ConsentsInv /\ [ConsentNext]_consentVars => ConsentsInv'
<1> SUFFICES ASSUME ConsentsInv, [ConsentNext]_consentVars PROVE ConsentsInv'
  OBVIOUS
<1>1. ProfilesInv'
  BY CreatesAreProfiles, ProfilesStep DEF ConsentsInv
<1>2. texts \in [Kinds -> Seq(Text)]
  BY DEF ConsentsInv, TextsType
<1>3. ASSUME NEW t \in Tabs, CreateWithConsents(t) PROVE ConsentsInv'
  BY <1>1, <1>3, CreateRecords
<1>4. ASSUME NEW t \in Tabs, NEW k \in Kinds, ShowText(t, k) PROVE ConsentsInv'
  <2>1. /\ UNCHANGED <<granted, consents, texts>>
        /\ seen' = [seen EXCEPT ![t][k] = Served(k)]
    BY <1>4 DEF ShowText, profileVars, legalVars
  <2>2. Served(k) \in {0} \union Numbers(k) /\ Served(k) \in Nat
    BY LastIsRecorded, NumbersAre DEF ConsentsInv
  <2>3. seen \in [Tabs -> [Kinds -> Nat]]
    BY DEF ConsentsInv, SeenShape
  <2>4. \A u \in Tabs, j \in Kinds :
          seen'[u][j] = IF u = t /\ j = k THEN Served(k) ELSE seen[u][j]
    BY <2>1, <2>3
  <2>5. SeenShape'
    BY <2>1, <2>2, <2>3 DEF SeenShape
  <2>6. \A j \in Kinds : Numbers(j)' = Numbers(j)
    BY <2>1 DEF Numbers
  <2>7. TextsType'
    BY <2>1, <2>2, <2>4, <2>6 DEF ConsentsInv, TextsType
  <2>8. ProfilesHaveConsents'
    BY <2>1 DEF ConsentsInv, ProfilesHaveConsents
  <2>9. ConsentIsNotOlder'
    BY <2>1, <2>6 DEF ConsentsInv, ConsentIsNotOlder, ProfilesHaveConsents
  <2> QED BY <1>1, <2>5, <2>7, <2>8, <2>9 DEF ConsentsInv
<1>5. CASE OtherStep /\ UNCHANGED <<legalVars, seen, consents>>
  <2>1. UNCHANGED <<granted, seen, consents, texts>>
    BY <1>5, OthersGiveNoRole DEF legalVars
  <2>2. \A k \in Kinds : Numbers(k) \subseteq Numbers(k)'
    BY <2>1 DEF Numbers
  <2> QED BY <1>1, <1>2, <2>1, <2>2, ConsentsStay
<1>6. CASE LegalNext /\ UNCHANGED <<profileVars, seen, consents>>
  <2>1. UNCHANGED <<granted, seen, consents>>
    BY <1>6 DEF profileVars
  <2> QED BY <1>1, <1>2, <1>6, <2>1, TextsAreKept, ConsentsStay
<1>7. CASE UNCHANGED consentVars
  <2>1. UNCHANGED <<granted, seen, consents, texts>>
    BY <1>7 DEF consentVars, profileVars, legalVars
  <2>2. \A k \in Kinds : Numbers(k) \subseteq Numbers(k)'
    BY <2>1 DEF Numbers
  <2> QED BY <1>1, <1>2, <2>1, <2>2, ConsentsStay
<1> QED BY <1>3, <1>4, <1>5, <1>6, <1>7 DEF ConsentNext

\* Creating a profile with its consents implements the creation without them, so
\* that everything said of the profiles holds (create of employers and workers).
THEOREM ConsentsImplementProfiles == ConsentSpec => ProfilesSpec
BY CreatesAreProfiles, PTL DEF ConsentSpec, ProfilesSpec, ConsentInit

LEMMA ConsentsInvariant == ConsentSpec => []ConsentsInv
BY ConsentsStart, ConsentsStep, PTL DEF ConsentSpec

\* A consent is to a text that exists, never an older one than the text seen or the
\* text on the page (recordConsents, newest of its kind).
THEOREM ConsentsAreToNewerTexts == ConsentSpec => []ConsentIsNotOlder
<1>1. ConsentsInv => ConsentIsNotOlder
  BY DEF ConsentsInv
<1> QED BY <1>1, ConsentsInvariant, PTL

\* Every role that was given has one consent of each kind and no consent is without
\* its role (the transaction of create of employers and workers).
THEOREM RolesComeWithConsents == ConsentSpec => []ProfilesHaveConsents
<1>1. ConsentsInv => ProfilesHaveConsents
  BY DEF ConsentsInv
<1> QED BY <1>1, ConsentsInvariant, PTL

----------------------------------------------------------------------------
(* The days *)

\* What the row of a day tells about the same day later on: its version is not
\* newer, a day that was there still is, and one whose version did not move is as
\* it was.
Before(row, now) ==
  /\ row.version \in Nat /\ now.version \in Nat /\ row.version <= now.version
  /\ row.status # "NONE" => now.status # "NONE"
  /\ row.status # "NONE" /\ row.version = now.version => row = now

\* A list has only days that were there, and may lack any.
ListBefore(rows, now) ==
  /\ DOMAIN rows \subseteq Days
  /\ \A d \in DOMAIN rows : rows[d].status # "NONE" /\ Before(rows[d], now[d])
CopyBefore(c, now) == c.day \in Days /\ c.row.status # "NONE" /\ Before(c.row, now[c.day])
LoadBefore(l, now) ==
  /\ l = [ask |-> l.ask, answer |-> l.answer]
  /\ l.answer # None => ListBefore(l.answer, now)

\* Every day as it is, in a list or not; and as it is later on.
Now == [d \in Days |-> Row(d)]
MovesOn(now, next) == \A d \in Days : Before(now[d], next[d])

LEMMA BeforeIsTransitive ==
  ASSUME NEW now, NEW next, MovesOn(now, next)
  PROVE  /\ \A rows : ListBefore(rows, now) => ListBefore(rows, next)
         /\ \A c : CopyBefore(c, now) => CopyBefore(c, next)
         /\ \A l : LoadBefore(l, now) => LoadBefore(l, next)
<1>1. ASSUME NEW a, NEW b, NEW c, Before(a, b), Before(b, c)
      PROVE  Before(a, c)
  <2>1. a.version \in Nat /\ c.version \in Nat /\ a.version <= c.version
    BY <1>1, SMT DEF Before
  <2>2. a.status # "NONE" => c.status # "NONE"
    BY <1>1 DEF Before
  <2>3. ASSUME a.status # "NONE", a.version = c.version PROVE a = c
    <3>1. a.version = b.version /\ b.version = c.version
      BY <1>1, <2>3, SMT DEF Before
    <3> QED BY <1>1, <2>3, <3>1 DEF Before
  <2> QED BY <2>1, <2>2, <2>3 DEF Before
<1>2. ASSUME NEW rows, ListBefore(rows, now) PROVE ListBefore(rows, next)
  BY <1>1, <1>2 DEF ListBefore, MovesOn
<1>3. ASSUME NEW c, CopyBefore(c, now) PROVE CopyBefore(c, next)
  BY <1>1, <1>3 DEF CopyBefore, MovesOn
<1>4. ASSUME NEW l, LoadBefore(l, now) PROVE LoadBefore(l, next)
  BY <1>2, <1>4 DEF LoadBefore
<1> QED BY <1>2, <1>3, <1>4

ServerType ==
  /\ version \in [Days -> Nat]
  /\ DOMAIN status = Days /\ DOMAIN span = Days
  /\ DOMAIN minutes = Days /\ DOMAIN proposal = Days

\* What the API takes keeps every row a sight of its day.
Advances == ServerType' /\ \A d \in Days : Before(Row(d), Row(d)')

LEMMA RowIs ==
  ASSUME NEW d
  PROVE  /\ Row(d).status = status[d] /\ Row(d).span = span[d]
         /\ Row(d).minutes = minutes[d] /\ Row(d).version = version[d]
         /\ Row(d).proposal = proposal[d]
BY DEF Row

LEMMA NothingHappens ==
  ASSUME ServerType, UNCHANGED <<status, span, minutes, version, proposal>>
  PROVE  Advances
<1>1. ASSUME NEW d \in Days PROVE Before(Row(d), Row(d)')
  <2>1. Row(d)' = Row(d) /\ Row(d).version \in Nat
    BY DEF Row, ServerType
  <2> QED BY <2>1, SMT DEF Before
<1> QED BY <1>1 DEF Advances, ServerType

\* A clock-in is of a day that is not there yet.
LEMMA ClockInAdvances ==
  ASSUME ServerType, ServeClockIn
  PROVE  Advances
<1>1. PICK t \in Entries : ClockIn(today, t) /\ UNCHANGED <<version, proposal, today>>
  BY DEF ServeClockIn
<1>2. ServerType'
  BY <1>1 DEF ServerType, ClockIn, CanClockIn, Becomes
<1>3. ASSUME NEW d \in Days PROVE Before(Row(d), Row(d)')
  <2>1. version'[d] = version[d] /\ version[d] \in Nat
    BY <1>1 DEF ServerType
  <2>2. CASE d = today
    <3>1. status[d] = "NONE"
      BY <1>1, <2>2 DEF ClockIn, CanClockIn, Becomes
    <3> QED BY <2>1, <3>1, SMT DEF Before, Row
  <2>3. CASE d # today
    <3>1. Row(d)' = Row(d)
      BY <1>1, <2>3 DEF ClockIn, CanClockIn, Becomes, Row, ServerType
    <3> QED BY <2>1, <3>1, SMT DEF Before, Row
  <2> QED BY <2>2, <2>3
<1> QED BY <1>2, <1>3 DEF Advances

\* Every other operation moves one day that is there, and its version with it.
LEMMA BumpAdvances ==
  ASSUME ServerType, NEW e \in Days, Bump(e), status[e] # "NONE",
         DOMAIN status' = Days, status'[e] # "NONE", DOMAIN span' = Days,
         DOMAIN minutes' = Days, DOMAIN proposal' = Days,
         \A d \in Days \ {e} : /\ status'[d] = status[d] /\ span'[d] = span[d]
                              /\ minutes'[d] = minutes[d] /\ proposal'[d] = proposal[d]
  PROVE  Advances
<1>1. version' = [version EXCEPT ![e] = version[e] + 1]
  BY DEF Bump
<1>2. version' \in [Days -> Nat]
  BY <1>1 DEF ServerType
<1>3. ASSUME NEW d \in Days PROVE Before(Row(d), Row(d)')
  <2>1. version[d] \in Nat /\ version'[d] \in Nat
    BY <1>2 DEF ServerType
  <2>2. CASE d = e
    <3>1. version'[d] = version[d] + 1
      BY <1>1, <2>2 DEF ServerType
    <3>2. version[d] <= version'[d] /\ version[d] # version'[d]
      BY <2>1, <3>1, SMT
    <3> QED BY <2>1, <2>2, <3>2 DEF Before, Row
  <2>3. CASE d # e
    <3>1. version'[d] = version[d]
      BY <1>1, <2>3 DEF ServerType
    <3>2. Row(d)' = Row(d)
      BY <2>3, <3>1 DEF Row
    <3>3. Row(d).version <= Row(d).version
      BY <2>1, SMT DEF Row
    <3> QED BY <2>1, <3>2, <3>3 DEF Before, Row
  <2> QED BY <2>2, <2>3
<1> QED BY <1>2, <1>3 DEF Advances, ServerType

LEMMA RequestsAdvance ==
  ASSUME ServerType, NEW d \in Days, NEW v,
         \/ ServeClockOut(d) \/ ServeApprove(d, v) \/ ServeRequest(d, v)
         \/ ServeAccept(d, v) \/ ServeReject(d, v)
  PROVE  Advances
<1> USE DEF ServerType, Becomes, CanClockOut, CanApprove, CanDispute, CanCorrect,
            CanDismiss
<1>1. CASE ServeClockOut(d)
  <2> USE <1>1 DEF ServeClockOut, ClockOut
  <2>1. Bump(d) /\ status[d] # "NONE" /\ status'[d] # "NONE"
    OBVIOUS
  <2> QED BY <2>1, BumpAdvances
<1>2. CASE ServeApprove(d, v)
  <2> USE <1>2 DEF ServeApprove, Approve
  <2>1. Bump(d) /\ status[d] # "NONE" /\ status'[d] # "NONE"
    OBVIOUS
  <2> QED BY <2>1, BumpAdvances
<1>3. CASE ServeRequest(d, v)
  <2> USE <1>3 DEF ServeRequest, Dispute
  <2>1. Bump(d) /\ status[d] # "NONE" /\ status'[d] # "NONE"
    OBVIOUS
  <2> QED BY <2>1, BumpAdvances
<1>4. CASE ServeAccept(d, v)
  <2> USE <1>4 DEF ServeAccept, Correct
  <2>1. Bump(d) /\ status[d] # "NONE" /\ status'[d] # "NONE"
    OBVIOUS
  <2> QED BY <2>1, BumpAdvances
<1>5. CASE ServeReject(d, v)
  <2> USE <1>5 DEF ServeReject, Dismiss
  <2>1. Bump(d) /\ status[d] # "NONE" /\ status'[d] # "NONE"
    OBVIOUS
  <2> QED BY <2>1, BumpAdvances
<1> QED BY <1>1, <1>2, <1>3, <1>4, <1>5

LEMMA MonthsAdvance ==
  ASSUME ServerType, Midnight \/ \E m : ServeClose(m)
  PROVE  Advances
<1>1. UNCHANGED <<status, span, minutes, version, proposal>>
  BY DEF Midnight, ServeClose, Seal, ledger
<1> QED BY <1>1, NothingHappens

LEMMA ElsewhereAdvances ==
  ASSUME ServerType, Elsewhere
  PROVE  Advances
BY ClockInAdvances, RequestsAdvance, MonthsAdvance DEF Elsewhere

LEMMA ServerStays ==
  ASSUME ServerType, UNCHANGED server
  PROVE  Advances
BY NothingHappens DEF server, ledger

----------------------------------------------------------------------------
(* The panels *)

LoadsHold == DOMAIN loads = Slots
             /\ \A s \in Slots : loads[s] # None => LoadBefore(loads[s], Now)

FamilySees ==
  /\ LoadsHold
  /\ jornadas # None => ListBefore(jornadas, Now)
  /\ seleccionada # None => CopyBefore(seleccionada, Now)

WorkerSees ==
  /\ LoadsHold
  /\ historial # None => ListBefore(historial, Now)
  /\ corrigiendo # None => CopyBefore(corrigiendo, Now)

LEMMA NowIs == \A d \in Days : Now[d] = Row(d)
BY DEF Now

PeriodSees == mes \in Months /\ fecha \in Days

LEMMA AdvancesIs ==
  ASSUME ServerType, Advances
  PROVE  /\ ServerType'
         /\ MovesOn(Now, Now')
         /\ \A rows : ListBefore(rows, Now) => ListBefore(rows, Now')
         /\ \A c : CopyBefore(c, Now) => CopyBefore(c, Now')
         /\ \A l : LoadBefore(l, Now) => LoadBefore(l, Now')
<1>1. ServerType' /\ \A d \in Days : Before(Row(d), Row(d)')
  BY DEF Advances
<1>2. ASSUME NEW d \in Days PROVE Now[d] = Row(d) /\ (Now')[d] = Row(d)'
  BY DEF Now
<1>3. MovesOn(Now, Now')
  BY <1>1, <1>2 DEF MovesOn
<1> QED BY <1>1, <1>3, BeforeIsTransitive

LEMMA NowIsBefore ==
  ASSUME ServerType
  PROVE  MovesOn(Now, Now)
<1>1. ASSUME NEW d \in Days PROVE Before(Now[d], Now[d])
  <2>1. Now[d] = Row(d) /\ version[d] \in Nat
    BY NowIs DEF ServerType
  <2> QED BY <2>1, SMT DEF Before, Row
<1> QED BY <1>1 DEF MovesOn

\* Whatever the limit, a list is of days that are there.
LEMMA RowsAreBefore ==
  ASSUME ServerType, NEW limit
  PROVE  ListBefore(Rows(limit), Now)
<1>1. /\ DOMAIN Rows(limit) = NewestDays(limit)
      /\ \A d \in NewestDays(limit) : Rows(limit)[d] = Row(d)
  BY DEF Rows
<1>2. \A d \in NewestDays(limit) : d \in Days /\ status[d] # "NONE"
  BY DEF NewestDays, Workdays
<1>3. \A d \in Days : Before(Row(d), Now[d])
  BY NowIsBefore, NowIs DEF MovesOn
<1> QED BY <1>1, <1>2, <1>3, RowIs DEF ListBefore

\* A copy with the version of its day is the day.
LEMMA SameVersionIsCurrent ==
  ASSUME ServerType, NEW c, CopyBefore(c, Now), Expected(c.day, c.row.version)
  PROVE  c.row = Row(c.day)
BY DEF CopyBefore, Before, Expected, Now, Row

\* The loads after a step of the panel
LEMMA LoadStarts ==
  ASSUME LoadsHold, NEW s \in Slots, NEW ask, loads' = Started(s, ask),
         MovesOn(Now, Now')
  PROVE  LoadsHold'
<1>1. DOMAIN loads' = Slots /\ \A u \in Slots : loads'[u] = IF u = s THEN Waiting(ask) ELSE loads[u]
  BY DEF LoadsHold, Started
<1>2. LoadBefore(Waiting(ask), Now')
  BY DEF Waiting, LoadBefore
<1>3. \A l : LoadBefore(l, Now) => LoadBefore(l, Now')
  BY BeforeIsTransitive
<1> QED BY <1>1, <1>2, <1>3 DEF LoadsHold

LEMMA LoadEnds ==
  ASSUME LoadsHold, NEW s \in Slots, NEW l, loads' = [loads EXCEPT ![s] = l],
         MovesOn(Now, Now'), l # None => LoadBefore(l, Now')
  PROVE  LoadsHold'
<1>1. DOMAIN loads' = Slots /\ \A u \in Slots : loads'[u] = IF u = s THEN l ELSE loads[u]
  BY DEF LoadsHold
<1>2. \A k : LoadBefore(k, Now) => LoadBefore(k, Now')
  BY BeforeIsTransitive
<1> QED BY <1>1, <1>2 DEF LoadsHold

LEMMA ReadHolds ==
  ASSUME ServerType, LoadsHold, NEW s \in Slots, NEW limit, Read(s, Rows(limit))
  PROVE  LoadsHold' /\ Now' = Now
<1> DEFINE answer == Rows(limit)
           l == [ask |-> loads[s].ask, answer |-> answer]
<1>1. /\ loads[s] # None /\ loads' = [loads EXCEPT ![s].answer = answer]
      /\ UNCHANGED <<status, span, minutes, version, proposal>>
  BY DEF Read, server, ledger
<1>2. Now' = Now
  BY <1>1 DEF Now, Row
<1>3. LoadBefore(loads[s], Now) /\ ListBefore(answer, Now)
  BY <1>1, RowsAreBefore DEF LoadsHold
<1> HIDE DEF answer
<1>4. loads' = [loads EXCEPT ![s] = l]
  <2>1. loads[s] = [ask |-> loads[s].ask, answer |-> loads[s].answer]
    BY <1>3 DEF LoadBefore
  <2>2. [loads[s] EXCEPT !.answer = answer] = l
    BY <2>1
  <2> QED BY <1>1, <2>2
<1>5. LoadBefore(l, Now')
  <2>1. l.answer = answer /\ l = [ask |-> l.ask, answer |-> l.answer]
    OBVIOUS
  <2> HIDE DEF l
  <2> QED BY <1>2, <1>3, <2>1 DEF LoadBefore
<1>6. MovesOn(Now, Now')
  BY <1>2, NowIsBefore
<1> HIDE DEF l
<1> QED BY <1>2, <1>4, <1>5, <1>6, LoadEnds

LEMMA FailedLoadHolds ==
  ASSUME ServerType, LoadsHold, NEW s \in Slots, LoadFails(s)
  PROVE  LoadsHold' /\ Now' = Now
<1>1. Now' = Now /\ loads' = [loads EXCEPT ![s] = None]
  BY DEF LoadFails, server, ledger, Now, Row
<1>2. MovesOn(Now, Now')
  BY <1>1, NowIsBefore
<1> QED BY <1>1, <1>2, LoadEnds

LEMMA ListedIsBefore ==
  ASSUME NEW rows, ListBefore(rows, Now), NEW d \in DOMAIN rows
  PROVE  CopyBefore(Copy(d, rows[d]), Now)
BY DEF ListBefore, CopyBefore, Copy

LEMMA ArriveFamilyHolds ==
  ASSUME ServerType, FamilySees, NEW s \in Slots, ArriveFamily(s)
  PROVE  FamilySees' /\ Now' = Now
<1> DEFINE ask == loads[s].ask
           answer == loads[s].answer
<1>1. /\ Now' = Now /\ loads[s] # None /\ answer # None
      /\ jornadas' = answer /\ seleccionada' = Refreshed(ask, answer)
      /\ loads' = [loads EXCEPT ![s] = Renewed(ask, answer)]
  BY DEF ArriveFamily, Answered, server, ledger, Now, Row
<1>2. ListBefore(answer, Now)
  BY <1>1 DEF FamilySees, LoadsHold, LoadBefore
<1>3. MovesOn(Now, Now')
  BY <1>1, NowIsBefore
<1> HIDE DEF ask, answer
<1>4. LoadsHold'
  <2>1. Renewed(ask, answer) # None => LoadBefore(Renewed(ask, answer), Now')
    BY DEF Renewed, Waiting, LoadBefore
  <2> QED BY <1>1, <1>3, <2>1, LoadEnds DEF FamilySees
<1>5. seleccionada' # None => CopyBefore(seleccionada', Now')
  BY <1>1, <1>2, ListedIsBefore DEF Refreshed, FamilySees
<1> QED BY <1>1, <1>2, <1>4, <1>5 DEF FamilySees

LEMMA CopiesAreBefore ==
  ASSUME FamilySees, NEW c \in Copies
  PROVE  CopyBefore(c, Now)
<1>1. CASE c \in InList
  <2>1. PICK d \in Listed : c = Copy(d, jornadas[d])
    BY <1>1 DEF InList
  <2>2. jornadas # None /\ d \in DOMAIN jornadas
    BY DEF Listed
  <2> QED BY <2>1, <2>2, ListedIsBefore DEF FamilySees
<1>2. CASE c \notin InList
  BY <1>2 DEF Copies, FamilySees
<1> QED BY <1>1, <1>2

LEMMA FamilyGoesOn ==
  ASSUME ServerType, FamilySees, Advances, UNCHANGED <<jornadas, seleccionada>>,
         \/ UNCHANGED loads
         \/ \E s \in Slots : loads' = Started(s, Carried)
  PROVE  FamilySees'
<1>1. MovesOn(Now, Now')
  BY AdvancesIs
<1>2. LoadsHold'
  <2>1. CASE UNCHANGED loads
    BY <1>1, <2>1, BeforeIsTransitive DEF LoadsHold, FamilySees
  <2>2. CASE \E s \in Slots : loads' = Started(s, Carried)
    BY <1>1, <2>2, LoadStarts DEF FamilySees
  <2> QED BY <2>1, <2>2
<1> QED BY <1>1, <1>2, BeforeIsTransitive DEF FamilySees

LEMMA SentIsAsShown ==
  ASSUME ServerType, FamilySees, asShown = TRUE, NEW c \in Copies,
         \/ PressApprove(c) \/ PressResolve(c) \/ PressProposal(c)
  PROVE  ServerType' /\ FamilySees' /\ asShown' = TRUE
<1>1. CopyBefore(c, Now) /\ c.day \in Days
  BY CopiesAreBefore DEF CopyBefore
<1>2. /\ UNCHANGED <<jornadas, seleccionada>>
      /\ \E s \in Slots : loads' = Started(s, Carried)
  BY DEF PressApprove, PressResolve, PressProposal, Press, ThenLoad, Free
<1>3. \/ UNCHANGED <<server, asShown>>
      \/ /\ asShown' = (asShown /\ Current(c))
         /\ \/ ServeApprove(c.day, c.row.version) \/ ServeRequest(c.day, c.row.version)
            \/ ServeAccept(c.day, c.row.version) \/ ServeReject(c.day, c.row.version)
  BY DEF PressApprove, PressResolve, PressProposal, Press, Send
<1>4. CASE UNCHANGED <<server, asShown>>
  BY <1>2, <1>4, ServerStays, AdvancesIs, FamilyGoesOn
<1>5. CASE /\ asShown' = (asShown /\ Current(c))
           /\ \/ ServeApprove(c.day, c.row.version) \/ ServeRequest(c.day, c.row.version)
              \/ ServeAccept(c.day, c.row.version) \/ ServeReject(c.day, c.row.version)
  <2>1. Advances
    BY <1>1, <1>5, RequestsAdvance
  <2>2. Expected(c.day, c.row.version)
    BY <1>5 DEF ServeApprove, ServeRequest, ServeAccept, ServeReject
  <2>3. Current(c)
    BY <1>1, <2>2, SameVersionIsCurrent DEF Current
  <2> QED BY <1>2, <1>5, <2>1, <2>3, AdvancesIs, FamilyGoesOn
<1> QED BY <1>3, <1>4, <1>5

LEMMA FamilyStep ==
  ASSUME ServerType, FamilySees, asShown = TRUE, FamilyNext
  PROVE  ServerType' /\ FamilySees' /\ asShown' = TRUE
<1>1. ASSUME NEW s \in Slots, ArriveFamily(s)
      PROVE  ServerType' /\ FamilySees' /\ asShown' = TRUE
  <2>1. UNCHANGED <<server, asShown>>
    BY <1>1 DEF ArriveFamily
  <2> QED BY <1>1, <2>1, ArriveFamilyHolds, ServerStays, AdvancesIs
<1>2. ASSUME NEW s \in Slots, Read(s, Rows(FamilyLimit)) \/ LoadFails(s), UNCHANGED familyVars
      PROVE  ServerType' /\ FamilySees' /\ asShown' = TRUE
  <2>1. UNCHANGED <<server, asShown, jornadas, seleccionada>>
    BY <1>2 DEF Read, LoadFails, familyVars
  <2>2. LoadsHold' /\ Now' = Now
    BY <1>2, ReadHolds, FailedLoadHolds DEF FamilySees
  <2> QED BY <2>1, <2>2, ServerStays, AdvancesIs DEF FamilySees
<1>3. ASSUME NEW d \in Days, Select(d)
      PROVE  ServerType' /\ FamilySees' /\ asShown' = TRUE
  <2>1. /\ UNCHANGED <<server, asShown, jornadas>>
        /\ jornadas # None /\ d \in DOMAIN jornadas
        /\ seleccionada' = Copy(d, jornadas[d])
        /\ \E s \in Slots : loads' = Started(s, d)
    BY <1>3 DEF Select, Listed, Start, Free
  <2>2. Now' = Now
    BY <2>1 DEF server, ledger, Now, Row
  <2>3. CopyBefore(Copy(d, jornadas[d]), Now)
    BY <2>1, ListedIsBefore DEF FamilySees
  <2>4. LoadsHold'
    BY <2>1, <2>2, NowIsBefore, LoadStarts DEF FamilySees
  <2> QED BY <2>1, <2>2, <2>3, <2>4, ServerStays, AdvancesIs DEF FamilySees
<1>4. CASE CloseDetail
  <2>1. /\ UNCHANGED <<server, asShown, jornadas>> /\ seleccionada' = None
        /\ \E s \in Slots : loads' = Started(s, None)
    BY <1>4 DEF CloseDetail, Start, Free
  <2>2. Now' = Now
    BY <2>1 DEF server, ledger, Now, Row
  <2>3. LoadsHold'
    BY <2>1, <2>2, NowIsBefore, LoadStarts DEF FamilySees
  <2> QED BY <2>1, <2>2, <2>3, ServerStays, AdvancesIs DEF FamilySees
<1>5. ASSUME NEW c \in Copies, PressApprove(c) \/ PressResolve(c) \/ PressProposal(c)
      PROVE  ServerType' /\ FamilySees' /\ asShown' = TRUE
  BY <1>5, SentIsAsShown
<1>6. CASE CancelProposal \/ \E c \in Copies : OpenProposal(c)
  <2>1. UNCHANGED <<server, loads, asShown, jornadas, seleccionada>>
    BY <1>6 DEF CancelProposal, OpenProposal, page, requests
  <2> QED BY <2>1, ServerStays, AdvancesIs, FamilyGoesOn
<1>7. CASE Elsewhere /\ UNCHANGED familyVars
  <2>1. UNCHANGED <<loads, asShown, jornadas, seleccionada>>
    BY <1>7 DEF Elsewhere, requests, familyVars
  <2> QED BY <1>7, <2>1, ElsewhereAdvances, AdvancesIs, FamilyGoesOn
<1> QED BY <1>1, <1>2, <1>3, <1>4, <1>5, <1>6, <1>7 DEF FamilyNext

LEMMA ShownDays ==
  ASSUME WorkerSees
  PROVE  Past \subseteq Days
BY DEF WorkerSees, Past, ListBefore

LEMMA WorkerGoesOn ==
  ASSUME ServerType, WorkerSees, Advances, UNCHANGED historial,
         corrigiendo' \in {corrigiendo, None},
         \/ UNCHANGED loads
         \/ \E s \in Slots : loads' = Started(s, None)
  PROVE  WorkerSees'
<1>1. MovesOn(Now, Now')
  BY AdvancesIs
<1>2. LoadsHold'
  <2>1. CASE UNCHANGED loads
    BY <1>1, <2>1, BeforeIsTransitive DEF LoadsHold, WorkerSees
  <2>2. CASE \E s \in Slots : loads' = Started(s, None)
    BY <1>1, <2>2, LoadStarts DEF WorkerSees
  <2> QED BY <2>1, <2>2
<1> QED BY <1>1, <1>2, BeforeIsTransitive DEF WorkerSees

LEMMA ClockHolds ==
  ASSUME ServerType, WorkerSees, asShown = TRUE, PressClockIn \/ PressClockOut
  PROVE  ServerType' /\ WorkerSees' /\ asShown' = TRUE
<1>1. /\ UNCHANGED <<historial, corrigiendo>>
      /\ UNCHANGED loads \/ \E s \in Slots : loads' = Started(s, None)
  BY DEF PressClockIn, PressClockOut, Clock, ThenLoad, Free
<1>2. asShown' = TRUE
  BY DEF PressClockIn, PressClockOut, Clock, Send
<1>3. \/ UNCHANGED server \/ ServeClockIn
      \/ \E d \in OffersClockOut : ServeClockOut(d)
  BY DEF PressClockIn, PressClockOut, Clock, Send
<1>4. OffersClockOut \subseteq Days
  BY ShownDays DEF OffersClockOut, OpenOnes
<1>5. Advances
  BY <1>3, <1>4, ServerStays, ClockInAdvances, RequestsAdvance
<1> QED BY <1>1, <1>2, <1>5, AdvancesIs, WorkerGoesOn

LEMMA WorkerStep ==
  ASSUME ServerType, WorkerSees, asShown = TRUE, WorkerNext
  PROVE  ServerType' /\ WorkerSees' /\ asShown' = TRUE
<1>1. ASSUME NEW s \in Slots, ArriveWorker(s)
      PROVE  ServerType' /\ WorkerSees' /\ asShown' = TRUE
  <2>1. /\ UNCHANGED <<server, asShown, corrigiendo>> /\ historial' = loads[s].answer
        /\ loads[s] # None /\ loads[s].answer # None
        /\ loads' = [loads EXCEPT ![s] = None]
    BY <1>1 DEF ArriveWorker, Answered
  <2>2. Now' = Now
    BY <2>1 DEF server, ledger, Now, Row
  <2>3. ListBefore(loads[s].answer, Now)
    BY <2>1 DEF WorkerSees, LoadsHold, LoadBefore
  <2>4. LoadsHold'
    BY <2>1, <2>2, NowIsBefore, LoadEnds DEF WorkerSees
  <2> QED BY <2>1, <2>2, <2>3, <2>4, ServerStays, AdvancesIs DEF WorkerSees
<1>2. ASSUME NEW s \in Slots,
             \/ Read(s, Rows(WorkerLimit)) /\ UNCHANGED workerVars
             \/ WorkerLoadFails(s)
      PROVE  ServerType' /\ WorkerSees' /\ asShown' = TRUE
  <2>1. UNCHANGED <<server, asShown, historial, corrigiendo>>
    BY <1>2 DEF Read, WorkerLoadFails, LoadFails, workerVars
  <2>2. LoadsHold' /\ Now' = Now
    BY <1>2, ReadHolds, FailedLoadHolds DEF WorkerSees, WorkerLoadFails
  <2> QED BY <2>1, <2>2, ServerStays, AdvancesIs DEF WorkerSees
<1>3. CASE PressClockIn \/ PressClockOut
  BY <1>3, ClockHolds
<1>4. CASE PressSend
  <2>1. /\ UNCHANGED historial /\ corrigiendo # None
        /\ corrigiendo' \in {corrigiendo, None}
        /\ \E s \in Slots : loads' = Started(s, None)
    BY <1>4 DEF PressSend, ThenLoad, Free
  <2>2. CopyBefore(corrigiendo, Now)
    BY <2>1 DEF WorkerSees
  <2>3. \/ UNCHANGED <<server, asShown>>
        \/ /\ ServeRequest(corrigiendo.day, corrigiendo.row.version)
           /\ asShown' = (asShown /\ corrigiendo.row = Row(corrigiendo.day))
    BY <1>4 DEF PressSend, Send
  <2>4. CASE UNCHANGED <<server, asShown>>
    BY <2>1, <2>4, ServerStays, AdvancesIs, WorkerGoesOn
  <2>5. CASE /\ ServeRequest(corrigiendo.day, corrigiendo.row.version)
             /\ asShown' = (asShown /\ corrigiendo.row = Row(corrigiendo.day))
    <3>1. Advances
      BY <2>2, <2>5, RequestsAdvance DEF CopyBefore
    <3>2. corrigiendo.row = Row(corrigiendo.day)
      BY <2>2, <2>5, SameVersionIsCurrent DEF ServeRequest
    <3> QED BY <2>1, <2>5, <3>1, <3>2, AdvancesIs, WorkerGoesOn
  <2> QED BY <2>3, <2>4, <2>5
<1>5. CASE CloseForm
  <2>1. UNCHANGED <<server, loads, asShown, historial>> /\ corrigiendo' = None
    BY <1>5 DEF CloseForm, page, requests
  <2> QED BY <2>1, ServerStays, AdvancesIs, WorkerGoesOn
<1>6. ASSUME NEW d \in Days, OpenForm(d)
      PROVE  ServerType' /\ WorkerSees' /\ asShown' = TRUE
  <2>1. /\ UNCHANGED <<server, loads, asShown, historial>>
        /\ historial # None /\ d \in DOMAIN historial
        /\ corrigiendo' = Copy(d, historial[d])
    BY <1>6 DEF OpenForm, OffersForm, Past, page, requests
  <2>2. Now' = Now
    BY <2>1 DEF server, ledger, Now, Row
  <2>3. CopyBefore(Copy(d, historial[d]), Now)
    BY <2>1, ListedIsBefore DEF WorkerSees
  <2>4. LoadsHold'
    BY <2>1, <2>2 DEF WorkerSees, LoadsHold
  <2> QED BY <2>1, <2>2, <2>3, <2>4, ServerStays, AdvancesIs DEF WorkerSees
<1>7. CASE Elsewhere /\ UNCHANGED workerVars
  <2>1. UNCHANGED <<loads, asShown, historial, corrigiendo>>
    BY <1>7 DEF Elsewhere, requests, workerVars
  <2> QED BY <1>7, <2>1, ElsewhereAdvances, AdvancesIs, WorkerGoesOn
<1> QED BY <1>1, <1>2, <1>3, <1>4, <1>5, <1>6, <1>7 DEF WorkerNext

----------------------------------------------------------------------------
(* The screens *)

ScreensInv ==
  /\ ProfilesInv
  /\ ServerType
  /\ asShown = TRUE
  /\ panel = "family" => FamilySees
  /\ panel = "worker" => WorkerSees
  /\ panel = "period" => PeriodSees

\* What the days do is not the profile's, and the other way round.
LEMMA ProfilesApart ==
  ASSUME ProfilesInv, UNCHANGED profileVars
  PROVE  ProfilesInv'
BY ProfilesStep

LEMMA ScreensStart == ScreensInit => ScreensInv
<1> SUFFICES ASSUME ScreensInit PROVE ScreensInv
  OBVIOUS
<1>1. ProfilesInv /\ asShown = TRUE
  BY ProfilesStart DEF ScreensInit, PageInit
<1>2. ServerType
  BY DEF ScreensInit, PageInit, Init, ServerType
<1>3. ASSUME FamilyInit \/ WorkerInit PROVE LoadsHold
  <2>1. loads = [s \in Slots |-> IF s = 1 THEN Waiting(None) ELSE None]
    BY <1>3 DEF FamilyInit, WorkerInit
  <2>2. LoadBefore(Waiting(None), Now)
    BY DEF LoadBefore, Waiting
  <2> QED BY <2>1, <2>2 DEF LoadsHold
<1>4. CASE panel = "family"
  <2>1. FamilyInit
    BY <1>4 DEF ScreensInit
  <2> QED BY <1>1, <1>2, <1>3, <1>4, <2>1 DEF ScreensInv, FamilySees, FamilyInit
<1>5. CASE panel = "worker"
  <2>1. WorkerInit
    BY <1>5 DEF ScreensInit
  <2> QED BY <1>1, <1>2, <1>3, <1>5, <2>1 DEF ScreensInv, WorkerSees, WorkerInit
<1>6. CASE panel = "period"
  <2>1. PeriodPanelInit
    BY <1>6 DEF ScreensInit
  <2>2. fecha \in Days /\ mes = MonthOf[fecha]
    BY <2>1 DEF PeriodPanelInit, Nearby
  <2>3. PeriodSees
    BY <2>2, DatesAssumption DEF PeriodSees
  <2> QED BY <1>1, <1>2, <1>6, <2>3 DEF ScreensInv
<1> QED BY <1>1, <1>2, <1>4, <1>5, <1>6 DEF ScreensInv

LEMMA PeriodStep ==
  ASSUME ServerType, PeriodSees, asShown = TRUE, PeriodPanelNext
  PROVE  ServerType' /\ PeriodSees' /\ asShown' = TRUE
<1>1. \/ UNCHANGED server \/ Elsewhere \/ \E m : ServeClose(m)
  BY DEF PeriodPanelNext, ArrivePeriod, Read, PeriodLoadFails, LoadFails, ChangeMonth, OpenDialog,
         CancelDialog, PressConfirm, Send, ServeConfirm, page
<1>2. asShown' = TRUE
  BY DEF PeriodPanelNext, ArrivePeriod, Read, PeriodLoadFails, LoadFails, ChangeMonth, OpenDialog,
         CancelDialog, PressConfirm, Send, Elsewhere, page
<1>3. mes' \in Months /\ fecha' \in Days
  <2>1. Rendered => fecha' \in Days
    BY DEF Rendered, Nearby
  <2> QED BY <2>1 DEF PeriodSees, PeriodPanelNext, ArrivePeriod, PeriodLoadFails, ChangeMonth,
             OpenDialog, CancelDialog, PressConfirm, periodVars
<1>4. PeriodSees'
  BY <1>3 DEF PeriodSees
<1> QED BY <1>1, <1>2, <1>4, ServerStays, ElsewhereAdvances, MonthsAdvance, AdvancesIs

LEMMA ScreensStep == ScreensInv /\ [ScreensNext]_screens => ScreensInv'
<1> SUFFICES ASSUME ScreensInv, [ScreensNext]_screens PROVE ScreensInv'
  OBVIOUS
<1>1. CASE panel = "family" /\ FamilyNext /\ But(<<workerVars, periodVars, profileVars>>)
  <2>1. UNCHANGED <<panel, profileVars>>
    BY <1>1 DEF But
  <2> QED BY <1>1, <2>1, FamilyStep, ProfilesApart DEF ScreensInv
<1>2. CASE panel = "worker" /\ WorkerNext /\ But(<<familyVars, periodVars, profileVars>>)
  <2>1. UNCHANGED <<panel, profileVars>>
    BY <1>2 DEF But
  <2> QED BY <1>2, <2>1, WorkerStep, ProfilesApart DEF ScreensInv
<1>3. CASE panel = "period" /\ PeriodPanelNext /\ But(<<familyVars, workerVars, profileVars>>)
  <2>1. UNCHANGED <<panel, profileVars>>
    BY <1>3 DEF But
  <2> QED BY <1>3, <2>1, PeriodStep, ProfilesApart DEF ScreensInv
<1>4. CASE /\ panel = "profile" /\ ProfilesNext
           /\ But(<<page, familyVars, workerVars, periodVars>>)
  <2>1. UNCHANGED <<panel, server, asShown>>
    BY <1>4 DEF But, page
  <2> QED BY <1>4, <2>1, ProfilesStep, ServerStays, AdvancesIs DEF ScreensInv
<1>5. CASE UNCHANGED screens
  <2>1. UNCHANGED <<panel, profileVars, server, loads, asShown, jornadas, seleccionada,
                    historial, corrigiendo, mes, fecha>>
    BY <1>5 DEF screens, page, requests, familyVars, workerVars, periodVars
  <2>2. ServerType' /\ Advances
    BY <2>1, ServerStays, AdvancesIs DEF ScreensInv
  <2>3. panel = "family" => FamilySees'
    BY <2>1, <2>2, FamilyGoesOn DEF ScreensInv
  <2>4. panel = "worker" => WorkerSees'
    BY <2>1, <2>2, WorkerGoesOn DEF ScreensInv
  <2>5. panel = "period" => PeriodSees'
    BY <2>1 DEF ScreensInv, PeriodSees
  <2> QED BY <2>1, <2>2, <2>3, <2>4, <2>5, ProfilesApart DEF ScreensInv
<1> QED BY <1>1, <1>2, <1>3, <1>4, <1>5 DEF ScreensNext

\* The invariant of the screens: every row on a screen or on its way to one is an
\* earlier sight of its day, and a token lacks only what has not been answered.
THEOREM ScreensInvariant == ScreensSpec => []ScreensInv
BY ScreensStart, ScreensStep, PTL DEF ScreensSpec

\* Whatever the loads, the other devices and the order of the answers, an approval,
\* a correction requested or resolved that the API takes was pressed on a copy equal,
\* in everything it shows, to the day it acts on.
THEOREM PressedIsShown == ScreensSpec => []ActsOnWhatItShows
<1>1. ScreensInv => ActsOnWhatItShows
  BY DEF ScreensInv, ActsOnWhatItShows
<1> QED BY <1>1, ScreensInvariant, PTL

\* The API admits every role a page shows, but for the exceptions it names, for any
\* number of tabs and roles.
THEOREM RolesShownWork == ScreensSpec => []ShownRolesWork
<1>1. ScreensInv => ShownRolesWork
  BY RolesWork DEF ScreensInv
<1> QED BY <1>1, ScreensInvariant, PTL

----------------------------------------------------------------------------
(* Fresh buttons. *)

\* What the API keeps true of the days: none is in the future, hours go with the status, only a disputed day
\* has a proposal, which runs forward, and a closed month is over and has only
\* approved days.
DaysHold ==
  /\ today \in Days
  /\ DOMAIN sealed = Months
  /\ \A d \in Days :
       /\ status[d] \in {"NONE", "OPEN", "PENDING_APPROVAL", "DISPUTED", "APPROVED"}
       /\ span[d] = Span(span[d].in, span[d].out)
       /\ status[d] # "NONE" => d <= today
       /\ status[d] # "NONE" => span[d].in # {}
       /\ status[d] \in {"PENDING_APPROVAL", "APPROVED"} => span[d].out # {}
       /\ proposal[d] # {} => status[d] = "DISPUTED"
       /\ \A p \in proposal[d] : p.in \in Instants /\ p.out \in Instants /\ p.in < p.out
       /\ ~Open(MonthOf[d]) => status[d] \in {"NONE", "APPROVED"} /\ MonthOf[d] < MonthOf[today]

\* The operations a step of the screens may be.
Operation ==
  \/ UNCHANGED server
  \/ Midnight
  \/ ServeClockIn
  \/ \E d \in Days : \/ ServeClockOut(d)
                     \/ \E v : \/ ServeApprove(d, v) \/ ServeRequest(d, v)
                               \/ ServeAccept(d, v) \/ ServeReject(d, v)
  \/ \E m : ServeClose(m)

LEMMA StepsAreOperations ==
  ASSUME ScreensInv, [ScreensNext]_screens
  PROVE  Operation
<1> USE DEF Operation
<1>1. ASSUME Elsewhere PROVE Operation
  BY <1>1 DEF Elsewhere
<1>2. CASE panel = "family" /\ FamilyNext
  <2>1. ASSUME NEW c \in Copies PROVE c.day \in Days
    BY <1>2, CopiesAreBefore DEF ScreensInv, CopyBefore
  <2>2. ASSUME NEW c \in Copies, PressApprove(c) \/ PressResolve(c) \/ PressProposal(c)
        PROVE  Operation
    BY <2>1, <2>2 DEF PressApprove, PressResolve, PressProposal, Press, Send
  <2> QED BY <1>1, <1>2, <2>2 DEF FamilyNext, ArriveFamily, Read, LoadFails, Select, CloseDetail,
                                  OpenProposal, CancelProposal, page
<1>3. CASE panel = "worker" /\ WorkerNext
  <2>1. OffersClockOut \subseteq Days
    BY <1>3, ShownDays DEF ScreensInv, OffersClockOut, OpenOnes
  <2>2. CASE PressClockIn \/ PressClockOut
    BY <2>1, <2>2 DEF PressClockIn, PressClockOut, Clock, Send
  <2>3. CASE PressSend
    BY <1>3, <2>3 DEF PressSend, Send, ScreensInv, WorkerSees, CopyBefore
  <2> QED BY <1>1, <1>3, <2>2, <2>3 DEF WorkerNext, ArriveWorker, Read, WorkerLoadFails,
                                        LoadFails, OpenForm, CloseForm, page
<1>4. CASE panel = "period" /\ PeriodPanelNext
  BY <1>1, <1>4 DEF PeriodPanelNext, ArrivePeriod, Read, PeriodLoadFails, LoadFails, ChangeMonth,
                    OpenDialog, CancelDialog, PressConfirm, Send, ServeConfirm, page
<1>5. CASE UNCHANGED page
  BY <1>5 DEF page
<1> QED BY <1>2, <1>3, <1>4, <1>5 DEF ScreensNext, But, screens

LEMMA DaysStart == ScreensInit => DaysHold
<1> SUFFICES ASSUME ScreensInit PROVE DaysHold
  OBVIOUS
<1>1. PageInit /\ Init
  BY DEF ScreensInit, PageInit
<1>2. today \in Days
  BY <1>1, DatesAssumption DEF PageInit
<1>3. ASSUME NEW d \in Days
      PROVE  /\ status[d] = "NONE" /\ span[d] = Span({}, {}) /\ proposal[d] = {}
             /\ Open(MonthOf[d])
  BY <1>1, DatesAssumption DEF PageInit, Init, Open
<1> QED BY <1>1, <1>2, <1>3 DEF DaysHold, Init, Span

\* One day moves, in an open month.
LEMMA OneDayMoves ==
  ASSUME DaysHold, NEW e \in Days, e <= today, Open(MonthOf[e]), UNCHANGED <<sealed, today>>,
         \A d \in Days \ {e} : /\ status'[d] = status[d] /\ span'[d] = span[d]
                              /\ proposal'[d] = proposal[d],
         status'[e] \in {"OPEN", "PENDING_APPROVAL", "DISPUTED", "APPROVED"},
         span'[e] = Span(span'[e].in, span'[e].out), span'[e].in # {},
         status'[e] \in {"PENDING_APPROVAL", "APPROVED"} => span'[e].out # {},
         proposal'[e] # {} => status'[e] = "DISPUTED",
         \A p \in proposal'[e] : p.in \in Instants /\ p.out \in Instants /\ p.in < p.out
  PROVE  DaysHold'
<1>1. ASSUME NEW d \in Days, d # e
      PROVE  /\ status'[d] = status[d] /\ span'[d] = span[d] /\ proposal'[d] = proposal[d]
             /\ Open(MonthOf[d])' = Open(MonthOf[d])
  BY <1>1 DEF Open
<1>2. Open(MonthOf[e])'
  BY DEF Open
<1> QED BY <1>1, <1>2 DEF DaysHold

LEMMA DaysThere ==
  ASSUME DaysHold
  PROVE  \A d \in Days : status[d] # "NONE" => d <= today
BY DEF DaysHold

LEMMA DaysStep ==
  ASSUME DaysHold, ServerType, Operation
  PROVE  DaysHold'
<1>1. CASE UNCHANGED server
  <2>1. UNCHANGED <<status, span, sealed, proposal, today>>
    BY <1>1 DEF server, ledger
  <2> QED BY <2>1 DEF DaysHold, Open
<1>2. CASE Midnight
  <2>1. /\ UNCHANGED <<status, span, sealed, proposal>>
        /\ today' \in Days /\ today' = today + 1
    BY <1>2 DEF Midnight, ledger
  <2>2. MonthOf[today] <= MonthOf[today']
    <3>1. today \in Days /\ today \in Int /\ today <= today + 1
      BY DatesAssumption DEF DaysHold
    <3> QED BY <2>1, <3>1, DatesAssumption
  <2>3. \A d \in Days : MonthOf[d] < MonthOf[today] => MonthOf[d] < MonthOf[today']
    <3>1. ASSUME NEW d \in Days
          PROVE  MonthOf[d] \in Int /\ MonthOf[today] \in Int /\ MonthOf[today'] \in Int
      BY <2>1, DatesAssumption DEF DaysHold
    <3> QED BY <2>2, <3>1
  <2>4. \A d \in Days : d <= today => d <= today'
    <3>1. \A d \in Days : d \in Int /\ today \in Int
      BY DatesAssumption DEF DaysHold
    <3> QED BY <2>1, <3>1
  <2> QED BY <2>1, <2>3, <2>4 DEF DaysHold, Open
<1>3. CASE ServeClockIn
  <2>1. PICK t \in Entries : ClockIn(today, t) /\ UNCHANGED <<version, proposal, today>>
    BY <1>3 DEF ServeClockIn
  <2>2. /\ Open(MonthOf[today]) /\ status[today] = "NONE" /\ today \in Days
        /\ status' = [status EXCEPT ![today] = "OPEN"]
        /\ span' = [span EXCEPT ![today] = Span({t}, {})]
        /\ UNCHANGED <<sealed, proposal, today>>
    BY <2>1 DEF ClockIn, CanClockIn, Becomes, DaysHold
  <2>3. /\ status'[today] = "OPEN" /\ span'[today] = Span({t}, {}) /\ proposal'[today] = {}
        /\ \A d \in Days \ {today} : /\ status'[d] = status[d] /\ span'[d] = span[d]
                                     /\ proposal'[d] = proposal[d]
    BY <2>2 DEF ServerType, DaysHold
  <2>4. /\ span'[today] = Span(span'[today].in, span'[today].out)
        /\ span'[today].in # {}
    BY <2>3 DEF Span
  <2>5. today <= today
    BY <2>2, DatesAssumption
  <2> QED BY <2>2, <2>3, <2>4, <2>5, OneDayMoves
<1>4. ASSUME NEW e \in Days, ServeClockOut(e) PROVE DaysHold'
  <2>1. PICK t \in Exits : ClockOut(e, t)
    BY <1>4 DEF ServeClockOut
  <2>2. /\ Open(MonthOf[e]) /\ status[e] = "OPEN"
        /\ status' = [status EXCEPT ![e] = "PENDING_APPROVAL"]
        /\ span' = [span EXCEPT ![e].out = {t}]
        /\ UNCHANGED <<sealed, proposal, today>>
    BY <1>4, <2>1 DEF ServeClockOut, Bump, ClockOut, CanClockOut, Becomes
  <2>3. /\ status'[e] = "PENDING_APPROVAL" /\ span'[e] = Span(span[e].in, {t})
        /\ proposal'[e] = {} /\ span[e].in # {}
        /\ \A d \in Days \ {e} : /\ status'[d] = status[d] /\ span'[d] = span[d]
                                 /\ proposal'[d] = proposal[d]
    <3>1. /\ span[e] = Span(span[e].in, span[e].out)
          /\ span'[e] = [span[e] EXCEPT !.out = {t}]
      BY <2>2 DEF ServerType, DaysHold
    <3>2. \A in, out, new : [Span(in, out) EXCEPT !.out = new] = Span(in, new)
      BY DEF Span
    <3>3. [Span(span[e].in, span[e].out) EXCEPT !.out = {t}] = Span(span[e].in, {t})
      BY <3>2
    <3>4. span'[e] = Span(span[e].in, {t})
      BY <3>1, <3>3
    <3> QED BY <2>2, <3>4 DEF ServerType, DaysHold
  <2>4. /\ span'[e] = Span(span'[e].in, span'[e].out)
        /\ span'[e].in # {} /\ span'[e].out # {}
    BY <2>3 DEF Span
  <2> QED BY DaysThere, <2>2, <2>3, <2>4, OneDayMoves
<1>5. ASSUME NEW e \in Days, NEW v, ServeApprove(e, v) PROVE DaysHold'
  <2>1. /\ Open(MonthOf[e]) /\ status[e] = "PENDING_APPROVAL"
        /\ status' = [status EXCEPT ![e] = "APPROVED"]
        /\ UNCHANGED <<span, sealed, proposal, today>>
    BY <1>5 DEF ServeApprove, Bump, Approve, CanApprove, Becomes
  <2>2. /\ status'[e] = "APPROVED" /\ proposal'[e] = {}
        /\ \A d \in Days \ {e} : status'[d] = status[d]
        /\ span[e] = Span(span[e].in, span[e].out) /\ span[e].in # {} /\ span[e].out # {}
    BY <2>1 DEF ServerType, DaysHold
  <2> QED BY DaysThere, <2>1, <2>2, OneDayMoves
<1>6. ASSUME NEW e \in Days, NEW v, ServeRequest(e, v) PROVE DaysHold'
  <2>1. PICK i \in Instants, o \in Instants :
          i < o /\ proposal' = [proposal EXCEPT ![e] = {[in |-> i, out |-> o]}]
    BY <1>6 DEF ServeRequest
  <2>2. /\ Open(MonthOf[e]) /\ status[e] # "NONE"
        /\ status' = [status EXCEPT ![e] = "DISPUTED"]
        /\ UNCHANGED <<span, sealed, today>>
    BY <1>6 DEF ServeRequest, Bump, Dispute, CanDispute, Becomes
  <2>3. /\ status'[e] = "DISPUTED" /\ proposal'[e] = {[in |-> i, out |-> o]}
        /\ \A d \in Days \ {e} : status'[d] = status[d] /\ proposal'[d] = proposal[d]
        /\ span[e] = Span(span[e].in, span[e].out) /\ span[e].in # {}
    BY <2>1, <2>2 DEF ServerType, DaysHold
  <2> QED BY DaysThere, <2>1, <2>2, <2>3, OneDayMoves
<1>7. ASSUME NEW e \in Days, NEW v, ServeAccept(e, v) PROVE DaysHold'
  <2>1. PICK p \in proposal[e] : Correct(e, p.in, p.out)
    BY <1>7 DEF ServeAccept
  <2>2. /\ Open(MonthOf[e]) /\ status[e] = "DISPUTED"
        /\ status' = [status EXCEPT ![e] = "APPROVED"]
        /\ span' = [span EXCEPT ![e] = Span({p.in}, {p.out})]
        /\ proposal' = [proposal EXCEPT ![e] = {}]
        /\ UNCHANGED <<sealed, today>>
    BY <1>7, <2>1 DEF ServeAccept, Bump, Correct, CanCorrect, Becomes
  <2>3. /\ status'[e] = "APPROVED" /\ span'[e] = Span({p.in}, {p.out}) /\ proposal'[e] = {}
        /\ \A d \in Days \ {e} : /\ status'[d] = status[d] /\ span'[d] = span[d]
                                 /\ proposal'[d] = proposal[d]
    BY <2>2 DEF ServerType
  <2>4. /\ span'[e] = Span(span'[e].in, span'[e].out)
        /\ span'[e].in # {} /\ span'[e].out # {}
    BY <2>3 DEF Span
  <2> QED BY DaysThere, <2>2, <2>3, <2>4, OneDayMoves
<1>8. ASSUME NEW e \in Days, NEW v, ServeReject(e, v) PROVE DaysHold'
  <2>1. /\ Open(MonthOf[e]) /\ status[e] = "DISPUTED"
        /\ status' = [status EXCEPT ![e] = IF span[e].out = {} THEN "OPEN"
                                           ELSE "PENDING_APPROVAL"]
        /\ proposal' = [proposal EXCEPT ![e] = {}]
        /\ UNCHANGED <<span, sealed, today>>
    BY <1>8 DEF ServeReject, Bump, Dismiss, CanDismiss, Becomes
  <2>2. /\ status'[e] = IF span[e].out = {} THEN "OPEN" ELSE "PENDING_APPROVAL"
        /\ proposal'[e] = {}
        /\ \A d \in Days \ {e} : status'[d] = status[d] /\ proposal'[d] = proposal[d]
        /\ span[e] = Span(span[e].in, span[e].out) /\ span[e].in # {}
    BY <2>1 DEF ServerType, DaysHold
  <2> QED BY DaysThere, <2>1, <2>2, OneDayMoves
<1>9. ASSUME NEW m, ServeClose(m) PROVE DaysHold'
  <2>1. /\ MonthOf[today] > m
        /\ \A d \in DaysOf(m) : status[d] = "APPROVED"
        /\ sealed' = [sealed EXCEPT ![m] = {SealedDay(d) : d \in DaysOf(m)}]
        /\ UNCHANGED <<status, span, proposal, today>>
    BY <1>9 DEF ServeClose, MonthOver, Seal, CanSeal
  <2>2. ASSUME NEW d \in Days, ~Open(MonthOf[d])'
        PROVE  status[d] \in {"NONE", "APPROVED"} /\ MonthOf[d] < MonthOf[today]
    <3>1. CASE MonthOf[d] = m
      <4>1. status[d] = "NONE" \/ d \in DaysOf(m)
        BY <3>1 DEF DaysOf
      <4>2. MonthOf[d] \in Int /\ MonthOf[today] \in Int
        BY DatesAssumption DEF DaysHold
      <4> QED BY <2>1, <3>1, <4>1, <4>2
    <3>2. CASE MonthOf[d] # m
      <4>1. sealed'[MonthOf[d]] = sealed[MonthOf[d]]
        BY <2>1, <3>2, DatesAssumption DEF DaysHold
      <4> QED BY <2>2, <4>1 DEF DaysHold, Open
    <3> QED BY <3>1, <3>2
  <2> QED BY <2>1, <2>2 DEF DaysHold
<1> QED BY <1>1, <1>2, <1>3, <1>4, <1>5, <1>6, <1>7, <1>8, <1>9 DEF Operation

LEMMA DaysStay == ScreensSpec => []DaysHold
<1>1. DaysHold /\ ScreensInv /\ [ScreensNext]_screens => DaysHold'
  BY StepsAreOperations, DaysStep DEF ScreensInv
<1> QED BY <1>1, DaysStart, ScreensInvariant, PTL DEF ScreensSpec

\* A recorded today is in every list: no day is newer.
LEMMA NewestIsListed ==
  ASSUME DaysHold, today \notin NewestDays(WorkerLimit)
  PROVE  status[today] = "NONE"
<1> SUFFICES ASSUME status[today] # "NONE" PROVE today \in NewestDays(WorkerLimit)
  OBVIOUS
<1>1. \A e \in Workdays : ~(e > today)
  <2>1. ASSUME NEW e \in Workdays PROVE e <= today /\ e \in Int /\ today \in Int
    BY DatesAssumption DEF Workdays, DaysHold
  <2> QED BY <2>1
<1>2. {e \in Workdays : e > today} = {}
  BY <1>1
<1>3. Cardinality({e \in Workdays : e > today}) < WorkerLimit
  BY <1>2, FS_EmptySet, WorkerLimitAssumption
<1> QED BY <1>3 DEF NewestDays, Workdays, DaysHold

LEMMA FreshButtonsFit ==
  ASSUME ScreensInv, DaysHold
  PROVE  FreshButtonsWork
<1>1. ASSUME panel = "family", NEW c \in Copies, Current(c)
      PROVE  /\ OffersApprove(c) => CanApprove(c.day)
             /\ OffersResolve(c) =>
                  /\ \E p \in c.row.proposal : CanCorrect(c.day, p.in, p.out)
                  /\ NoneOpen \/ c.row.span.out # {} => CanDismiss(c.day)
             /\ OffersSend(c) /\ c.row.status \notin {"DISPUTED", "APPROVED"}
                => CanDispute(c.day)
  <2>1. /\ c.day \in Days /\ c.row.status # "NONE"
        /\ c.row.status = status[c.day] /\ c.row.span = span[c.day]
        /\ c.row.proposal = proposal[c.day]
    BY <1>1, CopiesAreBefore, RowIs DEF ScreensInv, CopyBefore, Current
  <2>2. OffersApprove(c) => CanApprove(c.day)
    BY <2>1 DEF OffersApprove, CanApprove, DaysHold
  <2>3. OffersResolve(c) =>
          /\ \E p \in c.row.proposal : CanCorrect(c.day, p.in, p.out)
          /\ NoneOpen \/ c.row.span.out # {} => CanDismiss(c.day)
    BY <2>1 DEF OffersResolve, CanCorrect, CanDismiss, DaysHold
  <2>4. OffersSend(c) /\ c.row.status \notin {"DISPUTED", "APPROVED"} => CanDispute(c.day)
    BY <2>1 DEF CanDispute, DaysHold
  <2> QED BY <2>2, <2>3, <2>4
<1>2. ASSUME panel = "worker", historial = Rows(WorkerLimit), hoy = today
      PROVE  /\ OffersClockIn =>
                  CanClockIn(today) \/ \E d \in Days \ Past : status[d] = "OPEN"
             /\ \A d \in OffersClockOut : CanClockOut(d)
             /\ \A d \in OffersForm : CanDispute(d)
  <2>1. /\ Past \subseteq Days
        /\ \A d \in Past : historial[d].status = status[d]
        /\ historial # None => Past = NewestDays(WorkerLimit)
    <3>1. Past \subseteq NewestDays(WorkerLimit)
          /\ (historial # None => Past = NewestDays(WorkerLimit))
      BY <1>2 DEF Past, Rows
    <3>2. \A d \in NewestDays(WorkerLimit) : d \in Days /\ historial[d] = Row(d)
      BY <1>2 DEF Rows, NewestDays, Workdays
    <3> QED BY <3>1, <3>2, RowIs
  <2>2. ASSUME OffersClockIn, \A d \in Days \ Past : status[d] # "OPEN" PROVE CanClockIn(today)
    <3>1. Past = NewestDays(WorkerLimit) /\ OpenOnes = {} /\ today \notin Past
      BY <1>2, <2>1, <2>2 DEF OffersClockIn, Actual
    <3>2. NoneOpen
      BY <2>1, <2>2, <3>1 DEF OpenOnes, NoneOpen
    <3>3. status[today] = "NONE"
      BY <3>1, NewestIsListed
    <3>4. Open(MonthOf[today])
      <4>1. MonthOf[today] \in Int
        BY DatesAssumption DEF DaysHold
      <4>2. ~(MonthOf[today] < MonthOf[today])
        BY <4>1
      <4> QED BY <4>2 DEF DaysHold
    <3> QED BY <3>2, <3>3, <3>4 DEF CanClockIn
  <2>3. ASSUME NEW d \in OffersClockOut PROVE CanClockOut(d)
    BY <2>1 DEF OffersClockOut, OpenOnes, CanClockOut, DaysHold
  <2>4. ASSUME NEW d \in OffersForm PROVE CanDispute(d)
    BY <2>1 DEF OffersForm, CanDispute, DaysHold
  <2> QED BY <2>2, <2>3, <2>4
<1>3. ASSUME panel = "period", OffersClose, periodo = Totals(periodo.month)
      PROVE  /\ CanSeal(periodo.month)
             /\ \/ MonthOver(periodo.month)
                \/ periodo.month > mes
                \/ MonthOf[fecha] > MonthOf[today]
  <2> DEFINE m == periodo.month
  <2>1. /\ MonthOf[fecha] > mes /\ Open(m)
        /\ {<<d, minutes[d]>> : d \in Settled(m)} # {} /\ DaysOf(m) = Settled(m)
    <3>1. periodo = Totals(m) /\ OffersClose
      BY <1>3
    <3> HIDE DEF m
    <3> QED BY <3>1 DEF OffersClose, Totals
  <2>2. PICK d \in Settled(m) : TRUE
    BY <2>1
  <2>3. /\ m = MonthOf[d] /\ d \in Days /\ DaysOf(m) # {}
        /\ \A e \in DaysOf(m) : status[e] = "APPROVED"
    BY <2>1, <2>2 DEF Settled, DaysOf
  <2>4. /\ m \in Int /\ mes \in Int /\ MonthOf[fecha] \in Int /\ MonthOf[today] \in Int
    BY <1>3, <2>3, DatesAssumption DEF ScreensInv, PeriodSees, DaysHold
  <2>5. CanSeal(m)
    BY <2>1, <2>3 DEF CanSeal
  <2> HIDE DEF m
  <2>6. MonthOf[today] > m \/ m > mes \/ MonthOf[fecha] > MonthOf[today]
    BY <2>1, <2>4
  <2> QED BY <2>5, <2>6 DEF m, MonthOver
<1> QED
  BY <1>1, <1>2, <1>3 DEF FreshButtonsWork, FamilyFresh, WorkerFresh, PeriodFresh

\* With a current copy on screen the API may do what each button asks (approve, resolve,
\* dispute, clock in and out, close), but for the exceptions FreshButtonsWork names, for
\* any number of days, months and loads, any limit of the lists and any distance of the
\* browser's date.
THEOREM FreshButtonsAreServed == ScreensSpec => []FreshButtonsWork
<1>1. ScreensInv /\ DaysHold => FreshButtonsWork
  BY FreshButtonsFit
<1> QED BY <1>1, DaysStay, ScreensInvariant, PTL

----------------------------------------------------------------------------
(* The ledger behind the screens *)

\* Whatever the API serves is one operation of the ledger, or none.
LEMMA OperationsAreOfTheLedger ==
  ASSUME DaysHold, Operation
  PROVE  [Next]_ledger
<1>1. CASE UNCHANGED server \/ Midnight
  BY <1>1 DEF server, Midnight
<1>2. CASE ServeClockIn
  <2>1. PICK t \in Entries : ClockIn(today, t)
    BY <1>2 DEF ServeClockIn
  <2> QED BY <2>1, ClockAssumption DEF DaysHold, Next
<1>3. ASSUME NEW d \in Days, ServeClockOut(d) PROVE [Next]_ledger
  <2>1. PICK t \in Exits : ClockOut(d, t)
    BY <1>3 DEF ServeClockOut
  <2> QED BY <2>1, ClockAssumption DEF Next
<1>4. ASSUME NEW d \in Days, NEW v,
             ServeApprove(d, v) \/ ServeRequest(d, v) \/ ServeReject(d, v)
      PROVE  [Next]_ledger
  BY <1>4 DEF ServeApprove, ServeRequest, ServeReject, Next
<1>5. ASSUME NEW d \in Days, NEW v, ServeAccept(d, v) PROVE [Next]_ledger
  <2>1. PICK p \in proposal[d] : Correct(d, p.in, p.out)
    BY <1>5 DEF ServeAccept
  <2> QED BY <2>1 DEF DaysHold, Next
<1>6. ASSUME NEW m, ServeClose(m) PROVE [Next]_ledger
  <2>1. Seal(m) /\ DaysOf(m) # {}
    BY <1>6 DEF ServeClose, Seal, CanSeal
  <2>2. m \in Months
    BY <2>1, DatesAssumption DEF DaysOf
  <2> QED BY <2>1, <2>2 DEF Next
<1> QED BY <1>1, <1>2, <1>3, <1>4, <1>5, <1>6 DEF Operation

\* The API behind the panels (time-tracking, attendance-corrections, payroll-periods) is
\* the ledger that the handlers of Attendance implement: no press, late answer or other
\* device does to the days what the ledger does not.
THEOREM ScreensKeepTheLedger == ScreensSpec => Spec
<1>1. ScreensInit => Init
  BY DEF ScreensInit, PageInit
<1>2. DaysHold /\ ScreensInv /\ [ScreensNext]_screens => [Next]_ledger
  BY StepsAreOperations, OperationsAreOfTheLedger
<1> QED BY <1>1, <1>2, DaysStay, ScreensInvariant, PTL DEF ScreensSpec, Spec
=============================================================================
