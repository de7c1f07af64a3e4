----------------------------- MODULE LegalTexts -----------------------------
(***************************************************************************)
(* The terms and the privacy policy: which text a visitor is shown, and    *)
(* which text a consent records.  The two are found by different queries.  *)
(*                                                                         *)
(* Texts of a kind are numbered by publishedAt; number 0 stands for none.  *)
(* They are published, approved and retired outside the program.           *)
(***************************************************************************)
EXTENDS Naturals, Sequences, FiniteSetsExt

CONSTANTS
  Kinds,        \* terms of service, privacy policy
  Production,   \* NODE_ENV = 'production'
  MaxTexts,     \* bounds: texts of a kind,
  LastDate      \* and dates

VARIABLES
  texts,   \* of each kind, the texts in order of publishedAt
  date     \* today

legalVars == <<texts, date>>

Statuses == {"DRAFT", "UNDER_REVIEW", "APPROVED", "RETIRED"}
Text == [status : Statuses, effectiveFrom : 0..LastDate]

LegalInit == texts = [k \in Kinds |-> <<>>] /\ date = 0

Publish(k, text) ==
  /\ Len(texts[k]) < MaxTexts
  /\ text.status \in {"DRAFT", "APPROVED"}
  /\ texts' = [texts EXCEPT ![k] = Append(@, text)]
  /\ UNCHANGED date

\* A draft is approved, with a date to be in force from, or a text retired.
Review(k, n, text) ==
  /\ n \in 1..Len(texts[k])
  /\ \/ texts[k][n].status \in {"DRAFT", "UNDER_REVIEW"} /\ text.status \in {"UNDER_REVIEW", "APPROVED"}
     \/ texts[k][n].status = "APPROVED" /\ text = [texts[k][n] EXCEPT !.status = "RETIRED"]
  /\ texts' = [texts EXCEPT ![k][n] = text]
  /\ UNCHANGED date

NextDay == date < LastDate /\ date' = date + 1 /\ UNCHANGED texts

LegalNext ==
  \/ NextDay
  \/ \E k \in Kinds, text \in Text : Publish(k, text) \/ \E n \in 1..MaxTexts : Review(k, n, text)

----------------------------------------------------------------------------

Numbers(k) == DOMAIN texts[k]
Newest(numbers) == IF numbers = {} THEN 0 ELSE Max(numbers)

\* effectiveDocumentWhere
Effective(k) ==
  {n \in Numbers(k) : texts[k][n].status = "APPROVED" /\ texts[k][n].effectiveFrom <= date}

\* The text of GET legal/:tipo: of those in force the one since latest, the
\* newest among equals; with none, a draft, but not in production.
SinceLatest(k) ==
  {n \in Effective(k) : \A m \in Effective(k) : texts[k][m].effectiveFrom <= texts[k][n].effectiveFrom}
Served(k) ==
  IF Effective(k) # {} THEN Newest(SinceLatest(k))
  ELSE IF Production THEN 0
  ELSE Newest({n \in Numbers(k) : texts[k][n].status # "RETIRED"})

\* recordConsents: the newest of its kind, in force or not.
Recorded(k) == Newest(Numbers(k))
=============================================================================
