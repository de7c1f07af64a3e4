--------------------------- MODULE ProfileConsents ---------------------------
(***************************************************************************)
(* The consents that creating a profile records, in its transaction.       *)
(***************************************************************************)
EXTENDS Profiles, LegalTexts

VARIABLES
  seen,        \* of each tab and kind, the text it last showed; 0 for none
  consents     \* [role, kind, text]: what was recorded, with what was seen and
               \* what the page of the text would show at that moment

consentVars == <<profileVars, legalVars, seen, consents>>

ConsentInit ==
  /\ ProfilesInit /\ LegalInit
  /\ seen = [t \in Tabs |-> [k \in Kinds |-> 0]]
  /\ consents = {}

\* TextoLegal: the text of a link of the form, which stays on screen.
ShowText(t, k) ==
  /\ step[t] = "idle"
  /\ Served(k) # 0
  /\ seen' = [seen EXCEPT ![t][k] = Served(k)]
  /\ UNCHANGED <<profileVars, legalVars, consents>>

\* A kind without a text undoes the whole create.
CreateWithConsents(t) ==
  /\ CreateProfile(t)
  /\ \A k \in Kinds : Recorded(k) # 0
  /\ consents' = consents \union
       {[role |-> request[t].role, kind |-> k, text |-> Recorded(k),
         seen |-> seen[t][k], served |-> Served(k)] : k \in Kinds}
  /\ UNCHANGED <<legalVars, seen>>

ConsentNext ==
  \/ \E t \in Tabs : CreateWithConsents(t) \/ \E k \in Kinds : ShowText(t, k)
  \/ OtherStep /\ UNCHANGED <<legalVars, seen, consents>>
  \/ LegalNext /\ UNCHANGED <<profileVars, seen, consents>>

ConsentSpec == ConsentInit /\ [][ConsentNext]_consentVars

\* "The exact version of the text that the person saw" (recordConsents): who read
\* a text that is still the one on its page has her consent to that text.
ConsentNamesWhatWasSeen ==
  \A c \in consents : c.seen # 0 /\ c.seen = c.served => c.text = c.seen

\* What does hold of it: the text recorded exists and is never older than what was
\* seen or than what the page would show, so that a consent can only be to more
\* recent words than those that were read (recordConsents, newest of its kind).
ConsentIsNotOlder ==
  \A c \in consents : /\ c.text \in Numbers(c.kind)
                      /\ c.seen <= c.text /\ c.served <= c.text

\* A profile and its consents come together, one of each kind, whatever texts are
\* published between the tabs' requests: they are one transaction, and a role that is
\* there is not created again (create of employers and workers).
ProfilesHaveConsents ==
  /\ \A role \in granted, k \in Kinds : \E c \in consents : c.role = role /\ c.kind = k
  /\ \A c \in consents : c.role \in granted /\ c.kind \in Kinds
  /\ \A c, d \in consents : c.role = d.role /\ c.kind = d.kind => c = d
=============================================================================
