------------------------------ MODULE Receipts ------------------------------
(***************************************************************************)
(* After a calculation of PayrollEngine: the values prepared for the       *)
(* official receipt, the receipt that the family writes outside the        *)
(* program, with its mistakes, and its comparison with the calculation,    *)
(* concept by concept, when it is imported.                                *)
(*                                                                         *)
(* PayrollEngine leaves out the suffix of some codes (the kind of an hour, *)
(* the name of a contribution): receipts are for calculations in which     *)
(* such a code has one line.                                               *)
(***************************************************************************)
EXTENDS PayrollEngine

CONSTANTS
  Tolerance,   \* roundingToleranceAmount
  Deltas,      \* by how much an amount may be mistaken (bound)
  MaxMistakes, \* mistakes in a receipt (bound)
  Mistakable,  \* the inputs whose receipt may have mistakes (bound)
  None         \* no receipt, no validation

ASSUME ReceiptsAssumption == Tolerance \in Nat /\ Deltas \subseteq Int /\ MaxMistakes \in Nat

VARIABLES
  receipt,     \* the document, as it will be read
  mistakes,    \* made in it so far
  validation   \* the outcome of validateReceipt
receiptVars == <<vars, receipt, mistakes, validation>>

Concept(code, amount) == [code |-> code, amount |-> amount]
Codes(concepts) == {concepts[i].code : i \in DOMAIN concepts}
OnlyOne(concepts, code) ==
  \A i, j \in DOMAIN concepts : concepts[i].code = code /\ concepts[j].code = code => i = j

Suffixed == {"OVERTIME", "ADDITIONAL", "CONTRIBUTION"}
IsPrepared ==
  /\ result \notin {NotYet, Thrown}
  /\ result.errors = {}
  /\ \A code \in Suffixed : OnlyOne(result.totals.lines, code)

\* createReceipt: a value for each line of the version, informational or not
OfTheWorker(lines) == Where(lines, LAMBDA l : l.sign # "INFORMATIONAL")
ToReport(lines) == lines
PreparedValues ==
  LET lines == ToReport(result.totals.lines) IN
  [i \in DOMAIN lines |-> Concept(lines[i].code, lines[i].amount)]

\* loadPayrollValues, when the receipt is compared
Expected ==
  LET lines == result.totals.lines IN
  [i \in DOMAIN lines |-> Concept(lines[i].code, lines[i].amount)]

----------------------------------------------------------------------------
(* The receipt is written outside the program: the values as they were       *)
(* prepared, or a PDF that cannot be read                                    *)

Readable(concepts) == [readable |-> TRUE, concepts |-> concepts]
Unreadable == [readable |-> FALSE, concepts |-> <<>>]

Issue ==
  /\ receipt = None
  /\ IsPrepared
  /\ receipt' \in {Readable(PreparedValues), Unreadable}
  /\ UNCHANGED <<vars, mistakes, validation>>

\* One mistake more: a concept is left out, has another amount, is there once
\* more with the same or another amount, or is one that nobody prepared.
Mistaken(concepts) ==
  {RemoveAt(concepts, i) : i \in DOMAIN concepts}
  \union {[concepts EXCEPT ![i] = Concept(@.code, @.amount + d)] : i \in DOMAIN concepts, d \in Deltas}
  \union {Append(concepts, Concept(concepts[i].code, concepts[i].amount + d)) :
            i \in DOMAIN concepts, d \in Deltas \union {0}}
  \union {Append(concepts, Concept("UNKNOWN", 100))}

MakeMistake ==
  /\ receipt # None /\ validation = None
  /\ receipt.readable
  /\ input \in Mistakable /\ mistakes < MaxMistakes
  /\ \E c \in Mistaken(receipt.concepts) : receipt' = Readable(c)
  /\ mistakes' = mistakes + 1
  /\ UNCHANGED <<vars, validation>>

----------------------------------------------------------------------------
(* validateReceipt *)

Difference(class, code, blocking) == [class |-> class, code |-> code, blocking |-> blocking]

\* A Map made of the concepts: of two with a code, the last.
Found(concepts, code) == concepts[SelectLastInSeq(concepts, LAMBDA c : c.code = code)].amount

WithinAny(delta) == delta <= Tolerance
Within(delta) == delta <= Tolerance /\ -delta <= Tolerance

Compared(concepts, e) ==
  IF e.code \notin Codes(concepts) THEN {Difference("CONCEPT_MISMATCH", e.code, TRUE)}
  ELSE LET delta == e.amount - Found(concepts, e.code) IN
       IF delta = 0 THEN {}
       ELSE IF Within(delta) THEN {Difference("ROUNDING", e.code, FALSE)}
       ELSE {Difference("AMOUNT_MISMATCH", e.code, TRUE)}

Unexpected(concepts) ==
  {Difference("CONCEPT_MISMATCH", code, TRUE) : code \in Codes(concepts) \ Codes(Expected)}

CompareConcepts(concepts) ==
  (UNION {Compared(concepts, Expected[i]) : i \in DOMAIN Expected}) \union Unexpected(concepts)

Differences(r) ==
  IF r.readable THEN CompareConcepts(r.concepts) ELSE {Difference("UNREADABLE", None, TRUE)}

Comparison(r) ==
  [differences |-> Differences(r), blocking |-> \E d \in Differences(r) : d.blocking]

Validate ==
  /\ receipt # None /\ validation = None
  /\ validation' = Comparison(receipt)
  /\ UNCHANGED <<vars, receipt, mistakes>>

ReceiptsInit == Init /\ receipt = None /\ mistakes = 0 /\ validation = None
ReceiptsNext ==
  \/ Calculate /\ UNCHANGED <<receipt, mistakes, validation>>
  \/ Issue \/ MakeMistake \/ Validate
ReceiptsSpec == ReceiptsInit /\ [][ReceiptsNext]_receiptVars

----------------------------------------------------------------------------
(* Properties *)

Repeated(concepts) == {code \in Codes(concepts) : ~OnlyOne(concepts, code)}

\* What the lines of these codes add up to for the worker, by the signs of the
\* calculation
SignIn(code) ==
  LET lines == result.totals.lines IN
  lines[SelectInSeq(lines, LAMBDA l : l.code = code)].sign
Signed(c) == CASE SignIn(c.code) = "CREDIT" -> c.amount
               [] SignIn(c.code) = "DEBIT" -> -c.amount
               [] OTHER -> 0
Net(concepts) == SumOf([i \in DOMAIN concepts |-> Signed(concepts[i])])

\* What the map drops: of several concepts with a code, all but the last
Overwritten(concepts, i) ==
  \E j \in DOMAIN concepts : j > i /\ concepts[j].code = concepts[i].code
Overlooked(concepts) ==
  SumOf([i \in DOMAIN concepts |-> IF Overwritten(concepts, i) THEN Signed(concepts[i]) ELSE 0])

\* A receipt that does not block pays what was calculated and what the map by
\* code overlooked, up to the tolerance once per rounding difference it was told
\* of, when no two lines of the calculation share a code (two advances do, and it
\* may then lack one of them).  Hence one that repeats no code pays the net; one
\* that does may pay any other, and nothing tells of it.
PassedPaysTheNet ==
  validation # None /\ ~validation.blocking /\ Repeated(Expected) = {} =>
    LET off == Net(receipt.concepts) - Overlooked(receipt.concepts) - Net(Expected)
        margin == Tolerance * Cardinality(validation.differences)
    IN off <= margin /\ -off <= margin

\* A receipt issued with the values that were prepared is not blocked, unless
\* two lines with a code have amounts that differ by more than the tolerance.
FaithfulPasses ==
  validation # None /\ receipt = Readable(PreparedValues) =>
    \/ ~validation.blocking
    \/ \E i, j \in DOMAIN Expected :
         /\ Expected[i].code = Expected[j].code
         /\ ~Within(Expected[i].amount - Expected[j].amount)
=============================================================================
