---------------------- MODULE SubmissionLedgerProofs ----------------------
\* What the abstract ledger promises, for every behaviour of it.
EXTENDS SubmissionLedger, TLAPS

LedgerType == status \in {"open", "unsure", "settled"} /\ spent \in Int

\* Whatever budget an import brings, nothing was spent yet.
LEMMA FreshFits ==
  ASSUME NEW st, NEW left \in 0 .. Allowance PROVE Fits(st, left, 0)
BY DEF Fits, Allowance

\* However often a question is checked, refused, repeated or imported, at most
\* three attempts were not refused, two when it may be sent again
\* (docs/submission-retries.md:6, Journal.Save and retry in submissions.go).
THEOREM LedgerBounded == Spec => []Bounded
<1>1. Init => LedgerType /\ Bounded
  BY DEF Init, LedgerType, Bounded, Fits, Allowance
<1>2. LedgerType /\ Bounded /\ [Next]_ledger => (LedgerType /\ Bounded)'
  <2> SUFFICES ASSUME LedgerType, Bounded, [Next]_ledger
               PROVE  LedgerType' /\ Bounded'
    OBVIOUS
  <2> USE DEF LedgerType, Bounded
  <2>1. CASE Send
    BY <2>1 DEF Send, Fits, Allowance
  <2>2. CASE Refuse
    BY <2>2 DEF Refuse, Fits, Allowance
  <2>3. CASE Resend
    BY <2>3 DEF Resend, Fits, Allowance
  <2>4. CASE Settle
    BY <2>4 DEF Settle, Fits, Allowance
  <2>5. CASE Import
    <3>1. spent' = 0 /\ budget' \in 0 .. Allowance /\ status' \in {"unsure", "settled"}
      BY <2>5 DEF Import
    <3>2. Bounded'
      BY <3>1, FreshFits
    <3>3. QED
      BY <3>1, <3>2
  <2>6. CASE UNCHANGED ledger
    BY <2>6 DEF ledger
  <2>7. QED
    BY <2>1, <2>2, <2>3, <2>4, <2>5, <2>6 DEF Next
<1>3. QED
  BY <1>1, <1>2, PTL DEF Spec
=============================================================================
