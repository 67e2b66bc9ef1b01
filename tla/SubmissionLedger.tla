------------------------- MODULE SubmissionLedger -------------------------
(***************************************************************************)
(* What the journal promises about one question, whatever happens to the   *)
(* flows, servers and messages behind it (docs/submission-retries.md): a   *)
(* question is sent once, plus at most two automatic retries that survive  *)
(* restarts; an attempt the platform explicitly refused costs nothing; and *)
(* a question known to be answered is never reopened.                      *)
(***************************************************************************)
EXTENDS Integers

VARIABLES
  status,  \* "open": may be sent; "unsure": must be checked; "settled"
  budget,  \* automatic retries left
  spent    \* attempts that were not explicitly refused

ledger == <<status, budget, spent>>

Allowance == 2

Init == status = "open" /\ budget = Allowance /\ spent = 0

\* An attempt goes out.
Send == status = "open" /\ status' = "unsure" /\ spent' = spent + 1 /\ UNCHANGED budget

\* The platform said no to it.
Refuse == status = "unsure" /\ status' = "open" /\ spent' = spent - 1 /\ UNCHANGED budget

\* It may be repeated, at the price of one retry.
Resend ==
  /\ status = "unsure"
  /\ budget > 0
  /\ budget' = budget - 1
  /\ status' = "open"
  /\ UNCHANGED spent

\* It is known to be answered.
Settle == status' = "settled" /\ UNCHANGED <<budget, spent>>

\* Records of an older fingerprint take the place of an untouched one.
Import ==
  /\ status = "open" /\ spent = 0 /\ budget = Allowance
  /\ status' \in {"unsure", "settled"}
  /\ budget' \in 0 .. Allowance
  /\ UNCHANGED spent

Next == Send \/ Refuse \/ Resend \/ Settle \/ Import

Spec == Init /\ [][Next]_ledger

\* At most three attempts that were not refused, however often the service
\* is restarted (docs/submission-retries.md, "each question at most twice more").
Fits(st, left, used) ==
  /\ left \in 0 .. Allowance
  /\ used + left <= Allowance + (IF st = "open" THEN 0 ELSE 1)

Bounded == Fits(status, budget, spent)
=============================================================================
