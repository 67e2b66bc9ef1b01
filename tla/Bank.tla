-------------------------------- MODULE Bank --------------------------------
(***************************************************************************)
(* The answer bank: what is known of each question, and the events that    *)
(* tell waiting workers that an answer has come.                           *)
(*                                                                         *)
(*   bank/store.go   Save, Lookup, Coverage                                *)
(*   bank/batch.go   ObserveBatch, persistBatchAnswer                      *)
(*                                                                         *)
(* Every save is one transaction that locks the question's row, and is one *)
(* step here.  An answer is its digest; a source is what an account was    *)
(* shown: an answer that can be extracted, a reference text, or nothing.   *)
(***************************************************************************)
EXTENDS Naturals, FiniteSets

CONSTANTS
  Questions,  \* question versions of one classroom
  Answers     \* digests of answers

\* A classroom has finitely many questions; a digest is none of the marks.
ASSUME BankAssumption ==
  /\ IsFiniteSet(Questions)
  /\ Answers \intersect {"none", "reference", "hidden"} = {}

VARIABLES
  bank,     \* standard_answers and answer_items of each question
  legacy,   \* the answer that an older fingerprint of the question holds
  events,   \* rows of event_outbox that are not delivered
  told      \* history: the answers that Lookup has returned

bankVars == <<bank, legacy, events, told>>

None == "none"
Sources == Answers \union {"reference", "hidden"}
Statuses == {"missing", "reference", "captured", "conflict"}
Row(s, a) == [status |-> s, answer |-> a]

BankType ==
  /\ bank \in [Questions -> [status : Statuses, answer : Answers \union {None}]]
  /\ legacy \in [Questions -> Answers \union {None}]
  /\ events \in Nat
  /\ told \in [Questions -> SUBSET Answers]

BankInit(old) ==
  /\ bank = [q \in Questions |-> Row("missing", None)]
  /\ legacy = old
  /\ events = 0
  /\ told = [q \in Questions |-> {}]

-----------------------------------------------------------------------------
(* Saving.                                                                  *)

\* Mutant of Merged: the latest answer wins.
MergedLatest(row, a) == Row("captured", a)

\* The row after a valid answer: a captured answer is never replaced, another
\* one puts the question in conflict for good.
Merged(row, a) ==
  IF row.status = "conflict" \/ (row.status = "captured" /\ row.answer # a)
    THEN [row EXCEPT !.status = "conflict"]
    ELSE Row("captured", a)

\* The row after any source.
Saved(row, source) ==
  CASE source \in Answers -> Merged(row, source)
    [] source = "reference" /\ row.status = "missing" -> [row EXCEPT !.status = "reference"]
    [] OTHER -> row

\* Whether the save leaves an event for the workers.
Announced(row, source) == source \in Answers /\ Saved(row, source).status # "conflict"

Save(q, source) ==
  /\ bank' = [bank EXCEPT ![q] = Saved(@, source)]
  /\ events' = IF Announced(bank[q], source) THEN events + 1 ELSE events

\* ObserveBatch: everything an account was shown, in one transaction.
Observe(source) ==
  /\ bank' = [q \in Questions |-> Saved(bank[q], source[q])]
  /\ events' = events + Cardinality({q \in Questions : Announced(bank[q], source[q])})
  /\ UNCHANGED <<legacy, told>>

-----------------------------------------------------------------------------
(* Looking up.                                                              *)

Ready(q) == bank[q].status = "captured"

\* An older version of the question is consulted.
Falls(q) == bank[q].status \in {"missing", "reference"} /\ legacy[q] # None

\* The answers that a reader of q gets.
Tell(q) == told' = [told EXCEPT ![q] = @ \union IF Ready(q) THEN {bank[q].answer} ELSE {}]

\* Lookup saves the legacy answer it has verified, then looks again.
Adopt(q) == Save(q, legacy[q]) /\ UNCHANGED <<legacy, told>>
=============================================================================
