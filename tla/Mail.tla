-------------------------------- MODULE Mail --------------------------------
(***************************************************************************)
(* The mail queue: rows of mail_outbox, and the loop of each process that  *)
(* leases one, hands it to the SMTP server and records the outcome.        *)
(*                                                                         *)
(*   mail/queue.go  enqueue, Tick, Run                                     *)
(*   mail/smtp.go   send                                                   *)
(*                                                                         *)
(* Timing assumption, from the constants of the source: connecting (15 s)  *)
(* and the SMTP conversation (30 s) end within the lease of one minute, so *)
(* a lease runs out only when its process no longer works on the mail.     *)
(***************************************************************************)
EXTENDS Naturals, Sequences

CONSTANTS
  Posters,      \* processes that run the queue
  MaxAttempts   \* 10 in the code

ASSUME MailAssumption == MaxAttempts \in Nat \ {0}

VARIABLES
  mails,  \* rows of mail_outbox, in the order of their insertion
  post    \* what each process does with which mail

mailVars == <<mails, post>>

Unsent == [sent |-> FALSE, attempts |-> 0, lease |-> "none", waits |-> FALSE, delivered |-> 0, mishaps |-> 0]
Resting == [pc |-> "rest", m |-> 0]

MailType ==
  /\ \A m \in DOMAIN mails :
       mails[m] \in [sent : BOOLEAN, attempts : 0..MaxAttempts, lease : {"none", "held", "over"}, waits : BOOLEAN,
                     delivered : 0..MaxAttempts, mishaps : 0..MaxAttempts]
  /\ post \in [Posters -> [pc : {"rest", "send", "mark", "delay"}, m : 0..Len(mails)]]

MailInit == mails = <<>> /\ post = [w \in Posters |-> Resting]

\* The row of the mail that w works on becomes `row`, and w is at `pc`.
Row(w) == mails[post[w].m]
Put(w, row, pc) ==
  /\ mails' = [mails EXCEPT ![post[w].m] = row]
  /\ post' = [post EXCEPT ![w] = IF pc = "rest" THEN Resting ELSE [@ EXCEPT !.pc = pc]]

-----------------------------------------------------------------------------
\* Mutant of Due: a lease does not keep the other processes off.
DueToAll(mail) == ~mail.sent /\ ~mail.waits /\ mail.attempts < MaxAttempts

\* Rows that Tick may lease.
Due(mail) == ~mail.sent /\ ~mail.waits /\ mail.lease # "held" /\ mail.attempts < MaxAttempts

\* Mutant of Leased: only successes count as attempts.
LeasedFreely(mail) == [mail EXCEPT !.lease = "held"]

Leased(mail) == [mail EXCEPT !.lease = "held", !.attempts = @ + 1]

Claim(w) ==
  /\ post[w].pc = "rest"
  /\ \E m \in DOMAIN mails :
        /\ Due(mails[m])
        /\ mails' = [mails EXCEPT ![m] = Leased(@)]
        /\ post' = [post EXCEPT ![w] = [pc |-> "send", m |-> m]]

\* The server takes the mail, refuses it, or takes it and then fails to say so.
Send(w) ==
  /\ post[w].pc = "send"
  /\ \/ Put(w, [Row(w) EXCEPT !.delivered = @ + 1], "mark")
     \/ Put(w, Row(w), "delay")
     \/ Put(w, [Row(w) EXCEPT !.delivered = @ + 1, !.mishaps = @ + 1], "delay")

\* The outcome is written.
Mark(w) ==
  /\ post[w].pc = "mark"
  /\ Put(w, [Row(w) EXCEPT !.sent = TRUE, !.lease = "none"], "rest")

Delay(w) ==
  /\ post[w].pc = "delay"
  /\ Put(w, [Row(w) EXCEPT !.lease = "none", !.waits = TRUE], "rest")

\* The process dies or cannot write the outcome: the lease is left behind.
Drop(w) ==
  /\ post[w].pc \in {"send", "mark", "delay"}
  /\ Put(w, [Row(w) EXCEPT !.mishaps = IF post[w].pc = "mark" THEN @ + 1 ELSE @], "rest")

\* Time: a backoff ends; a lease runs out.
TimePasses(m) ==
  /\ m \in DOMAIN mails
  /\ \/ mails[m].waits /\ mails' = [mails EXCEPT ![m].waits = FALSE]
     \/ /\ mails[m].lease = "held" /\ \A w \in Posters : post[w].m # m
        /\ mails' = [mails EXCEPT ![m].lease = "over"]
  /\ UNCHANGED post
=============================================================================
