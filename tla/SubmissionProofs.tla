------------------------- MODULE SubmissionProofs -------------------------
(***************************************************************************)
(* Proofs about Submission, for any set of servers and of legacy rows.     *)
(*                                                                         *)
(* First, what each action does to the fields of its flow and to the row   *)
(* (the ...Step lemmas, which also carry the typing); then the inductive   *)
(* invariant, conjunct by conjunct, from those facts alone.                *)
(***************************************************************************)
EXTENDS Submission, TLAPS

FlowOK == flow \in [Servers -> FlowState]

\* The flows of the other servers stay as they are.
Others(s) == \A t \in Servers \ {s} : flow'[t] = flow[t]

\* The fields of s's flow after a step, but for the read counter.
Becomes(s, pc, r, outcome, dead, reply) ==
  /\ flow'[s].pc = pc
  /\ flow'[s].rec = r
  /\ flow'[s].outcome = outcome
  /\ flow'[s].dead = dead
  /\ flow'[s].reply = reply

LEMMA IdleType == Idle \in FlowState
BY DEF Idle, NewRow, FlowState, Pcs, Record, States, Reads, MaxRetries

LEMMA PcsMembers ==
  /\ Pcs = {"idle", "load", "reading", "call", "wire", "import", "confirm", "grant", "mark", "save"}
  /\ Outcomes = {"unconnected", "broken", "unavailable", "signed_out",
                 "limited", "refused", "odd", "empty", "accepted"}
  /\ Responses = {"accepted", "odd", "empty", "limited", "refused", "denied"}
BY DEF Pcs, SavingPcs, Outcomes, CallErrors, Responses, Refusals

LEMMA FlowFields ==
  ASSUME FlowOK, NEW s \in Servers
  PROVE  /\ flow[s] \in FlowState
         /\ flow[s].pc \in Pcs
         /\ flow[s].rec \in Record
         /\ flow[s].rec.state \in States
         /\ flow[s].rec.retries \in 0 .. MaxRetries
         /\ flow[s].rec.attempt \in Nat
         /\ flow[s].rec.retryable \in BOOLEAN
         /\ flow[s].reads \in 0 .. Reads - 1
         /\ flow[s].outcome \in Outcomes \union {"loaded"}
         /\ flow[s].dead \in BOOLEAN
         /\ flow[s].reply \in Responses \union {"none"}
<1>1. flow[s] \in FlowState
  BY DEF FlowOK
<1>2. flow[s].rec \in Record
  BY <1>1 DEF FlowState
<1>3. QED BY <1>1, <1>2 DEF FlowState, Record

-----------------------------------------------------------------------------
(* Updates of one flow.                                                     *)

LEMMA FinishStep ==
  ASSUME FlowOK, NEW s \in Servers, Finish(s)
  PROVE  FlowOK' /\ Others(s) /\ Becomes(s, "idle", NewRow, "loaded", FALSE, "none")
BY IdleType DEF FlowOK, Others, Finish, Idle, Becomes

LEMMA GotoStep ==
  ASSUME FlowOK, NEW s \in Servers, NEW place \in Pcs, Goto(s, place)
  PROVE  /\ FlowOK' /\ Others(s)
         /\ Becomes(s, place, flow[s].rec, flow[s].outcome, flow[s].dead, flow[s].reply)
BY DEF FlowOK, Others, Goto, FlowState, Becomes

LEMMA ProceedStep ==
  ASSUME FlowOK, NEW s \in Servers, NEW place \in Pcs, op' \in Record, Proceed(s, place)
  PROVE  /\ FlowOK' /\ Others(s)
         /\ Becomes(s, place, op', flow[s].outcome, flow[s].dead, flow[s].reply)
<1>1. ASSUME NEW f \in FlowState, NEW r \in Record
      PROVE  [f EXCEPT !.pc = place, !.rec = r, !.reads = 0] \in FlowState
  <2>1. 0 \in 0 .. Reads - 1
    BY DEF Reads
  <2>2. QED BY <2>1 DEF FlowState
<1>2. [flow[s] EXCEPT !.pc = place, !.rec = op', !.reads = 0] \in FlowState
  BY <1>1 DEF FlowOK
<1>3. flow' = [flow EXCEPT ![s] = [flow[s] EXCEPT !.pc = place, !.rec = op', !.reads = 0]]
  BY DEF Proceed, FlowOK, FlowState
<1>4. FlowOK'
  BY <1>2, <1>3 DEF FlowOK
<1>5. QED BY <1>4 DEF FlowOK, Others, Proceed, FlowState, Becomes

LEMMA EndCallStep ==
  ASSUME FlowOK, NEW s \in Servers, NEW how \in Outcomes, EndCall(s, how)
  PROVE  /\ FlowOK' /\ Others(s)
         /\ Becomes(s, "save", flow[s].rec, how, flow[s].dead, "none")
<1>1. "save" \in Pcs /\ "none" \in Responses \union {"none"}
  BY PcsMembers
<1>2. [flow[s] EXCEPT !.pc = "save", !.outcome = how, !.reply = "none"] \in FlowState
  BY <1>1 DEF FlowOK, FlowState
<1>3. flow' = [flow EXCEPT ![s] = [flow[s] EXCEPT !.pc = "save", !.outcome = how, !.reply = "none"]]
  BY DEF EndCall, FlowOK, FlowState
<1>4. FlowOK'
  BY <1>2, <1>3 DEF FlowOK
<1>5. QED BY <1>4 DEF FlowOK, Others, EndCall, FlowState, Becomes

-----------------------------------------------------------------------------
(* Helpers of the journal.                                                  *)

\* The largest retry count of a non-empty set of old rows exists.
LEMMA MergedRetriesType ==
  ASSUME NEW old \in SUBSET LegacyRow, old # {}
  PROVE  MergedRetries(old) \in 0 .. MaxRetries
<1> DEFINE P(n) == /\ \E row \in old : row.retries = n
                   /\ \A row \in old : row.retries <= n
<1>1. \E n \in 0 .. MaxRetries : P(n)
  <2>1. \A row \in old : row.retries \in {0, 1, 2}
    BY DEF LegacyRow, MaxRetries
  <2>2. CASE \E row \in old : row.retries = 2
    BY <2>1, <2>2 DEF MaxRetries
  <2>3. CASE (\A row \in old : row.retries # 2) /\ \E row \in old : row.retries = 1
    BY <2>1, <2>3 DEF MaxRetries
  <2>4. CASE \A row \in old : row.retries = 0
    BY <2>1, <2>4 DEF MaxRetries
  <2>5. QED BY <2>1, <2>2, <2>3, <2>4
<1>2. QED BY <1>1 DEF MergedRetries

\* What Save leaves in the row.
LEMMA SaveStep ==
  ASSUME NEW r \in Record, NEW state \in States, NEW retries \in 0 .. MaxRetries,
         NEW retryable \in BOOLEAN, Save(r, state, retries, retryable)
  PROVE  /\ op' \in Record
         /\ op'.state = state /\ op'.retries = retries
         /\ state = "pending" => op'.attempt = r.attempt + 1
         /\ state # "pending" => op'.attempt = r.attempt
         /\ Matches(r)
<1>1. r.attempt \in Nat
  BY DEF Record
<1>2. Matches(r) /\ op' = [state     |-> state,
                         retries   |-> retries,
                         attempt   |-> r.attempt + (IF state = "pending" THEN 1 ELSE 0),
                         retryable |-> retryable]
  BY DEF Save
<1>3. (IF state = "pending" THEN 1 ELSE 0) \in {0, 1}
  OBVIOUS
<1>4. r.attempt + (IF state = "pending" THEN 1 ELSE 0) \in Nat
  BY <1>1, <1>3
<1>5. op' \in Record
  BY <1>2, <1>4 DEF Record
<1>6. QED BY <1>1, <1>2, <1>5

LEMMA VerdictType ==
  ASSUME NEW how \in Outcomes
  PROVE  /\ VerdictState(how) \in {"not_sent", "rejected", "posted", "unknown"}
         /\ VerdictRetryable(how) \in BOOLEAN
BY DEF VerdictState, VerdictRetryable

-----------------------------------------------------------------------------
(* Effects of the actions of a flow.                                        *)

LEMMA LoadStep ==
  ASSUME TypeOK, NEW s \in Servers, Load(s)
  PROVE  /\ FlowOK' /\ Others(s) /\ UNCHANGED <<op, legacy, lock, up, net, count, hurdles, refusals>>
         /\ flow[s].pc = "load" /\ ~flow[s].dead
         /\ Becomes(s, "import", op, flow[s].outcome, flow[s].dead, flow[s].reply)
<1>1. FlowOK /\ op \in Record
  BY DEF TypeOK, FlowOK
<1>2. flow' = [flow EXCEPT ![s].pc = "import", ![s].rec = op]
  BY DEF Load
<1>3. "import" \in Pcs
  BY PcsMembers
<1>4. FlowOK'
  BY <1>1, <1>2, <1>3 DEF FlowOK, FlowState
<1>5. QED BY <1>1, <1>2, <1>4 DEF Load, FlowOK, FlowState, Others, Becomes, durable, leader, platform

LEMMA ImportStep ==
  ASSUME TypeOK, SubmissionAssumption, NEW s \in Servers, Import(s)
  PROVE  /\ FlowOK' /\ op' \in Record /\ Others(s)
         /\ UNCHANGED <<legacy, lock, up, net, count, hurdles, refusals>>
         /\ flow[s].pc = "import"
         /\ \/ /\ flow[s].rec.state # "new" \/ legacy = {}
               /\ UNCHANGED op
               /\ Becomes(s, Entrance(flow[s].rec.state), flow[s].rec, flow[s].outcome,
                          flow[s].dead, flow[s].reply)
            \/ /\ flow[s].rec.state = "new" /\ Matches(flow[s].rec)
               /\ op'.state \in MergedStates(legacy)
               /\ op'.attempt = flow[s].rec.attempt
               /\ Becomes(s, "reading", op', flow[s].outcome, flow[s].dead, flow[s].reply)
<1>1. FlowOK /\ op \in Record
  BY DEF TypeOK, FlowOK
<1>2. \A state \in States : Entrance(state) \in Pcs
  BY PcsMembers DEF Entrance
<1>3. flow[s].rec.state \in States /\ flow[s].rec \in Record
  BY <1>1, FlowFields
<1>4. CASE flow[s].rec.state # "new" \/ legacy = {}
  BY <1>1, <1>2, <1>3, <1>4, GotoStep DEF Import, leader, platform
<1>5. CASE ~(flow[s].rec.state # "new" \/ legacy = {})
  <2>1. PICK state \in MergedStates(legacy) :
          /\ Save(flow[s].rec, state, MergedRetries(legacy), \A row \in legacy : row.retryable)
          /\ Proceed(s, Entrance(state))
    BY <1>5 DEF Import
  <2>2. legacy \in SUBSET LegacyRow /\ legacy # {}
    BY <1>5 DEF SubmissionAssumption, TypeOK
  <2>3. state \in {"unknown", "posted", "confirmed"}
    BY DEF MergedStates, Settled
  <2>4. state \in States /\ MergedRetries(legacy) \in 0 .. MaxRetries /\ Entrance(state) = "reading"
    BY <2>2, <2>3, MergedRetriesType DEF States, Entrance
  <2>5. op' \in Record /\ op'.state = state /\ op'.attempt = flow[s].rec.attempt
        /\ Matches(flow[s].rec)
    <3> DEFINE retryable == \A row \in legacy : row.retryable
    <3>1. Save(flow[s].rec, state, MergedRetries(legacy), retryable)
      BY <2>1
    <3>2. retryable \in BOOLEAN
      OBVIOUS
    <3> HIDE DEF retryable
    <3>3. QED BY <1>3, <2>3, <2>4, <3>1, <3>2, SaveStep
  <2>6. "reading" \in Pcs
    BY PcsMembers
  <2>7. QED
    BY <1>1, <1>5, <2>1, <2>4, <2>5, <2>6, ProceedStep DEF Import, leader, platform
<1>6. QED BY <1>4, <1>5

LEMMA ReadStep ==
  ASSUME TypeOK, NEW s \in Servers, Read(s)
  PROVE  /\ FlowOK' /\ Others(s)
         /\ UNCHANGED <<op, legacy, lock, up, net, count, hurdles, refusals>>
         /\ flow[s].pc = "reading" /\ ~flow[s].dead
         /\ \/ /\ count > 0
               /\ Becomes(s, "confirm", flow[s].rec, flow[s].outcome, flow[s].dead, flow[s].reply)
            \/ Becomes(s, "reading", flow[s].rec, flow[s].outcome, flow[s].dead, flow[s].reply)
            \/ Becomes(s, "idle", NewRow, "loaded", FALSE, "none")
            \/ /\ count = 0 /\ Quiet(s) /\ MayResend(s)
               /\ \/ /\ flow[s].rec.state = "retry_ready" /\ flow[s].outcome = "loaded"
                     /\ Becomes(s, "mark", flow[s].rec, flow[s].outcome, flow[s].dead, flow[s].reply)
                  \/ /\ ~(flow[s].outcome = "loaded" /\ flow[s].rec.state = "retry_ready")
                     /\ Becomes(s, "grant", flow[s].rec, flow[s].outcome, flow[s].dead, flow[s].reply)
<1>1. FlowOK /\ count \in Nat
  BY DEF TypeOK, FlowOK
<1>2. "confirm" \in Pcs /\ "mark" \in Pcs /\ "grant" \in Pcs
  BY PcsMembers
<1>3. flow[s].pc = "reading" /\ ~flow[s].dead
      /\ UNCHANGED <<op, legacy, lock, up, net, count, hurdles, refusals>>
  BY DEF Read, durable, leader, platform
<1>4. CASE count > 0
  BY <1>1, <1>2, <1>3, <1>4, GotoStep DEF Read
<1>5. CASE ~(count > 0)
  <2>1. Unanswered(s) /\ count = 0
    BY <1>1, <1>5 DEF Read
  <2>2. CASE flow[s].reads + 1 < Reads
    <3>1. flow' = [flow EXCEPT ![s].reads = flow[s].reads + 1]
      BY <2>1, <2>2 DEF Unanswered
    <3>2. flow[s].reads + 1 \in 0 .. Reads - 1
      BY <1>1, <2>2, FlowFields DEF Reads
    <3>3. FlowOK'
      BY <1>1, <3>1, <3>2 DEF FlowOK, FlowState
    <3>4. QED BY <1>1, <1>3, <3>1, <3>3 DEF FlowOK, FlowState, Others, Becomes
  <2>3. CASE ~(flow[s].reads + 1 < Reads)
    <3>1. CASE ~MayResend(s)
      BY <1>1, <1>3, <2>1, <2>3, <3>1, FinishStep DEF Unanswered
    <3>2. CASE MayResend(s)
      BY <1>1, <1>2, <1>3, <2>1, <2>3, <3>2, GotoStep DEF Unanswered
    <3>3. QED BY <3>1, <3>2
  <2>4. QED BY <2>2, <2>3
<1>6. QED BY <1>4, <1>5

LEMMA ConfirmStep ==
  ASSUME TypeOK, NEW s \in Servers, Confirm(s)
  PROVE  /\ FlowOK' /\ op' \in Record /\ Others(s)
         /\ UNCHANGED <<legacy, lock, up, net, count, hurdles, refusals>>
         /\ flow[s].pc = "confirm" /\ Matches(flow[s].rec)
         /\ op'.state = "confirmed" /\ op'.attempt = flow[s].rec.attempt
         /\ op'.retries = flow[s].rec.retries
         /\ Becomes(s, "idle", NewRow, "loaded", FALSE, "none")
<1>1. FlowOK
  BY DEF TypeOK, FlowOK
<1>2. op' \in Record /\ op'.state = "confirmed" /\ op'.attempt = flow[s].rec.attempt
      /\ op'.retries = flow[s].rec.retries /\ Matches(flow[s].rec)
  BY <1>1, FlowFields, SaveStep DEF Confirm, States, Record
<1>3. QED BY <1>1, <1>2, FinishStep DEF Confirm, leader, platform

LEMMA GrantStep ==
  ASSUME TypeOK, NEW s \in Servers, Grant(s)
  PROVE  /\ FlowOK' /\ op' \in Record /\ Others(s)
         /\ UNCHANGED <<legacy, lock, up, net, count, hurdles, refusals>>
         /\ flow[s].pc = "grant" /\ ~flow[s].dead /\ Matches(flow[s].rec)
         /\ op'.attempt = flow[s].rec.attempt
         /\ \/ /\ op'.state = "retry_exhausted" /\ op'.retries = flow[s].rec.retries
               /\ Becomes(s, "idle", NewRow, "loaded", FALSE, "none")
            \/ /\ op'.state = "retry_ready" /\ op'.retries = flow[s].rec.retries + 1
               /\ Becomes(s, "mark", op', flow[s].outcome, flow[s].dead, flow[s].reply)
<1>1. FlowOK
  BY DEF TypeOK, FlowOK
<1>2. flow[s].rec \in Record /\ flow[s].rec.retries \in 0 .. MaxRetries /\ flow[s].rec.attempt \in Nat
  BY <1>1, FlowFields
<1>3. CASE flow[s].rec.retries >= MaxRetries
  <2>1. Save(flow[s].rec, "retry_exhausted", flow[s].rec.retries, TRUE) /\ Finish(s)
    BY <1>3 DEF Grant
  <2>2. op' \in Record /\ op'.state = "retry_exhausted" /\ op'.attempt = flow[s].rec.attempt
        /\ op'.retries = flow[s].rec.retries /\ Matches(flow[s].rec)
    BY <1>2, <2>1, SaveStep DEF States
  <2>3. QED BY <1>1, <2>1, <2>2, FinishStep DEF Grant, leader, platform
<1>4. CASE ~(flow[s].rec.retries >= MaxRetries)
  <2>1. Save(flow[s].rec, "retry_ready", flow[s].rec.retries + 1, TRUE) /\ Proceed(s, "mark")
    BY <1>4 DEF Grant
  <2>2. flow[s].rec.retries + 1 \in 0 .. MaxRetries
    BY <1>2, <1>4 DEF MaxRetries
  <2>3. op' \in Record /\ op'.state = "retry_ready" /\ op'.attempt = flow[s].rec.attempt
        /\ op'.retries = flow[s].rec.retries + 1 /\ Matches(flow[s].rec)
    BY <1>2, <2>1, <2>2, SaveStep DEF States
  <2>4. "mark" \in Pcs
    BY PcsMembers
  <2>5. QED BY <1>1, <2>1, <2>3, <2>4, ProceedStep DEF Grant, leader, platform
<1>5. QED BY <1>3, <1>4

LEMMA MarkStep ==
  ASSUME TypeOK, NEW s \in Servers, Mark(s)
  PROVE  /\ FlowOK' /\ op' \in Record /\ Others(s)
         /\ UNCHANGED <<legacy, lock, up, net, count, hurdles, refusals>>
         /\ flow[s].pc = "mark" /\ ~flow[s].dead /\ Matches(flow[s].rec)
         /\ op'.state = "pending" /\ op'.attempt = flow[s].rec.attempt + 1
         /\ op'.retries = flow[s].rec.retries
         /\ Becomes(s, "call", op', flow[s].outcome, flow[s].dead, flow[s].reply)
<1>1. FlowOK
  BY DEF TypeOK, FlowOK
<1>2. op' \in Record /\ op'.state = "pending" /\ op'.attempt = flow[s].rec.attempt + 1
      /\ op'.retries = flow[s].rec.retries /\ Matches(flow[s].rec)
  BY <1>1, FlowFields, SaveStep DEF Mark, States, Record
<1>3. "call" \in Pcs
  BY PcsMembers
<1>4. QED BY <1>1, <1>2, <1>3, ProceedStep DEF Mark, leader, platform

LEMMA PostStep ==
  ASSUME TypeOK, NEW s \in Servers, Post(s)
  PROVE  /\ FlowOK' /\ Others(s)
         /\ UNCHANGED <<op, legacy, lock, up, count, hurdles, refusals>>
         /\ flow[s].pc = "call" /\ ~flow[s].dead
         /\ net' = net \union {flow[s].rec.attempt}
         /\ Becomes(s, "wire", flow[s].rec, flow[s].outcome, flow[s].dead, flow[s].reply)
<1>1. FlowOK /\ "wire" \in Pcs
  BY PcsMembers DEF TypeOK, FlowOK
<1>2. QED BY <1>1, GotoStep DEF Post, durable, leader

LEMMA CallFailsStep ==
  ASSUME TypeOK, NEW s \in Servers, CallFails(s)
  PROVE  /\ FlowOK' /\ Others(s)
         /\ UNCHANGED <<op, legacy, lock, up, net, count, refusals>>
         /\ flow[s].pc = "call"
         /\ hurdles' \in Nat
         /\ \E how \in {"unconnected", "unavailable", "signed_out"} :
              Becomes(s, "save", flow[s].rec, how, flow[s].dead, "none")
<1>1. FlowOK
  BY DEF TypeOK, FlowOK
<1>2. PICK how \in {"unconnected", "unavailable", "signed_out"} : EndCall(s, how)
  BY DEF CallFails
<1>3. how \in Outcomes
  BY PcsMembers
<1>4. hurdles' \in Nat
  BY DEF CallFails, TypeOK
<1>5. QED BY <1>1, <1>2, <1>3, <1>4, EndCallStep DEF CallFails, durable, leader, platform

LEMMA AbandonStep ==
  ASSUME TypeOK, NEW s \in Servers, Abandon(s)
  PROVE  /\ FlowOK' /\ Others(s)
         /\ UNCHANGED <<op, legacy, lock, up, net, count, hurdles, refusals>>
         /\ flow[s].pc = "wire"
         /\ \E how \in {"broken", "unavailable"} :
              Becomes(s, "save", flow[s].rec, how, flow[s].dead, "none")
<1>1. FlowOK
  BY DEF TypeOK, FlowOK
<1>2. PICK how \in {"broken", "unavailable"} : EndCall(s, how)
  BY DEF Abandon
<1>3. how \in Outcomes
  BY PcsMembers
<1>4. QED BY <1>1, <1>2, <1>3, EndCallStep DEF Abandon, durable, leader, platform

LEMMA ReceiveStep ==
  ASSUME TypeOK, NEW s \in Servers, Receive(s)
  PROVE  /\ FlowOK' /\ Others(s)
         /\ UNCHANGED <<op, legacy, lock, up, net, count, hurdles, refusals>>
         /\ flow[s].pc = "wire" /\ flow[s].reply \in Responses
         /\ \/ /\ flow[s].reply = "denied"
               /\ Becomes(s, "call", flow[s].rec, flow[s].outcome, flow[s].dead, "none")
            \/ /\ flow[s].reply \in Outcomes
               /\ Becomes(s, "save", flow[s].rec, flow[s].reply, flow[s].dead, "none")
<1>1. FlowOK
  BY DEF TypeOK, FlowOK
<1>2. flow[s].reply \in Responses
  BY <1>1, FlowFields DEF Receive
<1>3. CASE flow[s].reply = "denied"
  <2>1. flow' = [flow EXCEPT ![s].pc = "call", ![s].reply = "none"]
    BY <1>3 DEF Receive
  <2>2. "call" \in Pcs /\ "none" \in Responses \union {"none"}
    BY PcsMembers
  <2>3. FlowOK'
    BY <1>1, <2>1, <2>2 DEF FlowOK, FlowState
  <2>4. Others(s) /\ Becomes(s, "call", flow[s].rec, flow[s].outcome, flow[s].dead, "none")
    BY <1>1, <2>1 DEF FlowOK, FlowState, Others, Becomes
  <2>5. QED BY <1>2, <1>3, <2>3, <2>4 DEF Receive, durable, leader, platform
<1>4. CASE flow[s].reply # "denied"
  <2>1. flow[s].reply \in Outcomes
    BY <1>2, <1>4, PcsMembers
  <2>2. EndCall(s, flow[s].reply)
    BY <1>4 DEF Receive
  <2>3. QED BY <1>1, <1>2, <2>1, <2>2, EndCallStep DEF Receive, durable, leader, platform
<1>5. QED BY <1>3, <1>4

LEMMA NoteStep ==
  ASSUME TypeOK, NEW s \in Servers, Note(s)
  PROVE  /\ FlowOK' /\ op' \in Record /\ Others(s) /\ refusals' \in Nat
         /\ UNCHANGED <<legacy, lock, up, net, count, hurdles>>
         /\ flow[s].pc = "save" /\ flow[s].outcome \in Outcomes /\ Matches(flow[s].rec)
         /\ op'.state = VerdictState(flow[s].outcome)
         /\ op'.state = "rejected" => refusals' = refusals + 1
         /\ op'.state # "rejected" => refusals' = refusals
         /\ op'.attempt = flow[s].rec.attempt /\ op'.retries = flow[s].rec.retries
         /\ \/ Becomes(s, "idle", NewRow, "loaded", FALSE, "none")
            \/ /\ AfterCall(flow[s].outcome) # "idle"
               /\ Becomes(s, AfterCall(flow[s].outcome), op', flow[s].outcome, flow[s].dead,
                          flow[s].reply)
<1>1. FlowOK /\ refusals \in Nat
  BY DEF TypeOK, FlowOK
<1>2. flow[s].pc = "save" /\ flow[s].outcome \in Outcomes
  BY <1>1, FlowFields DEF Note, TypeOK
<1> DEFINE state == VerdictState(flow[s].outcome)
           retryable == VerdictRetryable(flow[s].outcome) \/ flow[s].dead
<1>3. /\ Save(flow[s].rec, state, flow[s].rec.retries, retryable)
      /\ refusals' = refusals + (IF state = "rejected" THEN 1 ELSE 0)
      /\ UNCHANGED <<legacy, lock, up, net, count, hurdles>>
      /\ \/ Finish(s)
         \/ AfterCall(flow[s].outcome) # "idle" /\ Proceed(s, AfterCall(flow[s].outcome))
  BY DEF Note, leader, platform
<1>4. state \in {"not_sent", "rejected", "posted", "unknown"} /\ retryable \in BOOLEAN
  BY <1>2, VerdictType
<1> HIDE DEF state, retryable
<1>5. state \in States /\ flow[s].rec \in Record /\ flow[s].rec.retries \in 0 .. MaxRetries
  BY <1>1, <1>4, FlowFields DEF States
<1>6. op' \in Record /\ op'.state = state /\ op'.attempt = flow[s].rec.attempt
      /\ op'.retries = flow[s].rec.retries /\ Matches(flow[s].rec)
  BY <1>3, <1>4, <1>5, SaveStep
<1>7. AfterCall(flow[s].outcome) \in Pcs
  BY PcsMembers DEF AfterCall
<1>r. /\ refusals' \in Nat
      /\ state = "rejected" => refusals' = refusals + 1
      /\ state # "rejected" => refusals' = refusals
  BY <1>1, <1>3
<1>8. CASE Finish(s)
  BY <1>1, <1>2, <1>3, <1>6, <1>r, <1>8, FinishStep DEF state
<1>9. CASE AfterCall(flow[s].outcome) # "idle" /\ Proceed(s, AfterCall(flow[s].outcome))
  BY <1>1, <1>2, <1>3, <1>6, <1>7, <1>r, <1>9, ProceedStep DEF state
<1>10. QED BY <1>3, <1>8, <1>9

LEMMA FailStep ==
  ASSUME TypeOK, NEW s \in Servers, Fail(s)
  PROVE  /\ FlowOK' /\ Others(s)
         /\ UNCHANGED <<op, legacy, lock, up, net, count, hurdles, refusals>>
         /\ flow[s].pc \in {"load", "reading", "import", "confirm", "grant", "mark", "save"}
         /\ Becomes(s, "idle", NewRow, "loaded", FALSE, "none")
<1>1. FlowOK
  BY DEF TypeOK, FlowOK
<1>2. QED BY <1>1, FinishStep DEF Fail, SavingPcs, durable, leader, platform

-----------------------------------------------------------------------------
(* Effects of the other actions.                                            *)

\* A cancelled context: Cancel, and Cease when a flow is running.
LEMMA DeadStep ==
  ASSUME FlowOK, NEW s \in Servers, flow' = [flow EXCEPT ![s].dead = TRUE]
  PROVE  /\ FlowOK' /\ Others(s)
         /\ Becomes(s, flow[s].pc, flow[s].rec, flow[s].outcome, TRUE, flow[s].reply)
BY DEF FlowOK, FlowState, Others, Becomes

LEMMA SubmitStep ==
  ASSUME TypeOK, NEW s \in Servers, Submit(s)
  PROVE  /\ FlowOK' /\ Others(s)
         /\ UNCHANGED <<op, legacy, lock, up, net, count, hurdles, refusals>>
         /\ flow[s].pc = "idle" /\ up[s] = "on"
         /\ Becomes(s, "load", flow[s].rec, flow[s].outcome, flow[s].dead, flow[s].reply)
<1>1. FlowOK /\ "load" \in Pcs
  BY PcsMembers DEF TypeOK, FlowOK
<1>2. QED BY <1>1, GotoStep DEF Submit, durable, leader, platform

LEMMA CrashStep ==
  ASSUME TypeOK, NEW s \in Servers, Crash(s)
  PROVE  /\ FlowOK' /\ Others(s)
         /\ UNCHANGED <<op, legacy, net, count, hurdles, refusals>>
         /\ up' = [up EXCEPT ![s] = "off"]
         /\ Becomes(s, "idle", NewRow, "loaded", FALSE, "none")
<1>1. FlowOK
  BY DEF TypeOK, FlowOK
<1>2. Finish(s)
  BY DEF Crash, Finish
<1>3. QED BY <1>1, <1>2, FinishStep DEF Crash, durable, platform

\* The platform's decision touches only the replies of flows that wait for it.
LEMMA DecideStep ==
  ASSUME TypeOK, NEW a \in net, Decide(a)
  PROVE  \E how \in Responses :
           /\ FlowOK'
           /\ UNCHANGED <<op, legacy, lock, up, refusals>>
           /\ net' = net \ {a} /\ hurdles' \in Nat
           /\ count' \in {count, count + 1}
           /\ how = "accepted" => count' = count + 1
           /\ how \in Refusals => count' = count
           /\ \A s \in Servers :
                /\ flow'[s].pc = flow[s].pc /\ flow'[s].rec = flow[s].rec
                /\ flow'[s].outcome = flow[s].outcome /\ flow'[s].dead = flow[s].dead
                /\ flow'[s].reply = IF flow[s].pc = "wire" /\ flow[s].rec.attempt = a
                                    THEN how ELSE flow[s].reply
<1>1. FlowOK /\ count \in Nat /\ hurdles \in Nat
  BY DEF TypeOK, FlowOK
<1>2. PICK how \in Responses, counted \in BOOLEAN :
        /\ net' = net \ {a}
        /\ how = "accepted" => counted
        /\ how \in Refusals => ~counted
        /\ hurdles' = hurdles + (IF how \in Refusals THEN 1 ELSE 0)
        /\ count' = count + (IF counted THEN 1 ELSE 0)
        /\ flow' = [s \in Servers |->
                  IF flow[s].pc = "wire" /\ flow[s].rec.attempt = a
                  THEN [flow[s] EXCEPT !.reply = how] ELSE flow[s]]
        /\ UNCHANGED <<durable, leader, refusals>>
  BY DEF Decide
<1>3. \A s \in Servers :
        /\ flow'[s] \in FlowState
        /\ flow'[s].pc = flow[s].pc /\ flow'[s].rec = flow[s].rec
        /\ flow'[s].outcome = flow[s].outcome /\ flow'[s].dead = flow[s].dead
        /\ flow'[s].reply = IF flow[s].pc = "wire" /\ flow[s].rec.attempt = a
                            THEN how ELSE flow[s].reply
  <2> TAKE s \in Servers
  <2>1. flow[s] \in FlowState
    BY <1>1 DEF FlowOK
  <2>2. CASE flow[s].pc = "wire" /\ flow[s].rec.attempt = a
    <3>1. flow'[s] = [flow[s] EXCEPT !.reply = how]
      BY <1>2, <2>2
    <3>2. QED BY <2>1, <2>2, <3>1 DEF FlowState
  <2>3. CASE ~(flow[s].pc = "wire" /\ flow[s].rec.attempt = a)
    <3>1. flow'[s] = flow[s]
      BY <1>2, <2>3
    <3>2. QED BY <2>1, <2>3, <3>1
  <2>4. QED BY <2>2, <2>3
<1>4. FlowOK'
  BY <1>2, <1>3 DEF FlowOK
<1>5. hurdles' \in Nat /\ count' \in {count, count + 1}
  BY <1>1, <1>2
<1>6. how = "accepted" => count' = count + 1
  BY <1>1, <1>2
<1>7. how \in Refusals => count' = count
  BY <1>1, <1>2
<1>8. QED BY <1>2, <1>3, <1>4, <1>5, <1>6, <1>7 DEF durable, leader

-----------------------------------------------------------------------------
(* Type correctness.                                                        *)

\* A flow about to record how a call ended knows how it ended.
SaveKnows(s) == flow[s].pc = "save" => flow[s].outcome # "loaded"

LEMMA FlowTyping ==
  ASSUME TypeOK, SubmissionAssumption, NEW s \in Servers, Flow(s)
  PROVE  TypeOK'
<1>1. ASSUME FlowOK', op' \in Record, Others(s), SaveKnows(s)', net' \subseteq Nat,
             hurdles' \in Nat, refusals' \in Nat, UNCHANGED <<legacy, lock, up, count>>
      PROVE  TypeOK'
  BY <1>1 DEF TypeOK, FlowOK, Others, SaveKnows
<1>2. op \in Record /\ net \subseteq Nat /\ hurdles \in Nat /\ refusals \in Nat
  BY DEF TypeOK
<1> USE DEF SaveKnows, Becomes
<1>3. CASE Load(s)
  BY <1>1, <1>2, <1>3, LoadStep
<1>4. CASE Import(s)
  BY <1>1, <1>2, <1>4, ImportStep DEF Entrance
<1>5. CASE Read(s)
  BY <1>1, <1>2, <1>5, ReadStep
<1>6. CASE Confirm(s)
  BY <1>1, <1>2, <1>6, ConfirmStep
<1>7. CASE Grant(s)
  BY <1>1, <1>2, <1>7, GrantStep
<1>8. CASE Mark(s)
  BY <1>1, <1>2, <1>8, MarkStep
<1>9. CASE Post(s)
  <2>1. flow[s].rec.attempt \in Nat
    BY FlowFields DEF TypeOK, FlowOK
  <2>a. net' = net \union {flow[s].rec.attempt}
    BY <1>9, PostStep
  <2>2. net' \subseteq Nat
    BY <1>2, <2>1, <2>a
  <2>3. SaveKnows(s)' /\ FlowOK' /\ Others(s) /\ UNCHANGED <<op, legacy, lock, up, count, hurdles, refusals>>
    BY <1>9, PostStep
  <2>4. QED BY <1>1, <1>2, <2>2, <2>3
<1>10. CASE CallFails(s)
  BY <1>1, <1>2, <1>10, CallFailsStep
<1>11. CASE Abandon(s)
  BY <1>1, <1>2, <1>11, AbandonStep
<1>12. CASE Receive(s)
  BY <1>1, <1>2, <1>12, ReceiveStep, PcsMembers
<1>13. CASE Note(s)
  BY <1>1, <1>2, <1>13, NoteStep DEF AfterCall
<1>14. CASE Fail(s)
  BY <1>1, <1>2, <1>14, FailStep
<1>15. QED
  BY <1>3, <1>4, <1>5, <1>6, <1>7, <1>8, <1>9, <1>10, <1>11, <1>12, <1>13, <1>14 DEF Flow

LEMMA LeadershipTyping ==
  ASSUME TypeOK, NEW s \in Servers, Leadership(s)
  PROVE  TypeOK'
<1>1. CASE Start(s)
  BY <1>1 DEF Start, TypeOK, durable, platform
<1>2. CASE Cease(s)
  <2>1. CASE flow[s].pc = "idle"
    BY <1>2, <2>1 DEF Cease, TypeOK, durable, platform
  <2>2. CASE flow[s].pc # "idle"
    <3>1. flow' = [flow EXCEPT ![s].dead = TRUE]
      BY <1>2, <2>2 DEF Cease
    <3>2. FlowOK' /\ Others(s)
          /\ Becomes(s, flow[s].pc, flow[s].rec, flow[s].outcome, TRUE, flow[s].reply)
      BY <3>1, DeadStep DEF TypeOK, FlowOK
    <3>3. QED BY <1>2, <3>2 DEF Cease, TypeOK, FlowOK, Others, Becomes, durable, platform
  <2>3. QED BY <2>1, <2>2
<1>3. CASE Close(s)
  BY <1>3 DEF Close, Release, TypeOK, durable, platform
<1>4. CASE Crash(s)
  <2>1. lock' \in Servers \union {None}
    BY <1>4 DEF Crash, Release, TypeOK
  <2>2. up' \in [Servers -> {"off", "on", "closing"}]
    BY <1>4, CrashStep DEF TypeOK
  <2>3. FlowOK' /\ Others(s) /\ flow'[s].pc = "idle" /\ UNCHANGED <<op, legacy, net, count, hurdles, refusals>>
    BY <1>4, CrashStep DEF Becomes
  <2>4. QED BY <2>1, <2>2, <2>3 DEF TypeOK, FlowOK, Others
<1>5. QED BY <1>1, <1>2, <1>3, <1>4 DEF Leadership

LEMMA TypeNext ==
  ASSUME TypeOK, SubmissionAssumption, [Next]_vars
  PROVE  TypeOK'
<1>1. CASE LoseLock
  BY <1>1 DEF LoseLock, TypeOK, durable, platform
<1>2. ASSUME NEW s \in Servers, Leadership(s)
      PROVE  TypeOK'
  BY <1>2, LeadershipTyping
<1>3. ASSUME NEW s \in Servers, Submit(s)
      PROVE  TypeOK'
  BY <1>3, SubmitStep DEF TypeOK, FlowOK, Others, Becomes
<1>4. ASSUME NEW s \in Servers, Cancel(s)
      PROVE  TypeOK'
  <2>1. FlowOK' /\ Others(s)
        /\ Becomes(s, flow[s].pc, flow[s].rec, flow[s].outcome, TRUE, flow[s].reply)
    BY <1>4, DeadStep DEF Cancel, TypeOK, FlowOK
  <2>2. QED BY <1>4, <2>1 DEF Cancel, TypeOK, FlowOK, Others, Becomes, durable, leader, platform
<1>5. ASSUME NEW s \in Servers, Flow(s)
      PROVE  TypeOK'
  BY <1>5, FlowTyping
<1>6. ASSUME NEW a \in net, Decide(a)
      PROVE  TypeOK'
  <2>1. net \subseteq Nat /\ count \in Nat
    BY DEF TypeOK
  <2>a. FlowOK' /\ hurdles' \in Nat /\ net' = net \ {a} /\ count' \in {count, count + 1}
    BY <1>6, DecideStep
  <2>2. net' \subseteq Nat /\ count' \in Nat /\ FlowOK' /\ hurdles' \in Nat
    BY <2>1, <2>a
  <2>3. \A s \in Servers : flow'[s].pc = flow[s].pc /\ flow'[s].outcome = flow[s].outcome
    BY <1>6, DecideStep
  <2>4. UNCHANGED <<op, legacy, lock, up, refusals>>
    BY <1>6, DecideStep
  <2>5. QED BY <2>2, <2>3, <2>4 DEF TypeOK, FlowOK
<1>7. CASE UNCHANGED vars
  BY <1>7 DEF vars, TypeOK
<1>8. QED BY <1>1, <1>2, <1>3, <1>4, <1>5, <1>6, <1>7 DEF Next

LEMMA TypeInit ==
  ASSUME SubmissionAssumption, Init
  PROVE  TypeOK
<1>1. NewRow \in Record
  BY DEF NewRow, Record, States, MaxRetries
<1>2. flow \in [Servers -> FlowState] /\ \A s \in Servers : flow[s] = Idle
  BY IdleType DEF Init
<1>3. count \in Nat
  BY DEF Init
<1>4. QED BY <1>1, <1>2, <1>3 DEF Init, TypeOK, Idle

\* The variables keep their types: the row's retries never exceed the database
\* constraint (0 .. 2), and a flow that records a call knows how it ended.
THEOREM TypeCorrect == Spec => []TypeOK
<1>1. Init => TypeOK
  BY TypeInit, SubmissionAssumption
<1>2. TypeOK /\ [Next]_vars => TypeOK'
  BY TypeNext, SubmissionAssumption
<1>3. QED BY <1>1, <1>2, PTL DEF Spec

-----------------------------------------------------------------------------
(* The safety invariant: place, attempts, budget and answers.               *)

LEMMA SafeInit ==
  ASSUME Init
  PROVE  SafeInv
<1>1. \A s \in Servers : flow[s] = Idle
  BY DEF Init
<1>2. PlaceInv
  BY <1>1 DEF PlaceInv, Idle
<1>3. AttemptInv
  BY <1>1 DEF AttemptInv, Idle, NewRow, Init
<1>4. RetryBudget
  BY DEF RetryBudget, Init, NewRow, Sendable
<1>5. AnswerInv
  BY <1>1 DEF AnswerInv, Idle, Init
<1>6. SettledIsAnswered
  BY DEF SettledIsAnswered, Init, NewRow, Settled
<1>7. QED BY <1>2, <1>3, <1>4, <1>5, <1>6 DEF SafeInv

\* The part of PlaceInv that speaks of one flow.
Place(s) ==
  LET f == flow[s] IN
  /\ f.pc \in {"call", "wire", "save"} => f.rec.state = "pending"
  /\ f.pc = "mark" => f.rec.state \in Sendable /\ (f.rec.state = "new" => legacy = {})
  /\ f.pc = "grant" => f.rec.state \in States \ (Sendable \union Settled)
  /\ f.pc \in {"reading", "confirm"} => f.rec.state \notin {"new", "rejected", "not_sent"}
  /\ f.pc \in {"reading", "confirm"} /\ f.outcome = "broken" => f.rec.state = "unknown"
  /\ f.pc \in {"idle", "load", "import"} => f.outcome = "loaded"
  /\ f.pc # "wire" => f.reply = "none"
  /\ f.pc # "idle" /\ ~f.dead => up[s] = "on"

LEMMA NotSent == "not_sent" \in States \ (Sendable \union Settled)
BY DEF States, Sendable, Settled

LEMMA PlaceFlow ==
  ASSUME TypeOK, SubmissionAssumption, PlaceInv, NEW s \in Servers, Flow(s)
  PROVE  PlaceInv'
<1>1. ASSUME Others(s), UNCHANGED <<legacy, up>>, Place(s)'
      PROVE  PlaceInv'
  BY <1>1 DEF PlaceInv, Place, Others
<1>2. Place(s)
  BY DEF PlaceInv, Place
<1>3. FlowOK /\ op \in Record
  BY DEF TypeOK, FlowOK
<1>4. /\ flow[s].pc \in Pcs /\ flow[s].rec.state \in States
      /\ flow[s].outcome \in Outcomes \union {"loaded"} /\ flow[s].dead \in BOOLEAN
      /\ flow[s].reply \in Responses \union {"none"}
  BY <1>3, FlowFields
<1> USE DEF Place, Becomes, Sendable, Settled
<1>5. CASE Load(s)
  BY <1>1, <1>2, <1>5, LoadStep
<1>6. CASE Import(s)
  <2>1. Others(s) /\ UNCHANGED <<legacy, up>> /\ flow[s].pc = "import"
    BY <1>6, ImportStep
  <2>2. CASE /\ flow[s].rec.state # "new" \/ legacy = {}
             /\ Becomes(s, Entrance(flow[s].rec.state), flow[s].rec, flow[s].outcome,
                        flow[s].dead, flow[s].reply)
    <3>1. Entrance(flow[s].rec.state) \in {"mark", "grant", "reading"}
      BY DEF Entrance
    <3>2. /\ flow'[s].pc = Entrance(flow[s].rec.state) /\ flow'[s].rec = flow[s].rec
          /\ flow'[s].outcome = flow[s].outcome /\ flow'[s].dead = flow[s].dead
          /\ flow'[s].reply = "none"
      BY <1>2, <2>1, <2>2
    <3>3. flow'[s].pc = "mark" => /\ flow[s].rec.state \in {"new", "rejected"}
                                  /\ flow[s].rec.state = "new" => legacy = {}
      BY <2>2, <3>2 DEF Entrance
    <3>4. flow'[s].pc = "grant" => flow[s].rec.state = "not_sent"
      BY <3>2 DEF Entrance
    <3>5. flow'[s].pc = "reading" => flow[s].rec.state \notin {"new", "rejected", "not_sent"}
      BY <3>2 DEF Entrance
    <3>6. flow[s].outcome # "broken"
      BY <2>1, <1>2
    <3>7. ~flow[s].dead => up[s] = "on"
      BY <1>2, <2>1
    <3>8. Place(s)'
      <4>1. UNCHANGED <<legacy, up>>
        BY <2>1
      <4>2. CASE flow'[s].pc = "mark"
        BY <3>2, <3>3, <3>7, <4>1, <4>2
      <4>3. CASE flow'[s].pc = "grant"
        BY <3>2, <3>4, <3>7, <4>1, <4>3, NotSent
      <4>4. CASE flow'[s].pc = "reading"
        BY <3>2, <3>5, <3>6, <3>7, <4>1, <4>4
      <4>5. QED BY <3>1, <3>2, <4>2, <4>3, <4>4
    <3>9. QED BY <1>1, <2>1, <3>8
  <2>3. CASE /\ op'.state \in MergedStates(legacy)
             /\ Becomes(s, "reading", op', flow[s].outcome, flow[s].dead, flow[s].reply)
    <3>1. op'.state \in {"unknown", "posted", "confirmed"}
      BY <2>3 DEF MergedStates
    <3>2. flow[s].outcome # "broken" /\ (~flow[s].dead => up[s] = "on") /\ flow[s].reply = "none"
      BY <1>2, <2>1
    <3>3. Place(s)'
      BY <2>1, <2>3, <3>1, <3>2
    <3>4. QED BY <1>1, <2>1, <3>3
  <2>4. QED BY <1>6, <2>2, <2>3, ImportStep
<1>7. CASE Read(s)
  BY <1>1, <1>2, <1>4, <1>7, ReadStep DEF MayResend, States
<1>8. CASE Confirm(s)
  BY <1>1, <1>2, <1>8, ConfirmStep
<1>9. CASE Grant(s)
  BY <1>1, <1>2, <1>9, GrantStep
<1>10. CASE Mark(s)
  BY <1>1, <1>2, <1>10, MarkStep
<1>11. CASE Post(s)
  BY <1>1, <1>2, <1>11, PostStep
<1>12. CASE CallFails(s)
  BY <1>1, <1>2, <1>12, CallFailsStep
<1>13. CASE Abandon(s)
  BY <1>1, <1>2, <1>13, AbandonStep
<1>14. CASE Receive(s)
  BY <1>1, <1>2, <1>14, ReceiveStep
<1>15. CASE Note(s)
  <2>1. /\ Others(s) /\ UNCHANGED <<legacy, up>> /\ flow[s].pc = "save"
        /\ op'.state = VerdictState(flow[s].outcome)
        /\ \/ Becomes(s, "idle", NewRow, "loaded", FALSE, "none")
           \/ /\ AfterCall(flow[s].outcome) # "idle"
              /\ Becomes(s, AfterCall(flow[s].outcome), op', flow[s].outcome, flow[s].dead,
                         flow[s].reply)
    BY <1>15, NoteStep
  <2>2. CASE Becomes(s, "idle", NewRow, "loaded", FALSE, "none")
    BY <1>1, <2>1, <2>2
  <2>3. CASE /\ AfterCall(flow[s].outcome) # "idle"
             /\ Becomes(s, AfterCall(flow[s].outcome), op', flow[s].outcome, flow[s].dead,
                        flow[s].reply)
    <3>1. flow[s].reply = "none" /\ (~flow[s].dead => up[s] = "on")
      BY <1>2, <2>1
    <3>2. CASE flow[s].outcome = "limited"
      <4>1. flow'[s].pc = "mark" /\ op'.state = "rejected"
        BY <2>1, <2>3, <3>2 DEF AfterCall, VerdictState
      <4>2. QED BY <1>1, <2>1, <2>3, <3>1, <4>1
    <3>3. CASE flow[s].outcome = "unconnected"
      <4>1. flow'[s].pc = "grant" /\ op'.state = "not_sent"
        BY <2>1, <2>3, <3>3 DEF AfterCall, VerdictState
      <4>2. QED BY <1>1, <2>1, <2>3, <3>1, <4>1, NotSent
    <3>4. CASE flow[s].outcome \in {"broken", "unavailable", "odd"}
      <4>1. flow'[s].pc = "reading" /\ op'.state = "unknown"
        BY <2>1, <2>3, <3>4 DEF AfterCall, VerdictState
      <4>2. QED BY <1>1, <2>1, <2>3, <3>1, <4>1
    <3>5. flow[s].outcome \in {"limited", "unconnected", "broken", "unavailable", "odd"}
      BY <2>3 DEF AfterCall
    <3>6. QED BY <3>2, <3>3, <3>4, <3>5
  <2>4. QED BY <2>1, <2>2, <2>3
<1>16. CASE Fail(s)
  BY <1>1, <1>2, <1>16, FailStep
<1>17. QED
  BY <1>5, <1>6, <1>7, <1>8, <1>9, <1>10, <1>11, <1>12, <1>13, <1>14, <1>15, <1>16 DEF Flow

LEMMA PlaceNext ==
  ASSUME TypeOK, SubmissionAssumption, PlaceInv, [Next]_vars
  PROVE  PlaceInv'
<1>1. ASSUME NEW s \in Servers, Others(s), UNCHANGED legacy, Place(s)',
             \A t \in Servers \ {s} : up'[t] = up[t]
      PROVE  PlaceInv'
  BY <1>1 DEF PlaceInv, Place, Others
<1>2. \A s \in Servers : Place(s)
  BY DEF PlaceInv, Place
<1>3. FlowOK
  BY DEF TypeOK, FlowOK
<1>4. CASE LoseLock
  BY <1>4 DEF LoseLock, PlaceInv, durable
<1>5. ASSUME NEW s \in Servers, Start(s)
      PROVE  PlaceInv'
  BY <1>5 DEF Start, PlaceInv, durable, TypeOK
<1>6. ASSUME NEW s \in Servers, Cease(s)
      PROVE  PlaceInv'
  <2>1. CASE flow[s].pc = "idle"
    BY <1>6, <2>1 DEF Cease, PlaceInv, durable, TypeOK
  <2>2. CASE flow[s].pc # "idle"
    <3>1. Others(s) /\ Becomes(s, flow[s].pc, flow[s].rec, flow[s].outcome, TRUE, flow[s].reply)
      BY <1>3, <1>6, <2>2, DeadStep DEF Cease
    <3>2. UNCHANGED legacy /\ \A t \in Servers \ {s} : up'[t] = up[t]
      BY <1>6 DEF Cease, durable, TypeOK
    <3>3. Place(s)'
      BY <1>2, <3>1, <3>2 DEF Place, Becomes
    <3>4. QED BY <1>1, <3>1, <3>2, <3>3
  <2>3. QED BY <2>1, <2>2
<1>7. ASSUME NEW s \in Servers, Close(s)
      PROVE  PlaceInv'
  BY <1>7 DEF Close, PlaceInv, durable, TypeOK
<1>8. ASSUME NEW s \in Servers, Crash(s)
      PROVE  PlaceInv'
  <2>1. Others(s) /\ UNCHANGED legacy /\ Becomes(s, "idle", NewRow, "loaded", FALSE, "none")
        /\ \A t \in Servers \ {s} : up'[t] = up[t]
    BY <1>8, CrashStep DEF TypeOK
  <2>2. Place(s)'
    BY <2>1 DEF Place, Becomes
  <2>3. QED BY <1>1, <2>1, <2>2
<1>9. ASSUME NEW s \in Servers, Submit(s)
      PROVE  PlaceInv'
  <2>1. Others(s) /\ UNCHANGED <<legacy, up>> /\ flow[s].pc = "idle" /\ up[s] = "on"
        /\ Becomes(s, "load", flow[s].rec, flow[s].outcome, flow[s].dead, flow[s].reply)
    BY <1>9, SubmitStep
  <2>2. Place(s)'
    BY <1>2, <2>1 DEF Place, Becomes
  <2>3. QED BY <1>1, <2>1, <2>2
<1>10. ASSUME NEW s \in Servers, Cancel(s)
      PROVE  PlaceInv'
  <2>1. Others(s) /\ Becomes(s, flow[s].pc, flow[s].rec, flow[s].outcome, TRUE, flow[s].reply)
    BY <1>3, <1>10, DeadStep DEF Cancel
  <2>2. UNCHANGED <<legacy, up>>
    BY <1>10 DEF Cancel, durable, leader
  <2>3. Place(s)'
    BY <1>2, <2>1, <2>2 DEF Place, Becomes
  <2>4. QED BY <1>1, <2>1, <2>2, <2>3
<1>11. ASSUME NEW s \in Servers, Flow(s)
      PROVE  PlaceInv'
  BY <1>11, PlaceFlow
<1>12. ASSUME NEW a \in net, Decide(a)
      PROVE  PlaceInv'
  <2>1. UNCHANGED <<legacy, up>>
        /\ \A s \in Servers :
             /\ flow'[s].pc = flow[s].pc /\ flow'[s].rec = flow[s].rec
             /\ flow'[s].outcome = flow[s].outcome /\ flow'[s].dead = flow[s].dead
             /\ flow[s].pc # "wire" => flow'[s].reply = flow[s].reply
    BY <1>12, DecideStep
  <2>2. QED BY <2>1 DEF PlaceInv
<1>13. CASE UNCHANGED vars
  BY <1>13 DEF vars, PlaceInv
<1>14. QED
  BY <1>4, <1>5, <1>6, <1>7, <1>8, <1>9, <1>10, <1>11, <1>12, <1>13 DEF Next, Leadership

\* The steps that leave the row and the count of refusals as they are.
LEMMA QuietSteps ==
  ASSUME TypeOK, SubmissionAssumption, [Next]_vars
  PROVE  \/ UNCHANGED <<op, refusals>>
         \/ \E s \in Servers : Import(s) \/ Confirm(s) \/ Grant(s) \/ Mark(s) \/ Note(s)
<1>1. CASE LoseLock
  BY <1>1 DEF LoseLock, durable
<1>2. ASSUME NEW s \in Servers, Leadership(s) \/ Submit(s) \/ Cancel(s)
      PROVE  UNCHANGED <<op, refusals>>
  BY <1>2 DEF Leadership, Start, Cease, Close, Crash, Submit, Cancel, durable
<1>3. ASSUME NEW s \in Servers, Flow(s)
      PROVE  \/ UNCHANGED <<op, refusals>>
             \/ Import(s) \/ Confirm(s) \/ Grant(s) \/ Mark(s) \/ Note(s)
  BY <1>3 DEF Flow, Load, Read, Post, CallFails, Abandon, Receive, Fail, durable
<1>4. ASSUME NEW a \in net, Decide(a)
      PROVE  UNCHANGED <<op, refusals>>
  BY <1>4, DecideStep
<1>5. CASE UNCHANGED vars
  BY <1>5 DEF vars
<1>6. QED BY <1>1, <1>2, <1>3, <1>4, <1>5 DEF Next

\* An attempt is paid for: by a refusal, by a retry, or by being the last one.
LEMMA BudgetNext ==
  ASSUME TypeOK, SubmissionAssumption, PlaceInv, AttemptInv, RetryBudget, [Next]_vars
  PROVE  RetryBudget'
<1>1. /\ op.attempt \in Nat /\ op.retries \in Nat /\ refusals \in Nat /\ FlowOK
  BY DEF TypeOK, Record, MaxRetries, FlowOK
<1>2. CASE UNCHANGED <<op, refusals>>
  BY <1>2 DEF RetryBudget
<1>3. ASSUME NEW s \in Servers, Import(s)
      PROVE  RetryBudget'
  <2>1. CASE UNCHANGED op
    BY <1>3, <2>1, ImportStep DEF RetryBudget
  <2>2. CASE op'.state \in MergedStates(legacy) /\ op'.attempt = flow[s].rec.attempt
             /\ flow[s].rec.state = "new" /\ Matches(flow[s].rec)
    <3>1. op.state = "new" /\ op'.attempt = op.attempt
      BY <2>2 DEF Matches
    <3>2. op'.attempt = 0 /\ refusals' = 0
      BY <1>3, <3>1, ImportStep DEF AttemptInv, NewRow
    <3>3. op'.state \notin Sendable
      BY <2>2 DEF MergedStates, Settled, Sendable
    <3>4. op'.retries \in Nat
      BY <1>3, ImportStep DEF Record, MaxRetries
    <3>5. QED BY <3>2, <3>3, <3>4 DEF RetryBudget
  <2>3. QED BY <1>3, <2>1, <2>2, ImportStep
<1>4. ASSUME NEW s \in Servers, Confirm(s)
      PROVE  RetryBudget'
  <2>1. op'.state = "confirmed" /\ op'.attempt = op.attempt /\ op'.retries = op.retries
        /\ refusals' = refusals
    BY <1>4, ConfirmStep DEF Matches
  <2>2. op.attempt <= refusals + op.retries + 1
    BY <1>1 DEF RetryBudget
  <2>3. QED BY <2>1, <2>2 DEF RetryBudget, Sendable
<1>5. ASSUME NEW s \in Servers, Grant(s)
      PROVE  RetryBudget'
  <2>1. op'.attempt = op.attempt /\ refusals' = refusals
        /\ \/ op'.state = "retry_exhausted" /\ op'.retries = op.retries
           \/ op'.state = "retry_ready" /\ op'.retries = op.retries + 1
    BY <1>5, GrantStep DEF Matches
  <2>2. op.attempt <= refusals + op.retries + 1
    BY <1>1 DEF RetryBudget
  <2>3. CASE op'.state = "retry_exhausted" /\ op'.retries = op.retries
    BY <2>1, <2>2, <2>3 DEF RetryBudget, Sendable
  <2>4. CASE op'.state = "retry_ready" /\ op'.retries = op.retries + 1
    BY <1>1, <2>1, <2>2, <2>4 DEF RetryBudget, Sendable
  <2>5. QED BY <2>1, <2>3, <2>4
<1>6. ASSUME NEW s \in Servers, Mark(s)
      PROVE  RetryBudget'
  <2>1. op'.state = "pending" /\ op'.attempt = op.attempt + 1 /\ op'.retries = op.retries
        /\ refusals' = refusals
    BY <1>6, MarkStep DEF Matches
  <2>2. op.state \in Sendable
    BY <1>6, MarkStep DEF Matches, PlaceInv
  <2>3. op.attempt <= refusals + op.retries
    BY <1>1, <2>2 DEF RetryBudget
  <2>4. QED BY <1>1, <2>1, <2>3 DEF RetryBudget, Sendable
<1>7. ASSUME NEW s \in Servers, Note(s)
      PROVE  RetryBudget'
  <2>a. /\ op'.attempt = flow[s].rec.attempt /\ op'.retries = flow[s].rec.retries
        /\ Matches(flow[s].rec)
        /\ op'.state = "rejected" => refusals' = refusals + 1
        /\ op'.state # "rejected" => refusals' = refusals
        /\ op'.state = VerdictState(flow[s].outcome) /\ flow[s].outcome \in Outcomes
    BY <1>7, NoteStep
  <2>1. op'.attempt = op.attempt /\ op'.retries = op.retries
    BY <2>a DEF Matches
  <2>2. op.attempt <= refusals + op.retries + 1
    BY <1>1 DEF RetryBudget
  <2>3. CASE op'.state = "rejected"
    BY <1>1, <2>1, <2>2, <2>3, <2>a DEF RetryBudget, Sendable
  <2>4. CASE op'.state # "rejected"
    <3>1. op'.state \in {"not_sent", "posted", "unknown"}
      BY <2>4, <2>a, VerdictType
    <3>2. QED BY <1>1, <2>1, <2>2, <2>4, <2>a, <3>1 DEF RetryBudget, Sendable
  <2>5. QED BY <2>3, <2>4
<1>8. QED BY <1>2, <1>3, <1>4, <1>5, <1>6, <1>7, QuietSteps

\* A flow that is in the call of its attempt.
InCall(s) == flow[s].pc \in {"call", "wire", "save"}

\* What a step of s does to the numbers of attempts.
Numbers(s) ==
  /\ Others(s)
  /\ \/ /\ op'.attempt = op.attempt
        /\ flow'[s].rec.attempt \in {flow[s].rec.attempt, op.attempt, 0}
        /\ InCall(s)' => InCall(s) /\ flow'[s].rec.attempt = flow[s].rec.attempt
     \/ op'.attempt = op.attempt + 1 /\ flow'[s].rec.attempt = op'.attempt
  /\ op'.state = "new" => op' = op /\ refusals' = refusals

LEMMA NumbersFlow ==
  ASSUME TypeOK, SubmissionAssumption, NEW s \in Servers, Flow(s)
  PROVE  Numbers(s)
<1> USE DEF Becomes
<1>1. NewRow.attempt = 0
  BY DEF NewRow
<1>2. CASE Load(s)
  BY <1>2, LoadStep DEF Numbers, InCall
<1>3. CASE Import(s)
  <2>1. CASE /\ UNCHANGED op
             /\ Becomes(s, Entrance(flow[s].rec.state), flow[s].rec, flow[s].outcome,
                        flow[s].dead, flow[s].reply)
    <3>1. Entrance(flow[s].rec.state) \in {"mark", "grant", "reading"}
      BY DEF Entrance
    <3>2. QED BY <1>3, <2>1, <3>1, ImportStep DEF Numbers, InCall
  <2>2. CASE /\ op'.state \in MergedStates(legacy) /\ Matches(flow[s].rec)
             /\ op'.attempt = flow[s].rec.attempt
             /\ Becomes(s, "reading", op', flow[s].outcome, flow[s].dead, flow[s].reply)
    <3>1. op'.state # "new"
      BY <2>2 DEF MergedStates, Settled
    <3>2. op'.attempt = op.attempt
      BY <2>2 DEF Matches
    <3>3. QED BY <1>3, <2>2, <3>1, <3>2, ImportStep DEF Numbers, InCall
  <2>3. QED BY <1>3, <2>1, <2>2, ImportStep
<1>4. CASE Read(s)
  BY <1>1, <1>4, ReadStep DEF Numbers, InCall
<1>5. CASE Confirm(s)
  BY <1>1, <1>5, ConfirmStep DEF Numbers, InCall, Matches
<1>6. CASE Grant(s)
  BY <1>1, <1>6, GrantStep DEF Numbers, InCall, Matches
<1>7. CASE Mark(s)
  BY <1>7, MarkStep DEF Numbers, Matches
<1>8. CASE Post(s)
  BY <1>8, PostStep DEF Numbers, InCall
<1>9. CASE CallFails(s)
  BY <1>9, CallFailsStep DEF Numbers, InCall
<1>10. CASE Abandon(s)
  BY <1>10, AbandonStep DEF Numbers, InCall
<1>11. CASE Receive(s)
  BY <1>11, ReceiveStep DEF Numbers, InCall
<1>12. CASE Note(s)
  <2>1. op'.state # "new" /\ Others(s) /\ op'.attempt = flow[s].rec.attempt /\ Matches(flow[s].rec)
    BY <1>12, NoteStep, VerdictType
  <2>2. AfterCall(flow[s].outcome) \in {"mark", "grant", "reading", "idle"}
    BY DEF AfterCall
  <2>3. /\ flow'[s].pc \in {"mark", "grant", "reading", "idle"}
        /\ flow'[s].rec = op' \/ flow'[s].rec = NewRow
    BY <1>12, <2>2, NoteStep
  <2>4. op'.attempt = op.attempt
    BY <2>1 DEF Matches
  <2>5. QED BY <1>1, <2>1, <2>3, <2>4 DEF Numbers, InCall
<1>13. CASE Fail(s)
  BY <1>1, <1>13, FailStep DEF Numbers, InCall
<1>14. QED
  BY <1>2, <1>3, <1>4, <1>5, <1>6, <1>7, <1>8, <1>9, <1>10, <1>11, <1>12, <1>13 DEF Flow

LEMMA AttemptNext ==
  ASSUME TypeOK, SubmissionAssumption, AttemptInv, [Next]_vars
  PROVE  AttemptInv'
<1>1. /\ op.attempt \in Nat /\ FlowOK
      /\ \A s \in Servers : flow[s].rec.attempt \in Nat /\ flow[s].rec.attempt <= op.attempt
  BY FlowFields DEF TypeOK, Record, FlowOK, AttemptInv
<1>2. ASSUME NEW s \in Servers, Numbers(s)
      PROVE  AttemptInv'
  <2>1. \A t \in Servers : flow'[t].rec.attempt <= op'.attempt
    BY <1>1, <1>2 DEF Numbers, Others
  <2>2. \A t \in Servers \ {s} : flow'[t] = flow[t]
    BY <1>2 DEF Numbers, Others
  <2>3. ASSUME NEW t \in Servers \ {s}, InCall(s)', InCall(t)
        PROVE  flow'[s].rec.attempt # flow[t].rec.attempt
    BY <1>1, <1>2, <2>3 DEF Numbers, InCall, AttemptInv
  <2>4. ASSUME NEW t \in Servers, NEW u \in Servers, t # u, InCall(t)', InCall(u)'
        PROVE  flow'[t].rec.attempt # flow'[u].rec.attempt
    BY <2>2, <2>3, <2>4 DEF InCall, AttemptInv
  <2>5. op'.state = "new" => op' = NewRow /\ refusals' = 0
    BY <1>2 DEF Numbers, AttemptInv
  <2>6. QED BY <2>1, <2>4, <2>5 DEF AttemptInv, InCall
<1>3. ASSUME UNCHANGED <<op, refusals>>,
             \A s \in Servers :
               /\ flow'[s].rec = flow[s].rec \/ flow'[s].rec = NewRow
               /\ InCall(s)' => InCall(s) /\ flow'[s].rec = flow[s].rec
      PROVE  AttemptInv'
  BY <1>1, <1>3 DEF AttemptInv, InCall, NewRow
<1>4. CASE LoseLock
  BY <1>3, <1>4 DEF LoseLock, durable, InCall
<1>5. ASSUME NEW s \in Servers, Start(s) \/ Close(s)
      PROVE  AttemptInv'
  BY <1>3, <1>5 DEF Start, Close, durable, InCall
<1>6. ASSUME NEW s \in Servers, Cease(s) \/ Cancel(s)
      PROVE  AttemptInv'
  <2>1. UNCHANGED <<op, refusals>>
    BY <1>6 DEF Cease, Cancel, durable
  <2>2. flow' = flow \/ flow' = [flow EXCEPT ![s].dead = TRUE]
    BY <1>6 DEF Cease, Cancel
  <2>3. \A t \in Servers : flow'[t].rec = flow[t].rec /\ flow'[t].pc = flow[t].pc
    BY <1>1, <2>2, DeadStep DEF Others, Becomes
  <2>4. QED BY <1>3, <2>1, <2>3 DEF InCall
<1>7. ASSUME NEW s \in Servers, Crash(s)
      PROVE  AttemptInv'
  BY <1>3, <1>7, CrashStep DEF Others, Becomes, InCall
<1>8. ASSUME NEW s \in Servers, Submit(s)
      PROVE  AttemptInv'
  BY <1>3, <1>8, SubmitStep DEF Others, Becomes, InCall
<1>9. ASSUME NEW s \in Servers, Flow(s)
      PROVE  AttemptInv'
  BY <1>2, <1>9, NumbersFlow
<1>10. ASSUME NEW a \in net, Decide(a)
      PROVE  AttemptInv'
  <2>1. UNCHANGED <<op, refusals>>
        /\ \A s \in Servers : flow'[s].rec = flow[s].rec /\ flow'[s].pc = flow[s].pc
    BY <1>10, DecideStep
  <2>2. QED BY <1>3, <2>1 DEF InCall
<1>11. CASE UNCHANGED vars
  BY <1>3, <1>11 DEF vars, InCall
<1>12. QED
  BY <1>4, <1>5, <1>6, <1>7, <1>8, <1>9, <1>10, <1>11 DEF Next, Leadership

\* The part of AnswerInv that speaks of one flow.
Answer(s) ==
  /\ flow[s].pc = "confirm" => count > 0
  /\ flow[s].pc = "wire" /\ flow[s].reply = "accepted" => count > 0
  /\ flow[s].pc = "save" /\ flow[s].outcome = "accepted" => count > 0

LEMMA AnswerFlow ==
  ASSUME TypeOK, SubmissionAssumption, PlaceInv, AnswerInv, SettledIsAnswered,
         NEW s \in Servers, Flow(s)
  PROVE  /\ Others(s) /\ Answer(s)' /\ SettledIsAnswered'
         /\ UNCHANGED <<legacy, count>>
<1> USE DEF Becomes
<1>1. Answer(s) /\ (flow[s].pc # "wire" => flow[s].reply = "none")
  BY DEF AnswerInv, Answer, PlaceInv
<1>2. CASE Load(s)
  BY <1>1, <1>2, LoadStep DEF Answer, SettledIsAnswered
<1>3. CASE Import(s)
  <2>1. Others(s) /\ UNCHANGED <<legacy, count>>
    BY <1>3, ImportStep
  <2>2. CASE /\ UNCHANGED op
             /\ Becomes(s, Entrance(flow[s].rec.state), flow[s].rec, flow[s].outcome,
                        flow[s].dead, flow[s].reply)
    <3>1. Entrance(flow[s].rec.state) \in {"mark", "grant", "reading"}
      BY DEF Entrance
    <3>2. QED BY <1>1, <2>1, <2>2, <3>1 DEF Answer, SettledIsAnswered
  <2>3. CASE /\ op'.state \in MergedStates(legacy)
             /\ Becomes(s, "reading", op', flow[s].outcome, flow[s].dead, flow[s].reply)
    <3>1. op'.state \in Settled => \E row \in legacy : row.state \in Settled
      BY <2>3 DEF MergedStates, Settled
    <3>2. QED BY <2>1, <2>3, <3>1 DEF Answer, SettledIsAnswered, AnswerInv
  <2>4. QED BY <1>3, <2>2, <2>3, ImportStep
<1>4. CASE Read(s)
  BY <1>1, <1>4, ReadStep DEF Answer, SettledIsAnswered
<1>5. CASE Confirm(s)
  BY <1>1, <1>5, ConfirmStep DEF Answer, SettledIsAnswered
<1>6. CASE Grant(s)
  BY <1>1, <1>6, GrantStep DEF Answer, SettledIsAnswered, Settled
<1>7. CASE Mark(s)
  BY <1>1, <1>7, MarkStep DEF Answer, SettledIsAnswered, Settled
<1>8. CASE Post(s)
  BY <1>1, <1>8, PostStep DEF Answer, SettledIsAnswered
<1>9. CASE CallFails(s)
  BY <1>1, <1>9, CallFailsStep DEF Answer, SettledIsAnswered
<1>10. CASE Abandon(s)
  BY <1>1, <1>10, AbandonStep DEF Answer, SettledIsAnswered
<1>11. CASE Receive(s)
  BY <1>1, <1>11, ReceiveStep DEF Answer, SettledIsAnswered
<1>12. CASE Note(s)
  <2>1. op'.state \in Settled => flow[s].pc = "save" /\ flow[s].outcome = "accepted"
    BY <1>12, NoteStep DEF VerdictState, Settled
  <2>2. AfterCall(flow[s].outcome) \in {"mark", "grant", "reading", "idle"}
    BY DEF AfterCall
  <2>3. Others(s) /\ UNCHANGED <<legacy, count>> /\ flow'[s].pc \in {"mark", "grant", "reading", "idle"}
    BY <1>12, <2>2, NoteStep
  <2>4. QED BY <1>1, <2>1, <2>3 DEF Answer, SettledIsAnswered
<1>13. CASE Fail(s)
  BY <1>1, <1>13, FailStep DEF Answer, SettledIsAnswered
<1>14. QED
  BY <1>2, <1>3, <1>4, <1>5, <1>6, <1>7, <1>8, <1>9, <1>10, <1>11, <1>12, <1>13 DEF Flow

LEMMA AnswerNext ==
  ASSUME TypeOK, SubmissionAssumption, PlaceInv, AnswerInv, SettledIsAnswered, [Next]_vars
  PROVE  AnswerInv' /\ SettledIsAnswered'
<1>1. count \in Nat /\ FlowOK
  BY DEF TypeOK, FlowOK
<1>2. ASSUME NEW s \in Servers, Others(s), Answer(s)', SettledIsAnswered', UNCHANGED <<legacy, count>>
      PROVE  AnswerInv' /\ SettledIsAnswered'
  BY <1>2 DEF AnswerInv, Answer, Others
<1>3. ASSUME UNCHANGED <<op, legacy, count>>,
             \A s \in Servers :
               /\ flow'[s].pc = flow[s].pc \/ flow'[s].pc \in {"idle", "load"}
               /\ flow'[s].outcome = flow[s].outcome \/ flow'[s].pc = "idle"
               /\ flow'[s].reply = flow[s].reply \/ flow'[s].pc = "idle"
      PROVE  AnswerInv' /\ SettledIsAnswered'
  BY <1>3 DEF AnswerInv, SettledIsAnswered
<1>4. CASE LoseLock
  BY <1>3, <1>4 DEF LoseLock, durable, platform
<1>5. ASSUME NEW s \in Servers, Start(s) \/ Close(s)
      PROVE  AnswerInv' /\ SettledIsAnswered'
  BY <1>3, <1>5 DEF Start, Close, durable, platform
<1>6. ASSUME NEW s \in Servers, Cease(s) \/ Cancel(s)
      PROVE  AnswerInv' /\ SettledIsAnswered'
  <2>1. UNCHANGED <<op, legacy, count>>
    BY <1>6 DEF Cease, Cancel, durable, platform
  <2>2. flow' = flow \/ flow' = [flow EXCEPT ![s].dead = TRUE]
    BY <1>6 DEF Cease, Cancel
  <2>3. \A t \in Servers : /\ flow'[t].pc = flow[t].pc /\ flow'[t].outcome = flow[t].outcome
                           /\ flow'[t].reply = flow[t].reply
    BY <1>1, <2>2, DeadStep DEF Others, Becomes
  <2>4. QED BY <1>3, <2>1, <2>3
<1>7. ASSUME NEW s \in Servers, Crash(s)
      PROVE  AnswerInv' /\ SettledIsAnswered'
  BY <1>3, <1>7, CrashStep DEF Others, Becomes
<1>8. ASSUME NEW s \in Servers, Submit(s)
      PROVE  AnswerInv' /\ SettledIsAnswered'
  BY <1>3, <1>8, SubmitStep DEF Others, Becomes
<1>9. ASSUME NEW s \in Servers, Flow(s)
      PROVE  AnswerInv' /\ SettledIsAnswered'
  BY <1>2, <1>9, AnswerFlow
<1>10. ASSUME NEW a \in net, Decide(a)
      PROVE  AnswerInv' /\ SettledIsAnswered'
  <2>1. PICK how \in Responses :
          /\ UNCHANGED <<op, legacy>>
          /\ count' \in {count, count + 1}
          /\ how = "accepted" => count' = count + 1
          /\ \A s \in Servers :
               /\ flow'[s].pc = flow[s].pc /\ flow'[s].outcome = flow[s].outcome
               /\ flow'[s].reply = flow[s].reply \/ flow'[s].reply = how
    BY <1>10, DecideStep
  <2>2. (count > 0 => count' > 0) /\ (how = "accepted" => count' > 0)
    BY <1>1, <2>1
  <2>3. SettledIsAnswered'
    BY <2>1, <2>2 DEF SettledIsAnswered
  <2>4. QED BY <2>1, <2>2, <2>3 DEF AnswerInv
<1>11. CASE UNCHANGED vars
  BY <1>3, <1>11 DEF vars
<1>12. QED
  BY <1>4, <1>5, <1>6, <1>7, <1>8, <1>9, <1>10, <1>11 DEF Next, Leadership

\* The invariant that holds without any timing assumption: a flow's place
\* fits its copy of the row, attempts number the calls, every attempt is paid
\* for, and what the journal calls answered is answered.
THEOREM Safe == Spec => []SafeInv
<1>1. Init => SafeInv
  BY SafeInit
<1>2. TypeOK /\ SafeInv /\ [Next]_vars => SafeInv'
  BY SubmissionAssumption, PlaceNext, AttemptNext, BudgetNext, AnswerNext DEF SafeInv
<1>3. QED BY <1>1, <1>2, TypeCorrect, PTL DEF Spec

\* Service.submit never spends an attempt it was not allowed: docs/submission-retries.md.
THEOREM RetryBudgetTheorem == Spec => []RetryBudget
<1>1. SafeInv => RetryBudget
  BY DEF SafeInv
<1>2. QED BY <1>1, Safe, PTL

\* A row in state posted or confirmed stands for an answer the platform has.
THEOREM SettledTheorem == Spec => []SettledIsAnswered
<1>1. SafeInv => SettledIsAnswered
  BY DEF SafeInv
<1>2. QED BY <1>1, Safe, PTL

-----------------------------------------------------------------------------
(* The journal implements the ledger.                                       *)

LEMMA LedgerStep ==
  ASSUME TypeOK, SubmissionAssumption, PlaceInv, AttemptInv, [Next]_vars
  PROVE  [Ledger!Next]_(Ledger!ledger)
<1> USE DEF Ledger!Next, Ledger!ledger, Ledger!Send, Ledger!Refuse, Ledger!Resend, Ledger!Settle,
            Ledger!Import, Ledger!Allowance
<1>1. op.attempt \in Nat /\ op.retries \in 0 .. 2 /\ refusals \in Nat
  BY DEF TypeOK, Record, MaxRetries
<1>2. CASE UNCHANGED <<op, refusals>>
  BY <1>2 DEF Status
<1>3. ASSUME NEW s \in Servers, Import(s)
      PROVE  [Ledger!Next]_(Ledger!ledger)
  <2>1. CASE UNCHANGED op
    BY <1>3, <2>1, ImportStep DEF Status
  <2>2. CASE /\ flow[s].rec.state = "new" /\ Matches(flow[s].rec)
             /\ op'.state \in MergedStates(legacy)
             /\ op'.attempt = flow[s].rec.attempt
    <3>1. op = NewRow /\ refusals = 0 /\ refusals' = 0 /\ op'.retries \in 0 .. 2
      BY <1>3, <2>2, ImportStep DEF AttemptInv, Matches, Record, MaxRetries
    <3>2. Status = "open" /\ MaxRetries - op.retries = 2 /\ op.attempt - refusals = 0
      BY <3>1 DEF Status, NewRow, Sendable, MaxRetries
    <3>3. op'.attempt - refusals' = 0
      BY <2>2, <3>1 DEF Matches, NewRow
    <3>4. Status' \in {"unsure", "settled"}
      BY <2>2 DEF Status, MergedStates, Sendable, Settled
    <3>5. (MaxRetries - op.retries)' \in 0 .. 2
      BY <3>1 DEF MaxRetries
    <3>6. QED BY <3>2, <3>3, <3>4, <3>5
  <2>3. QED BY <1>3, <2>1, <2>2, ImportStep
<1>4. ASSUME NEW s \in Servers, Confirm(s)
      PROVE  [Ledger!Next]_(Ledger!ledger)
  <2>1. op'.state = "confirmed" /\ op'.attempt = op.attempt /\ op'.retries = op.retries
        /\ refusals' = refusals
    BY <1>4, ConfirmStep DEF Matches
  <2>2. Status' = "settled"
    BY <2>1 DEF Status, Sendable, Settled
  <2>3. QED BY <2>1, <2>2
<1>5. ASSUME NEW s \in Servers, Grant(s)
      PROVE  [Ledger!Next]_(Ledger!ledger)
  <2>1. op'.attempt = op.attempt /\ refusals' = refusals /\ op' \in Record
        /\ \/ op'.state = "retry_exhausted" /\ op'.retries = op.retries
           \/ op'.state = "retry_ready" /\ op'.retries = op.retries + 1
    BY <1>5, GrantStep DEF Matches
  <2>2. Status = "unsure"
    BY <1>5, GrantStep DEF Status, PlaceInv, Matches
  <2>3. CASE op'.state = "retry_exhausted" /\ op'.retries = op.retries
    <3>1. Status' = "unsure"
      BY <2>3 DEF Status, Sendable, Settled
    <3>2. QED BY <2>1, <2>2, <2>3, <3>1
  <2>4. CASE op'.state = "retry_ready" /\ op'.retries = op.retries + 1
    <3>1. Status' = "open"
      BY <2>4 DEF Status, Sendable
    <3>2. MaxRetries - op.retries > 0 /\ (MaxRetries - op.retries)' = MaxRetries - op.retries - 1
      BY <1>1, <2>1, <2>4 DEF MaxRetries, Record
    <3>3. QED BY <2>1, <2>2, <3>1, <3>2
  <2>5. QED BY <2>1, <2>3, <2>4
<1>6. ASSUME NEW s \in Servers, Mark(s)
      PROVE  [Ledger!Next]_(Ledger!ledger)
  <2>1. op'.state = "pending" /\ op'.attempt = op.attempt + 1 /\ op'.retries = op.retries
        /\ refusals' = refusals
    BY <1>6, MarkStep DEF Matches
  <2>2. Status = "open"
    BY <1>6, MarkStep DEF Matches, PlaceInv, Status
  <2>3. Status' = "unsure"
    BY <2>1 DEF Status, Sendable, Settled
  <2>4. (op.attempt - refusals)' = op.attempt - refusals + 1
    BY <1>1, <2>1
  <2>5. QED BY <2>1, <2>2, <2>3, <2>4
<1>7. ASSUME NEW s \in Servers, Note(s)
      PROVE  [Ledger!Next]_(Ledger!ledger)
  <2>1. /\ op'.attempt = flow[s].rec.attempt /\ op'.retries = flow[s].rec.retries
        /\ Matches(flow[s].rec) /\ flow[s].pc = "save"
        /\ op'.state = "rejected" => refusals' = refusals + 1
        /\ op'.state # "rejected" => refusals' = refusals
        /\ op'.state = VerdictState(flow[s].outcome) /\ flow[s].outcome \in Outcomes
    BY <1>7, NoteStep
  <2>2. op'.attempt = op.attempt /\ op'.retries = op.retries
    BY <2>1 DEF Matches
  <2>3. Status = "unsure"
    BY <2>1 DEF Matches, PlaceInv, Status, Sendable, Settled
  <2>4. CASE op'.state = "rejected"
    <3>1. Status' = "open"
      BY <2>4 DEF Status, Sendable
    <3>2. (op.attempt - refusals)' = op.attempt - refusals - 1
      BY <1>1, <2>1, <2>2, <2>4
    <3>3. QED BY <2>2, <2>3, <3>1, <3>2
  <2>5. CASE op'.state = "posted"
    <3>1. Status' = "settled"
      BY <2>5 DEF Status, Sendable, Settled
    <3>2. QED BY <2>1, <2>2, <2>5, <3>1
  <2>6. CASE op'.state \in {"not_sent", "unknown"}
    <3>1. Status' = "unsure"
      BY <2>6 DEF Status, Sendable, Settled
    <3>2. QED BY <2>1, <2>2, <2>3, <2>6, <3>1
  <2>7. QED BY <2>1, <2>4, <2>5, <2>6, VerdictType
<1>8. QED BY <1>2, <1>3, <1>4, <1>5, <1>6, <1>7, QuietSteps

\* Whatever the flows, servers and messages do, the row behaves like the
\* ledger: three unrefused attempts at most, and settled for good.
THEOREM Implements == Spec => LedgerSpec
<1>1. Init => Ledger!Init
  BY DEF Init, NewRow, Status, Sendable, MaxRetries, Ledger!Init, Ledger!Allowance
<1>2. TypeOK /\ SafeInv /\ [Next]_vars => [Ledger!Next]_(Ledger!ledger)
  BY LedgerStep, SubmissionAssumption DEF SafeInv
<1>3. QED BY <1>1, <1>2, TypeCorrect, Safe, PTL DEF Spec, LedgerSpec, Ledger!Spec

-----------------------------------------------------------------------------
(* At most one accepted POST, under the two timing assumptions.             *)

Once == WeightInv /\ OnceInv

\* A place of s from which it cannot send, nor make the row sendable.
Tame(s) == /\ flow[s].pc \in {"idle", "load", "import", "reading", "confirm", "mark"}
           /\ flow[s].pc = "import" => flow[s].rec.state # "not_sent"

LEMMA TameFlow ==
  ASSUME NEW s \in Servers, Tame(s)
  PROVE  ~Active(s) /\ OnceFlow(s)
BY DEF Tame, Active, OnceFlow

\* An active flow is the only one in the call of the row's attempt.
LEMMA ActiveAlone ==
  ASSUME AttemptInv, OnceInv, NEW s \in Servers, NEW t \in Servers,
         Active(s), InCall(t), Current(t)
  PROVE  s = t
<1>1. InCall(s)
  BY DEF Active, InCall
<1>2. Current(s)
  BY DEF OnceInv, OnceFlow, Matches, Current
<1>3. QED BY <1>1, <1>2 DEF Current, InCall, AttemptInv

\* A step of s that leaves the row and the platform alone.
LEMMA OnceSilent ==
  ASSUME Once, NEW s \in Servers, Others(s), UNCHANGED <<op, legacy, net, count>>,
         Active(s)' => Active(s), OnceFlow(s)'
  PROVE  Once'
<1>1. WeightInv'
  BY DEF Once, WeightInv
<1>2. \A t \in Servers : Active(t)' => Active(t)
  BY DEF Others, Active
<1>3. OnceRow'
  BY <1>2 DEF Once, OnceInv, OnceRow
<1>4. ASSUME NEW t \in Servers \ {s}
      PROVE  OnceFlow(t)'
  <2>1. flow'[t] = flow[t] /\ (Active(t)' <=> Active(t)) /\ (Current(t)' <=> Current(t))
        /\ (Matches(flow[t].rec)' <=> Matches(flow[t].rec))
        /\ (Untouched' <=> Untouched)
    BY <1>4 DEF Others, Active, Current, Matches, Untouched
  <2>2. OnceFlow(t)
    BY DEF Once, OnceInv
  <2>3. QED BY <1>2, <2>1, <2>2 DEF OnceFlow
<1>5. QED BY <1>1, <1>3, <1>4 DEF Once, OnceInv

\* A step of s that saves the row of its attempt while nobody else is active.
LEMMA OnceSave ==
  ASSUME Once, NEW s \in Servers, Others(s), UNCHANGED <<legacy, net, count>>,
         op'.attempt = op.attempt, \A t \in Servers \ {s} : ~Active(t),
         ~Active(s)', OnceFlow(s)',
         op'.state \in Sendable \union {"not_sent"} => op'.state # "new" /\ Untouched
  PROVE  Once'
<1>1. WeightInv'
  BY DEF Once, WeightInv
<1>2. \A t \in Servers : ~Active(t)'
  BY DEF Others, Active
<1>3. OnceRow'
  BY <1>2 DEF OnceRow, Untouched
<1>4. ASSUME NEW t \in Servers \ {s}
      PROVE  OnceFlow(t)'
  <2>1. flow'[t] = flow[t] /\ (Current(t)' <=> Current(t)) /\ (Untouched' <=> Untouched)
    BY <1>4 DEF Others, Current, Untouched
  <2>2. OnceFlow(t)
    BY DEF Once, OnceInv
  <2>3. QED BY <1>2, <2>1, <2>2 DEF OnceFlow
<1>5. QED BY <1>1, <1>3, <1>4 DEF Once, OnceInv

LEMMA OnceRead ==
  ASSUME TypeOK, SafeInv, Once, PlatformPrompt, LeaderPrompt, NEW s \in Servers, Read(s)
  PROVE  Once'
<1>1. Others(s) /\ UNCHANGED <<op, legacy, net, count>> /\ flow[s].pc = "reading"
  BY ReadStep
<1>2. CASE flow'[s].pc \in {"confirm", "reading", "idle", "mark"}
  <2>1. Tame(s)'
    BY <1>2 DEF Tame
  <2>2. ~Active(s)' /\ OnceFlow(s)'
    BY <2>1, TameFlow DEF Tame, Active, OnceFlow
  <2>3. QED BY <1>1, <2>2, OnceSilent
<1>3. CASE flow'[s].pc = "grant" /\ count = 0 /\ Quiet(s)
  <2>1. Untouched /\ \A t \in Servers \ {s} : up[t] # "on"
    BY <1>3 DEF Quiet, Untouched
  <2>2. \A t \in Servers \ {s} : ~Active(t)
    BY <2>1 DEF Active, SafeInv, PlaceInv
  <2>3. \A t \in Servers : ~Active(t)'
    BY <1>1, <1>3, <2>2 DEF Active, Others
  <2>4. OnceFlow(s)'
    BY <1>1, <1>3, <2>1, <2>3 DEF OnceFlow, Untouched
  <2>5. QED BY <1>1, <2>3, <2>4, OnceSilent
<1>4. QED BY <1>2, <1>3, ReadStep DEF Becomes

LEMMA OnceImport ==
  ASSUME TypeOK, SubmissionAssumption, SafeInv, Once, NEW s \in Servers, Import(s)
  PROVE  Once'
<1>1. Others(s) /\ UNCHANGED <<legacy, net, count>> /\ flow[s].pc = "import"
  BY ImportStep
<1>2. CASE /\ UNCHANGED op
           /\ Becomes(s, Entrance(flow[s].rec.state), flow[s].rec, flow[s].outcome,
                      flow[s].dead, flow[s].reply)
  <2>1. flow'[s].pc = Entrance(flow[s].rec.state) /\ flow'[s].rec = flow[s].rec
    BY <1>2 DEF Becomes
  <2>2. CASE flow[s].rec.state = "not_sent"
    <3>1. flow'[s].pc = "grant"
      BY <2>1, <2>2 DEF Entrance
    <3>2. ~Active(s)'
      BY <3>1 DEF Active
    <3>3. \A t \in Servers : Active(t)' => Active(t)
      BY <1>1, <3>2 DEF Others, Active
    <3>4. OnceFlow(s)
      BY DEF Once, OnceInv
    <3>5. Current(s)' => Untouched' /\ \A t \in Servers : ~Active(t)'
      BY <1>1, <1>2, <2>1, <2>2, <3>3, <3>4 DEF OnceFlow, Current, Untouched
    <3>6. OnceFlow(s)'
      BY <3>1, <3>2, <3>5 DEF OnceFlow
    <3>7. QED BY <1>1, <1>2, <3>2, <3>6, OnceSilent
  <2>3. CASE flow[s].rec.state # "not_sent"
    <3>1. flow'[s].pc \in {"mark", "reading"}
      BY <2>1, <2>3 DEF Entrance
    <3>2. ~Active(s)' /\ OnceFlow(s)'
      BY <3>1 DEF Active, OnceFlow
    <3>3. QED BY <1>1, <1>2, <3>2, OnceSilent
  <2>4. QED BY <2>2, <2>3
<1>3. CASE /\ flow[s].rec.state = "new" /\ Matches(flow[s].rec)
           /\ op'.state \in MergedStates(legacy)
           /\ op'.attempt = flow[s].rec.attempt
           /\ Becomes(s, "reading", op', flow[s].outcome, flow[s].dead, flow[s].reply)
  <2>1. op.state = "new" /\ op'.attempt = op.attempt
    BY <1>3 DEF Matches
  <2>2. \A t \in Servers : ~Active(t)
    BY <2>1 DEF Once, OnceInv, OnceRow, Sendable
  <2>3. op'.state \notin Sendable \union {"not_sent"}
    BY <1>3 DEF MergedStates, Settled, Sendable
  <2>4. ~Active(s)' /\ OnceFlow(s)'
    BY <1>3 DEF Active, OnceFlow, Becomes
  <2>5. QED BY <1>1, <2>1, <2>2, <2>3, <2>4, OnceSave
<1>4. QED BY <1>2, <1>3, ImportStep

LEMMA OnceConfirm ==
  ASSUME TypeOK, SafeInv, Once, NEW s \in Servers, Confirm(s)
  PROVE  Once'
<1>1. Others(s) /\ UNCHANGED <<legacy, net, count>> /\ flow[s].pc = "confirm"
      /\ op'.state = "confirmed" /\ op'.attempt = op.attempt /\ flow'[s].pc = "idle"
  BY ConfirmStep DEF Becomes, Matches
<1>2. count > 0
  BY <1>1 DEF SafeInv, AnswerInv
<1>3. ASSUME NEW t \in Servers, Active(t)
      PROVE  FALSE
  <2>1. OnceFlow(t) /\ Current(t)
    BY <1>3 DEF Once, OnceInv, OnceFlow, Matches, Current
  <2>2. count = 0
    BY <1>3, <2>1 DEF OnceFlow, Active, Untouched, Refusals
  <2>3. QED BY <1>2, <2>2
<1>4. ~Active(s)' /\ OnceFlow(s)'
  BY <1>1 DEF Active, OnceFlow
<1>5. QED BY <1>1, <1>3, <1>4, OnceSave DEF Sendable

LEMMA OnceGrant ==
  ASSUME TypeOK, SafeInv, Once, NEW s \in Servers, Grant(s)
  PROVE  Once'
<1>1. Others(s) /\ UNCHANGED <<legacy, net, count>> /\ flow[s].pc = "grant"
      /\ op'.state \in {"retry_ready", "retry_exhausted"} /\ op'.attempt = op.attempt
      /\ flow'[s].pc \in {"idle", "mark"} /\ Current(s)
  BY GrantStep DEF Becomes, Matches, Current
<1>2. Untouched /\ \A t \in Servers : ~Active(t)
  BY <1>1 DEF Once, OnceInv, OnceFlow
<1>3. ~Active(s)' /\ OnceFlow(s)'
  BY <1>1 DEF Active, OnceFlow
<1>4. QED BY <1>1, <1>2, <1>3, OnceSave

LEMMA OnceNote ==
  ASSUME TypeOK, SafeInv, Once, NEW s \in Servers, Note(s)
  PROVE  Once'
<1>1. /\ Others(s) /\ UNCHANGED <<legacy, net, count>> /\ flow[s].pc = "save"
      /\ flow[s].outcome \in Outcomes
      /\ op'.state = VerdictState(flow[s].outcome) /\ Matches(flow[s].rec)
      /\ op'.attempt = flow[s].rec.attempt
      /\ flow'[s].pc = "idle" \/ flow'[s].pc = AfterCall(flow[s].outcome)
  BY NoteStep DEF Becomes
<1>2. Current(s) /\ op'.attempt = op.attempt
  BY <1>1 DEF Matches, Current
<1>3. \A t \in Servers : ~Active(t)
  <2>1. ~Active(s)
    BY <1>1 DEF Active
  <2>2. QED BY <1>1, <1>2, <2>1, ActiveAlone DEF InCall, SafeInv, Once
<1>4. op'.state \in Sendable \union {"not_sent"} => op'.state # "new" /\ Untouched
  <2>1. op'.state \in Sendable \union {"not_sent"} =>
          /\ flow[s].outcome \in {"unconnected", "signed_out", "limited", "refused"}
          /\ op'.state # "new"
    BY <1>1 DEF VerdictState, Sendable
  <2>2. QED BY <1>1, <1>2, <2>1 DEF Once, OnceInv, OnceFlow
<1>5. \A t \in Servers : ~Active(t)'
  <2>1. AfterCall(flow[s].outcome) \in {"mark", "grant", "reading", "idle"}
    BY DEF AfterCall
  <2>2. ~Active(s)'
    BY <1>1, <2>1 DEF Active
  <2>3. QED BY <1>1, <1>3, <2>2 DEF Active, Others
<1>6. OnceFlow(s)'
  <2>1. CASE flow'[s].pc = "grant"
    <3>1. flow[s].outcome = "unconnected"
      BY <1>1, <2>1 DEF AfterCall
    <3>2. Untouched'
      BY <1>1, <1>2, <3>1 DEF Once, OnceInv, OnceFlow, Untouched
    <3>3. QED BY <1>5, <2>1, <3>2 DEF OnceFlow
  <2>2. CASE flow'[s].pc \in {"mark", "reading", "idle"}
    BY <1>5, <2>2 DEF OnceFlow
  <2>3. AfterCall(flow[s].outcome) \in {"mark", "grant", "reading", "idle"}
    BY DEF AfterCall
  <2>4. QED BY <1>1, <2>1, <2>2, <2>3
<1>7. QED BY <1>1, <1>2, <1>3, <1>4, <1>5, <1>6, OnceSave

LEMMA OnceMark ==
  ASSUME TypeOK, SafeInv, Once, NEW s \in Servers, Mark(s)
  PROVE  Once'
<1>1. Others(s) /\ UNCHANGED <<legacy, net, count>> /\ flow[s].pc = "mark" /\ Matches(flow[s].rec)
      /\ op'.state = "pending" /\ op'.attempt = op.attempt + 1
      /\ flow'[s].pc = "call" /\ flow'[s].rec = op'
  BY MarkStep DEF Becomes, Matches
<1>2. op.state \in Sendable /\ (op.state = "new" => legacy = {})
  BY <1>1 DEF SafeInv, PlaceInv, Matches
<1>3. Untouched /\ \A t \in Servers : ~Active(t)
  BY <1>2 DEF Once, OnceInv, OnceRow, Untouched
<1>4. \A t \in Servers \ {s} : flow'[t] = flow[t] /\ ~Active(t)' /\ ~Current(t)'
  <2>1. \A t \in Servers : flow[t].rec.attempt <= op.attempt /\ flow[t].rec.attempt \in Nat
    BY FlowFields DEF SafeInv, AttemptInv, TypeOK, FlowOK
  <2>2. op.attempt \in Nat
    BY DEF TypeOK, Record
  <2>3. QED BY <1>1, <1>3, <2>1, <2>2 DEF Others, Active, Current
<1>5. WeightInv' /\ OnceRow'
  BY <1>1, <1>3 DEF Once, WeightInv, OnceRow, Sendable, Untouched
<1>6. OnceFlow(s)'
  BY <1>1, <1>3 DEF OnceFlow, Untouched, Matches
<1>7. ASSUME NEW t \in Servers \ {s}
      PROVE  OnceFlow(t)'
  BY <1>1, <1>4, <1>7 DEF OnceFlow, Once, OnceInv
<1>8. QED BY <1>5, <1>6, <1>7 DEF Once, OnceInv

LEMMA OncePost ==
  ASSUME TypeOK, SafeInv, Once, NEW s \in Servers, Post(s)
  PROVE  Once'
<1>1. /\ Others(s) /\ UNCHANGED <<op, legacy, count>> /\ flow[s].pc = "call" /\ ~flow[s].dead
      /\ net' = net \union {flow[s].rec.attempt}
      /\ flow'[s].pc = "wire" /\ flow'[s].rec = flow[s].rec /\ flow'[s].reply = flow[s].reply
  BY PostStep DEF Becomes
<1>2. Active(s) /\ flow[s].reply = "none"
  BY <1>1 DEF Active, SafeInv, PlaceInv
<1>3. Matches(flow[s].rec) /\ Current(s)
  BY <1>2 DEF Once, OnceInv, OnceFlow, Matches, Current
<1>4. net = {} /\ count = 0 /\ net' = {flow[s].rec.attempt}
  BY <1>1, <1>3 DEF Once, OnceInv, OnceFlow, Untouched
<1>5. op.state = "pending"
  BY <1>1, <1>3 DEF SafeInv, PlaceInv, Matches
<1>6. WeightInv' /\ OnceRow'
  BY <1>1, <1>4, <1>5 DEF WeightInv, OnceRow, Sendable
<1>7. OnceFlow(s)'
  BY <1>1, <1>2, <1>3, <1>4 DEF OnceFlow, Matches
<1>8. ASSUME NEW t \in Servers \ {s}
      PROVE  OnceFlow(t)'
  <2>1. flow'[t] = flow[t] /\ (Active(t)' <=> Active(t)) /\ (Current(t)' <=> Current(t))
        /\ (Matches(flow[t].rec)' <=> Matches(flow[t].rec))
    BY <1>1, <1>8 DEF Others, Active, Current, Matches
  <2>2. ~(InCall(t) /\ Current(t))
    BY <1>2, <1>8, ActiveAlone DEF SafeInv, Once
  <2>3. OnceFlow(t)
    BY DEF Once, OnceInv
  <2>4. flow[t].pc = "wire" => flow[t].rec.attempt # flow[s].rec.attempt
    BY <1>1, <1>8 DEF SafeInv, AttemptInv
  <2>5. flow[t].pc = "grant" \/ (flow[t].pc = "import" /\ flow[t].rec.state = "not_sent")
          => ~Current(t)
    BY <1>2, <2>3 DEF OnceFlow
  <2>6. QED BY <1>4, <2>1, <2>2, <2>3, <2>4, <2>5 DEF OnceFlow, InCall
<1>9. QED BY <1>6, <1>7, <1>8 DEF Once, OnceInv

LEMMA OnceEnd ==
  ASSUME TypeOK, SafeInv, Once, NEW s \in Servers, CallFails(s) \/ Abandon(s) \/ Receive(s)
  PROVE  Once'
<1>1. OnceFlow(s)
  BY DEF Once, OnceInv
<1>2. Others(s) /\ UNCHANGED <<op, legacy, net, count>> /\ flow'[s].rec = flow[s].rec
      /\ flow'[s].dead = flow[s].dead /\ flow'[s].reply = "none"
  BY CallFailsStep, AbandonStep, ReceiveStep DEF Becomes
<1>3. (Untouched' <=> Untouched) /\ (Current(s)' <=> Current(s))
      /\ (Matches(flow[s].rec)' <=> Matches(flow[s].rec))
  BY <1>2 DEF Untouched, Current, Matches
<1>4. CASE CallFails(s)
  <2>1. flow[s].pc = "call" /\ flow'[s].pc = "save"
    BY <1>4, CallFailsStep DEF Becomes
  <2>2. ~Active(s)' /\ OnceFlow(s)'
    BY <1>1, <1>2, <1>3, <2>1 DEF OnceFlow, Active
  <2>3. QED BY <1>2, <2>2, OnceSilent
<1>5. CASE Abandon(s)
  <2>1. flow'[s].pc = "save" /\ flow'[s].outcome \in {"broken", "unavailable"}
    BY <1>5, AbandonStep DEF Becomes
  <2>2. ~Active(s)' /\ OnceFlow(s)'
    BY <2>1 DEF OnceFlow, Active
  <2>3. QED BY <1>2, <2>2, OnceSilent
<1>6. CASE Receive(s) /\ flow[s].reply = "denied"
  <2>1. flow[s].pc = "wire" /\ flow'[s].pc = "call"
    BY <1>6, ReceiveStep, PcsMembers DEF Becomes
  <2>2. Active(s)' => Active(s)
    <3>1. flow[s].reply \in Refusals
      BY <1>6 DEF Refusals
    <3>2. QED BY <1>2, <2>1, <3>1 DEF Active
  <2>3. Current(s) => Untouched
    BY <1>1, <1>6, <2>1 DEF OnceFlow, Untouched, Refusals
  <2>4. OnceFlow(s)'
    BY <1>1, <1>2, <1>3, <2>1, <2>2, <2>3 DEF OnceFlow
  <2>5. QED BY <1>2, <2>2, <2>4, OnceSilent
<1>7. CASE Receive(s) /\ flow[s].reply # "denied"
  <2>1. flow[s].pc = "wire" /\ flow[s].reply # "none"
        /\ flow'[s].pc = "save" /\ flow'[s].outcome = flow[s].reply
    BY <1>7, ReceiveStep DEF Becomes, Responses, Refusals
  <2>2. ~Active(s)'
    BY <2>1 DEF Active
  <2>3. Current(s) /\ flow[s].reply \in Refusals => Untouched
    BY <1>1, <2>1 DEF OnceFlow, Untouched
  <2>4. flow[s].reply \in Responses
    BY <1>7, ReceiveStep
  <2>5. flow[s].reply \in {"unconnected", "signed_out", "limited", "refused"}
          => flow[s].reply \in Refusals
    BY <2>4 DEF Responses, Refusals
  <2>6. OnceFlow(s)'
    BY <1>3, <2>1, <2>2, <2>3, <2>5 DEF OnceFlow
  <2>7. QED BY <1>2, <2>2, <2>6, OnceSilent
<1>8. QED BY <1>4, <1>5, <1>6, <1>7

LEMMA OnceDecide ==
  ASSUME TypeOK, SafeInv, Once, NEW a \in net, Decide(a)
  PROVE  Once'
<1>1. PICK how \in Responses :
        /\ UNCHANGED <<op, legacy>>
        /\ net' = net \ {a}
        /\ count' \in {count, count + 1}
        /\ how \in Refusals => count' = count
        /\ \A s \in Servers :
             /\ flow'[s].pc = flow[s].pc /\ flow'[s].rec = flow[s].rec
             /\ flow'[s].outcome = flow[s].outcome /\ flow'[s].dead = flow[s].dead
             /\ flow'[s].reply = IF flow[s].pc = "wire" /\ flow[s].rec.attempt = a
                                 THEN how ELSE flow[s].reply
  BY DecideStep
<1>2. net = {a} /\ count = 0
  BY DEF Once, WeightInv
<1>3. net' = {} /\ count' \in {0, 1} /\ (how \in Refusals => count' = 0) /\ how # "none"
  BY <1>1, <1>2 DEF Responses, Refusals
<1>4. WeightInv'
  BY <1>3 DEF WeightInv
<1>5. OnceRow'
  BY <1>1, <1>2 DEF Once, OnceInv, OnceRow
<1>6. ASSUME NEW s \in Servers
      PROVE  OnceFlow(s)'
  <2>1. OnceFlow(s)
    BY DEF Once, OnceInv
  <2>2. ~Untouched
    BY <1>2 DEF Untouched
  <2>3. (Current(s)' <=> Current(s)) /\ (Matches(flow[s].rec)' <=> Matches(flow[s].rec))
    BY <1>1 DEF Current, Matches
  <2>a. flow[s].pc = "wire" /\ flow[s].rec.attempt = a => flow[s].reply = "none"
    BY <2>1 DEF OnceFlow
  <2>4. Active(s)' => Active(s)
    BY <1>1, <2>a DEF Active
  <2>5. flow[s].pc = "wire" /\ Current(s) => flow[s].reply = "none" /\ flow[s].rec.attempt = a
    BY <1>2, <2>1 DEF OnceFlow
  <2>6. flow[s].pc = "wire" /\ Current(s) => flow'[s].reply = how
    BY <1>1, <2>5
  <2>7. QED BY <1>1, <1>3, <2>1, <2>2, <2>3, <2>4, <2>6 DEF OnceFlow
<1>7. QED BY <1>4, <1>5, <1>6 DEF Once, OnceInv

LEMMA OnceOther ==
  ASSUME TypeOK, Once, NEW s \in Servers,
         Leadership(s) \/ Submit(s) \/ Cancel(s) \/ Load(s) \/ Fail(s)
  PROVE  Once'
<1>1. FlowOK /\ OnceFlow(s)
  BY DEF TypeOK, FlowOK, Once, OnceInv
<1>2. CASE Start(s) \/ Close(s)
  <2>1. UNCHANGED <<op, legacy, flow, net, count>>
    BY <1>2 DEF Start, Close, durable, platform
  <2>2. QED BY <2>1 DEF Once, WeightInv, OnceInv, OnceRow, OnceFlow, Active, Current, Matches, Untouched
<1>3. CASE Cease(s) \/ Cancel(s)
  <2>1. UNCHANGED <<op, legacy, net, count>>
    BY <1>3 DEF Cease, Cancel, durable, platform
  <2>2. CASE flow' = flow
    BY <2>1, <2>2 DEF Once, WeightInv, OnceInv, OnceRow, OnceFlow, Active, Current, Matches, Untouched
  <2>3. CASE flow' = [flow EXCEPT ![s].dead = TRUE]
    <3>1. Others(s) /\ flow'[s].pc = flow[s].pc /\ flow'[s].rec = flow[s].rec
          /\ flow'[s].outcome = flow[s].outcome /\ flow'[s].dead = TRUE
          /\ flow'[s].reply = flow[s].reply
      BY <1>1, <2>3, DeadStep DEF Becomes
    <3>2. ~Active(s)'
      BY <3>1 DEF Active
    <3>3. \A t \in Servers : Active(t)' => Active(t)
      BY <3>1, <3>2 DEF Others, Active
    <3>4. (Untouched' <=> Untouched) /\ (Current(s)' <=> Current(s))
      BY <2>1, <3>1 DEF Untouched, Current
    <3>5. OnceFlow(s)'
      BY <1>1, <2>1, <3>1, <3>2, <3>3, <3>4 DEF OnceFlow
    <3>6. QED BY <2>1, <3>1, <3>2, <3>5, OnceSilent
  <2>4. QED BY <1>3, <2>2, <2>3 DEF Cease, Cancel
<1>4. CASE Crash(s) \/ Fail(s)
  <2>1. Others(s) /\ UNCHANGED <<op, legacy, net, count>> /\ flow'[s].pc = "idle"
    BY <1>4, CrashStep, FailStep DEF Becomes
  <2>2. ~Active(s)' /\ OnceFlow(s)'
    BY <2>1 DEF Active, OnceFlow
  <2>3. QED BY <2>1, <2>2, OnceSilent
<1>5. CASE Submit(s)
  <2>1. Others(s) /\ UNCHANGED <<op, legacy, net, count>> /\ flow'[s].pc = "load"
    BY <1>5, SubmitStep DEF Becomes
  <2>2. ~Active(s)' /\ OnceFlow(s)'
    BY <2>1 DEF Active, OnceFlow
  <2>3. QED BY <2>1, <2>2, OnceSilent
<1>6. CASE Load(s)
  <2>1. Others(s) /\ UNCHANGED <<op, legacy, net, count>> /\ flow'[s].pc = "import"
        /\ flow'[s].rec = op
    BY <1>6, LoadStep DEF Becomes
  <2>2. ~Active(s)'
    BY <2>1 DEF Active
  <2>3. op.state = "not_sent" => Untouched /\ \A t \in Servers : ~Active(t)
    BY DEF Once, OnceInv, OnceRow, Untouched
  <2>4. op.state = "not_sent" => Untouched' /\ \A t \in Servers : ~Active(t)'
    BY <2>1, <2>2, <2>3 DEF Untouched, Others, Active
  <2>5. OnceFlow(s)'
    BY <2>1, <2>2, <2>4 DEF OnceFlow
  <2>6. QED BY <2>1, <2>2, <2>5, OnceSilent
<1>7. QED BY <1>2, <1>3, <1>4, <1>5, <1>6 DEF Leadership

LEMMA OnceNext ==
  ASSUME TypeOK, SubmissionAssumption, SafeInv, Once, PlatformPrompt, LeaderPrompt, [Next]_vars
  PROVE  Once'
<1>1. CASE LoseLock \/ UNCHANGED vars
  <2>1. UNCHANGED <<op, legacy, flow, net, count>>
    BY <1>1 DEF LoseLock, vars, durable, platform
  <2>2. QED BY <2>1 DEF Once, WeightInv, OnceInv, OnceRow, OnceFlow, Active, Current, Matches, Untouched
<1>2. ASSUME NEW s \in Servers, Leadership(s) \/ Submit(s) \/ Cancel(s)
      PROVE  Once'
  BY <1>2, OnceOther
<1>3. ASSUME NEW s \in Servers, Flow(s)
      PROVE  Once'
  BY <1>3, OnceOther, OnceImport, OnceRead, OnceConfirm, OnceGrant, OnceMark, OncePost, OnceEnd,
     OnceNote DEF Flow
<1>4. ASSUME NEW a \in net, Decide(a)
      PROVE  Once'
  BY <1>4, OnceDecide
<1>5. QED BY <1>1, <1>2, <1>3, <1>4 DEF Next

LEMMA OnceInit ==
  ASSUME Init
  PROVE  Once
<1>1. \A s \in Servers : flow[s].pc = "idle"
  BY DEF Init, Idle
<1>2. net = {} /\ count \in {0, 1} /\ (legacy = {} => count = 0) /\ op.state = "new"
  BY DEF Init, NewRow
<1>3. QED BY <1>1, <1>2 DEF Once, WeightInv, OnceInv, OnceRow, OnceFlow, Active

\* Under the two timing assumptions, who can send finds the platform untouched.
THEOREM Prompt == Spec => []PromptInv
<1>1. Init => PromptInv
  BY OnceInit DEF PromptInv, Once
<1>2. TypeOK /\ SafeInv /\ PromptInv /\ [Next]_vars => PromptInv'
  <2>1. SUFFICES ASSUME TypeOK, SafeInv, PromptInv, [Next]_vars, PlatformPrompt, LeaderPrompt
                 PROVE  WeightInv' /\ OnceInv'
    BY DEF PromptInv
  <2>2. Once
    BY <2>1 DEF PromptInv, Once
  <2>3. Once'
    BY <2>1, <2>2, SubmissionAssumption, OnceNext
  <2>4. QED BY <2>3 DEF Once
<1>3. QED BY <1>1, <1>2, TypeCorrect, Safe, PTL DEF Spec

\* The platform accepts a question once, whatever crashes, retries, lost
\* replies and second leaders there are, given the two timing assumptions.
THEOREM AtMostOnceTheorem == Spec => []AtMostOnce
<1>1. TypeOK /\ PromptInv => AtMostOnce
  BY DEF PromptInv, WeightInv, AtMostOnce
<1>2. QED BY <1>1, Prompt, TypeCorrect, PTL

\* A row that lets a flow send is never wrong about the platform.
THEOREM SendableTheorem == Spec => []SendableIsUnanswered
<1>1. PromptInv => SendableIsUnanswered
  BY DEF PromptInv, OnceInv, OnceRow, SendableIsUnanswered
<1>2. QED BY <1>1, Prompt, PTL
=============================================================================
