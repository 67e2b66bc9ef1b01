---------------------------- MODULE Submission ----------------------------
(***************************************************************************)
(* Submission of ONE question, identified by its journal key, to a        *)
(* learning platform that offers no idempotency key.                       *)
(*                                                                         *)
(*   operations/journal.go      the durable record and its compare-and-set *)
(*   operations/submissions.go  Service.Submit / Service.submit            *)
(*   platform/retry.go          Broker.Call for the submission path        *)
(*   workflow/engine.go         the leader lock, its loss, and Close       *)
(*                                                                         *)
(* Servers are processes that may run the service.  A PostgreSQL advisory  *)
(* lock lets one of them be leader, but the lock dies with its database    *)
(* session, so a new leader can start while the old one has not noticed.   *)
(* Inside one server singleflight keeps at most one flow per key.          *)
(***************************************************************************)
EXTENDS Integers, FiniteSets

CONSTANTS
  Servers,        \* processes that may run the service
  None,           \* "no server": the lock is free
  LegacySets,     \* sets of records other fingerprints may have left behind
  MaxHurdles,     \* bound: refusals (by the platform, or for want of a
                  \* credential) in a run
  PlatformPrompt, \* TRUE: the platform settles every POST it received before
                  \* the third, last, unanswered read of a check (7 seconds)
  LeaderPrompt    \* TRUE: a server that lost the lock notices before another
                  \* server completes a check (1s ping + 3s timeout < 7s)

States == {"new", "pending", "unknown", "not_sent", "rejected",
           "retry_ready", "retry_exhausted", "posted", "confirmed"}

MaxRetries == 2
Reads == 3        \* len(Service.Delays)

\* Record, without its identity and its stored result.
Record == [state: States, retries: 0 .. MaxRetries, attempt: Nat, retryable: BOOLEAN]

LegacyRow == [state: States, retries: 0 .. MaxRetries, retryable: BOOLEAN]

ASSUME SubmissionAssumption ==
  /\ None \notin Servers
  /\ LegacySets \subseteq SUBSET LegacyRow
  /\ MaxHurdles \in Nat
  /\ PlatformPrompt \in BOOLEAN
  /\ LeaderPrompt \in BOOLEAN

\* Ends that are an error of Broker.Call; the others are platform responses.
CallErrors == {"unconnected", "broken", "unavailable", "signed_out"}
Outcomes == CallErrors \union {"limited", "refused", "odd", "empty", "accepted"}
\* Responses: "denied" is HTTP 403, which Broker.Call keeps to itself.
Refusals == {"limited", "refused", "denied"}
Responses == {"accepted", "odd", "empty"} \union Refusals

\* Mutants of VerdictState: a response without data counts as an answer, an
\* unreadable one as a refusal.
VerdictStateTrusting(how) ==
  IF how = "unconnected" THEN "not_sent"
  ELSE IF how \in {"signed_out", "limited", "refused"} THEN "rejected"
  ELSE IF how \in {"accepted", "empty"} THEN "posted" ELSE "unknown"

VerdictStateHasty(how) ==
  IF how = "unconnected" THEN "not_sent"
  ELSE IF how \in {"signed_out", "limited", "refused", "odd"} THEN "rejected"
  ELSE IF how = "accepted" THEN "posted" ELSE "unknown"

\* What the journal records for each way a call can end.
VerdictState(how) ==
  IF how = "unconnected" THEN "not_sent"
  ELSE IF how \in {"signed_out", "limited", "refused"} THEN "rejected"
  ELSE IF how = "accepted" THEN "posted" ELSE "unknown"

VerdictRetryable(how) == how \in {"unconnected", "broken", "limited"}

VARIABLES
  op,       \* the row of table operations
  legacy,   \* rows left by earlier fingerprints of the same question
  lock,     \* holder of the leader lock
  up,       \* per server: "off", "on", or "closing" (its context cancelled)
  flow,     \* per server: its flow for the key
  net,      \* attempts whose POST is on its way to the platform
  count,    \* submissions the platform has accepted (my_count)
  hurdles,  \* refusals so far (bounds the model)
  refusals  \* history: attempts the journal recorded as rejected

durable == <<op, legacy>>
leader == <<lock, up>>
platform == <<net, count>>
vars == <<op, legacy, lock, up, flow, net, count, hurdles, refusals>>

Sendable == {"new", "rejected", "retry_ready"}
Settled == {"posted", "confirmed"}
SavingPcs == {"import", "confirm", "grant", "mark", "save"}
Pcs == {"idle", "load", "reading", "call", "wire"} \union SavingPcs

\* A flow: its place, its copy of the row, the unanswered reads of the current
\* check, how the call ended ("loaded" before the first call), whether its
\* context is cancelled, and the response that reached it.
FlowState == [pc: Pcs, rec: Record, reads: 0 .. Reads - 1,
              outcome: Outcomes \union {"loaded"}, dead: BOOLEAN,
              reply: Responses \union {"none"}]

NewRow == [state |-> "new", retries |-> 0, attempt |-> 0, retryable |-> FALSE]
Idle == [pc |-> "idle", rec |-> NewRow, reads |-> 0, outcome |-> "loaded",
         dead |-> FALSE, reply |-> "none"]

Init ==
  /\ op = NewRow
  /\ legacy \in LegacySets
  /\ lock = None
  /\ up = [s \in Servers |-> "off"]
  /\ flow = [s \in Servers |-> Idle]
  /\ net = {}
  /\ count \in IF legacy = {} THEN {0}
               ELSE IF \E row \in legacy : row.state \in Settled THEN {1} ELSE {0, 1}
  /\ hurdles = 0
  /\ refusals = 0

-----------------------------------------------------------------------------
(* Leadership: Engine.New, Engine.loop, Engine.Close.                       *)

Start(s) ==
  /\ up[s] = "off"
  /\ lock = None
  /\ lock' = s
  /\ up' = [up EXCEPT ![s] = "on"]
  /\ UNCHANGED <<durable, flow, platform, hurdles, refusals>>

\* The database session that owns the lock breaks.
LoseLock ==
  /\ lock # None
  /\ lock' = None
  /\ UNCHANGED <<durable, up, flow, platform, hurdles, refusals>>

\* The health ping fails, or the process is asked to stop: e.cancel().
Cease(s) ==
  /\ up[s] = "on"
  /\ up' = [up EXCEPT ![s] = "closing"]
  /\ flow' = IF flow[s].pc = "idle" THEN flow ELSE [flow EXCEPT ![s].dead = TRUE]
  /\ UNCHANGED <<durable, lock, platform, hurdles, refusals>>

Release(s) == lock' = IF lock = s THEN None ELSE lock

\* Engine.Close waits for the flow, then unlocks.
Close(s) ==
  /\ up[s] = "closing"
  /\ flow[s].pc = "idle"
  /\ up' = [up EXCEPT ![s] = "off"]
  /\ Release(s)
  /\ UNCHANGED <<durable, flow, platform, hurdles, refusals>>

Crash(s) ==
  /\ up[s] # "off"
  /\ up' = [up EXCEPT ![s] = "off"]
  /\ Release(s)
  /\ flow' = [flow EXCEPT ![s] = Idle]
  /\ UNCHANGED <<durable, platform, hurdles, refusals>>

-----------------------------------------------------------------------------
(* The journal.                                                             *)

\* Mutant of Matches: the attempt and the retries are not compared.
MatchesState(r) == op.state = r.state

\* The WHERE clause of Journal.Save.
Matches(r) ==
  /\ op.state = r.state
  /\ op.attempt = r.attempt
  /\ op.retries = r.retries

\* Journal.Save: compare and set; attempts are numbered by "pending".
Save(r, state, retries, retryable) ==
  /\ Matches(r)
  /\ op' = [state     |-> state,
            retries   |-> retries,
            attempt   |-> r.attempt + (IF state = "pending" THEN 1 ELSE 0),
            retryable |-> retryable]

\* The flow returns an answer or an error to every caller that joined it.
Finish(s) == flow' = [flow EXCEPT ![s] = Idle]

Goto(s, place) == flow' = [flow EXCEPT ![s].pc = place]

\* It goes on with the row it has just saved.
Proceed(s, place) == flow' = [flow EXCEPT ![s].pc = place, ![s].rec = op', ![s].reads = 0]

\* Mutant of Entrance: an uncertain row is sent without a check.
EntranceUnchecked(state) ==
  IF state \in {"new", "rejected", "unknown"} THEN "mark"
  ELSE IF state = "not_sent" THEN "grant" ELSE "reading"

\* Where submit goes with a row it loaded, by the row's state.
Entrance(state) ==
  IF state \in {"new", "rejected"} THEN "mark"
  ELSE IF state = "not_sent" THEN "grant" ELSE "reading"

\* PreserveLegacy: what takes the place of the rows in old.  The query has no
\* order, so any row known to be answered may be the last one looked at.
MergedStates(old) ==
  LET settled == {row.state : row \in old} \intersect Settled
  IN  IF settled = {} THEN {"unknown"} ELSE settled

MergedRetries(old) ==
  CHOOSE n \in 0 .. MaxRetries :
    /\ \E row \in old : row.retries = n
    /\ \A row \in old : row.retries <= n

-----------------------------------------------------------------------------
(* The flow of Service.submit.                                              *)

Submit(s) ==
  /\ up[s] = "on"
  /\ flow[s].pc = "idle"
  /\ Goto(s, "load")
  /\ UNCHANGED <<durable, leader, platform, hurdles, refusals>>

\* Pause, stop or a change of account cancels the first caller's context.
Cancel(s) ==
  /\ flow[s].pc # "idle"
  /\ ~flow[s].dead
  /\ flow' = [flow EXCEPT ![s].dead = TRUE]
  /\ UNCHANGED <<durable, leader, platform, hurdles, refusals>>

Load(s) ==
  /\ flow[s].pc = "load"
  /\ ~flow[s].dead
  /\ flow' = [flow EXCEPT ![s].pc = "import", ![s].rec = op]
  /\ UNCHANGED <<durable, leader, platform, hurdles, refusals>>

Import(s) ==
  LET r == flow[s].rec IN
  /\ flow[s].pc = "import"
  /\ IF r.state # "new" \/ legacy = {}
     THEN Goto(s, Entrance(r.state)) /\ UNCHANGED op
     ELSE \E state \in MergedStates(legacy) :
            /\ ~flow[s].dead
            /\ Save(r, state, MergedRetries(legacy), \A row \in legacy : row.retryable)
            /\ Proceed(s, Entrance(state))
  /\ UNCHANGED <<legacy, leader, platform, hurdles, refusals>>

\* The time the three delays take, as the two named assumptions use it.
Quiet(s) ==
  /\ PlatformPrompt => net = {}
  /\ LeaderPrompt => \A t \in Servers \ {s} : up[t] # "on"

\* After three reads that all say "not answered".
MayResend(s) ==
  \/ flow[s].outcome = "broken"
  \/ /\ flow[s].outcome = "loaded"
     /\ flow[s].rec.state \notin Settled
     /\ flow[s].rec.retryable

Unanswered(s) ==
  IF flow[s].reads + 1 < Reads THEN flow' = [flow EXCEPT ![s].reads = @ + 1]
  ELSE /\ Quiet(s)
       /\ IF ~MayResend(s) THEN Finish(s)
          ELSE Goto(s, IF flow[s].outcome = "loaded" /\ flow[s].rec.state = "retry_ready"
                       THEN "mark" ELSE "grant")

\* One round of reconcile: wait, read the exercise list, look at my_count.
Read(s) ==
  /\ flow[s].pc = "reading"
  /\ ~flow[s].dead
  /\ IF count > 0 THEN Goto(s, "confirm") ELSE Unanswered(s)
  /\ UNCHANGED <<durable, leader, platform, hurdles, refusals>>

Confirm(s) ==
  /\ flow[s].pc = "confirm"
  /\ ~flow[s].dead
  /\ Save(flow[s].rec, "confirmed", flow[s].rec.retries, flow[s].rec.retryable)
  /\ Finish(s)
  /\ UNCHANGED <<legacy, leader, platform, hurdles, refusals>>

\* Mutants of Grant: one retry too many, and a retry that costs nothing.
GrantOneMore(s) ==
  LET r == flow[s].rec IN
  /\ flow[s].pc = "grant"
  /\ ~flow[s].dead
  /\ IF r.retries > MaxRetries
     THEN Save(r, "retry_exhausted", r.retries, TRUE) /\ Finish(s)
     ELSE Save(r, "retry_ready", r.retries + 1, TRUE) /\ Proceed(s, "mark")
  /\ UNCHANGED <<legacy, leader, platform, hurdles, refusals>>

GrantFree(s) ==
  /\ flow[s].pc = "grant"
  /\ ~flow[s].dead
  /\ flow[s].rec.retries < MaxRetries
  /\ Save(flow[s].rec, "retry_ready", flow[s].rec.retries, TRUE)
  /\ Proceed(s, "mark")
  /\ UNCHANGED <<legacy, leader, platform, hurdles, refusals>>

\* retry: spend one of the two automatic retries, or give up.
Grant(s) ==
  LET r == flow[s].rec IN
  /\ flow[s].pc = "grant"
  /\ ~flow[s].dead
  /\ IF r.retries >= MaxRetries
     THEN Save(r, "retry_exhausted", r.retries, TRUE) /\ Finish(s)
     ELSE Save(r, "retry_ready", r.retries + 1, TRUE) /\ Proceed(s, "mark")
  /\ UNCHANGED <<legacy, leader, platform, hurdles, refusals>>

\* The attempt is on record before it can leave the process.
Mark(s) ==
  /\ flow[s].pc = "mark"
  /\ ~flow[s].dead
  /\ Save(flow[s].rec, "pending", flow[s].rec.retries, TRUE)
  /\ Proceed(s, "call")
  /\ UNCHANGED <<legacy, leader, platform, hurdles, refusals>>

\* The broker's turn: credential found, connection made, request written.
Post(s) ==
  /\ flow[s].pc = "call"
  /\ ~flow[s].dead
  /\ Goto(s, "wire")
  /\ net' = net \union {flow[s].rec.attempt}
  /\ UNCHANGED <<durable, leader, count, hurdles, refusals>>

EndCall(s, how) ==
  flow' = [flow EXCEPT ![s].pc = "save", ![s].outcome = how, ![s].reply = "none"]

\* No connection; no credential; not ready or account changed; or cancelled.
CallFails(s) ==
  /\ flow[s].pc = "call"
  /\ \/ EndCall(s, "unconnected") /\ UNCHANGED hurdles
     \/ EndCall(s, "unavailable") /\ UNCHANGED hurdles
     \/ EndCall(s, "signed_out") /\ hurdles < MaxHurdles /\ hurdles' = hurdles + 1
  /\ UNCHANGED <<durable, leader, platform, refusals>>

\* Time-out, broken connection or HTTP 5xx; or cancelled.  The POST lives on.
Abandon(s) ==
  /\ flow[s].pc = "wire"
  /\ EndCall(s, IF flow[s].dead THEN "unavailable" ELSE "broken")
  /\ UNCHANGED <<durable, leader, platform, hurdles, refusals>>

\* HTTP 403 waits for the account's cooldown and posts the same attempt again.
Receive(s) ==
  /\ flow[s].pc = "wire"
  /\ flow[s].reply # "none"
  /\ IF flow[s].reply = "denied"
     THEN flow' = [flow EXCEPT ![s].pc = "call", ![s].reply = "none"]
     ELSE EndCall(s, flow[s].reply)
  /\ UNCHANGED <<durable, leader, platform, hurdles, refusals>>

\* Mutant of AfterCall: a broken connection is tried again at once, as
\* Broker.Call does for requests that only read.
AfterCallEager(how) ==
  IF how = "limited" THEN "mark"
  ELSE IF how = "unconnected" THEN "grant"
  ELSE IF how = "broken" THEN "call"
  ELSE IF how \in {"unavailable", "odd"} THEN "reading" ELSE "idle"

\* Where submit goes once it has recorded how the call ended.
AfterCall(how) ==
  IF how = "limited" THEN "mark"
  ELSE IF how = "unconnected" THEN "grant"
  ELSE IF how \in {"broken", "unavailable", "odd"} THEN "reading" ELSE "idle"

\* Errors are saved without the flow's context, responses with it.
Note(s) ==
  LET how == flow[s].outcome
      dead == flow[s].dead
      state == VerdictState(how) IN
  /\ flow[s].pc = "save"
  /\ dead => how \in CallErrors
  /\ Save(flow[s].rec, state, flow[s].rec.retries, VerdictRetryable(how) \/ dead)
  /\ refusals' = refusals + (IF state = "rejected" THEN 1 ELSE 0)
  /\ IF dead \/ AfterCall(how) = "idle" THEN Finish(s) ELSE Proceed(s, AfterCall(how))
  /\ UNCHANGED <<legacy, leader, platform, hurdles>>

\* The flow returns an error and leaves the row as it is: cancelled, refused by
\* Load, no answer in the bank, an unreadable or changed question, a lost
\* compare-and-set (OPERATION_CONFLICT) or a database error.
Fail(s) ==
  /\ flow[s].pc \in {"load", "reading"} \union SavingPcs
  /\ Finish(s)
  /\ UNCHANGED <<durable, leader, platform, hurdles, refusals>>

-----------------------------------------------------------------------------
(* The platform (outside the repository).                                   *)

\* It decides a POST it received; the response reaches a flow still waiting.
Decide(a) ==
  \E how \in Responses, counted \in BOOLEAN :
    /\ a \in net
    /\ net' = net \ {a}
    /\ how = "accepted" => counted
    /\ how \in Refusals => ~counted /\ hurdles < MaxHurdles
    /\ hurdles' = hurdles + (IF how \in Refusals THEN 1 ELSE 0)
    /\ count' = count + (IF counted THEN 1 ELSE 0)
    /\ flow' = [s \in Servers |->
                  IF flow[s].pc = "wire" /\ flow[s].rec.attempt = a
                  THEN [flow[s] EXCEPT !.reply = how] ELSE flow[s]]
    /\ UNCHANGED <<durable, leader, refusals>>

-----------------------------------------------------------------------------
Leadership(s) == Start(s) \/ Cease(s) \/ Close(s) \/ Crash(s)

Flow(s) ==
  \/ Load(s) \/ Import(s) \/ Read(s) \/ Confirm(s) \/ Grant(s) \/ Mark(s) \/ Post(s)
  \/ CallFails(s) \/ Abandon(s) \/ Receive(s) \/ Note(s) \/ Fail(s)

Next ==
  \/ LoseLock
  \/ \E s \in Servers : Leadership(s) \/ Submit(s) \/ Cancel(s) \/ Flow(s)
  \/ \E a \in net : Decide(a)

Spec == Init /\ [][Next]_vars

\* A flow whose next step is possible takes it; the platform decides what it
\* received; a server that lost the lock finds out (the ping every second).
\* Nothing is assumed of users, crashes or new leaders.
Fairness ==
  /\ \A s \in Servers : WF_vars(Flow(s)) /\ WF_vars(lock # s /\ Cease(s))
  /\ WF_vars(\E a \in net : Decide(a))

FairSpec == Spec /\ Fairness

-----------------------------------------------------------------------------
(* Properties.                                                              *)

\* Type correctness; a call that ends is recorded with the way it ended.
TypeOK ==
  /\ op \in Record
  /\ legacy \in LegacySets
  /\ lock \in Servers \union {None}
  /\ up \in [Servers -> {"off", "on", "closing"}]
  /\ flow \in [Servers -> FlowState]
  /\ \A s \in Servers : flow[s].pc = "save" => flow[s].outcome # "loaded"
  /\ net \subseteq Nat
  /\ count \in Nat
  /\ hurdles \in Nat
  /\ refusals \in Nat

\* The row's state, retries and attempt are enough to bound what was sent: at
\* most retries + 1 attempts were not refused, and none more than retries when
\* the row lets a flow send again (docs/submission-retries.md:6, "at most twice").
RetryBudget ==
  op.attempt <= refusals + op.retries + (IF op.state \in Sendable THEN 0 ELSE 1)

\* Under the two timing assumptions the platform accepts the question once,
\* through crashes, lost replies, retries and a second leader.
AtMostOnce == PlatformPrompt /\ LeaderPrompt => count <= 1

\* A row that lets a flow send says the truth: the platform has accepted
\* nothing and nothing is on its way (rows of older fingerprints count once
\* PreserveLegacy has merged them).
SendableIsUnanswered ==
  PlatformPrompt /\ LeaderPrompt /\ op.state \in Sendable /\ (op.state = "new" => legacy = {})
    => count = 0 /\ net = {}

\* Without any timing assumption: what the journal calls answered is answered.
SettledIsAnswered == op.state \in Settled => count > 0

\* The row as the abstract ledger sees it.
Status == IF op.state \in Sendable THEN "open"
          ELSE IF op.state \in Settled THEN "settled" ELSE "unsure"

Ledger == INSTANCE SubmissionLedger WITH
            status <- Status,
            budget <- MaxRetries - op.retries,
            spent  <- op.attempt - refusals

\* The journal implements the abstract ledger: every save is one of its steps.
LedgerSpec == Ledger!Spec

\* Every Submit returns: no check, retry, refusal or lost reply holds it up.
FlowEnds == \A s \in Servers : flow[s].pc # "idle" ~> flow[s].pc = "idle"

\* docs/submission-retries.md:9 says that records left "unknown" or "pending"
\* "are checked again, and can be recovered once confirmed unanswered": a check
\* of such a row that ends unanswered goes on to send it or to give it up.
UncertainRecovers ==
  [][\A s \in Servers :
       (/\ Read(s)
        /\ count = 0
        /\ flow[s].reads = Reads - 1
        /\ flow[s].outcome = "loaded"
        /\ flow[s].rec.state \in {"unknown", "pending"})
       => flow'[s].pc \in {"grant", "mark"}]_vars

-----------------------------------------------------------------------------
(* The inductive invariant behind the properties.                           *)

\* A flow's place tells what its copy of the row can be.
PlaceInv == \A s \in Servers :
  LET f == flow[s] IN
  /\ f.pc \in {"call", "wire", "save"} => f.rec.state = "pending"
  /\ f.pc = "mark" => f.rec.state \in Sendable /\ (f.rec.state = "new" => legacy = {})
  /\ f.pc = "grant" => f.rec.state \in States \ (Sendable \union Settled)
  /\ f.pc \in {"reading", "confirm"} => f.rec.state \notin {"new", "rejected", "not_sent"}
  /\ f.pc \in {"reading", "confirm"} /\ f.outcome = "broken" => f.rec.state = "unknown"
  /\ f.pc \in {"idle", "load", "import"} => f.outcome = "loaded"
  /\ f.pc # "wire" => f.reply = "none"
  /\ f.pc # "idle" /\ ~f.dead => up[s] = "on"

\* Attempts number the calls: copies are never ahead of the row, and no two
\* flows are in the call of the same attempt.
AttemptInv ==
  /\ \A s \in Servers : flow[s].rec.attempt <= op.attempt
  /\ \A s, t \in Servers :
       s # t /\ flow[s].pc \in {"call", "wire", "save"} /\ flow[t].pc \in {"call", "wire", "save"}
         => flow[s].rec.attempt # flow[t].rec.attempt
  /\ op.state = "new" => op = NewRow /\ refusals = 0

\* What a flow knows of the platform's decision is so.
AnswerInv ==
  /\ (\E row \in legacy : row.state \in Settled) => count > 0
  /\ \A s \in Servers :
       /\ flow[s].pc = "confirm" => count > 0
       /\ flow[s].pc = "wire" /\ flow[s].reply = "accepted" => count > 0
       /\ flow[s].pc = "save" /\ flow[s].outcome = "accepted" => count > 0

\* s may still put its POST on the wire, or learn that it has to be repeated.
Active(s) ==
  /\ ~flow[s].dead
  /\ \/ flow[s].pc = "call"
     \/ flow[s].pc = "wire" /\ flow[s].reply \in Refusals \union {"none"}

Untouched == count = 0 /\ net = {}

\* At most one POST was accepted or can be.
WeightInv == \/ count = 0 /\ \A a, b \in net : a = b
             \/ count = 1 /\ net = {}

\* Its copy is of the attempt the row is at.
Current(s) == flow[s].rec.attempt = op.attempt

\* A row that can be sent, or made sendable, finds the platform untouched.
OnceRow ==
  op.state \in Sendable \union {"not_sent"} =>
    /\ \A s \in Servers : ~Active(s)
    /\ net = {}
    /\ (op.state = "new" => legacy = {}) => count = 0

\* And so does a flow that can send, or can make the row sendable; a POST on
\* the wire for the row's attempt is the only one.
OnceFlow(s) ==
  LET f == flow[s] IN
  /\ Active(s) => Matches(f.rec)
  /\ f.pc = "call" /\ Current(s) => Untouched
  /\ (f.pc = "grant" \/ (f.pc = "import" /\ f.rec.state = "not_sent")) /\ Current(s) =>
       Untouched /\ \A t \in Servers : ~Active(t)
  /\ f.pc = "save" /\ f.outcome \in {"unconnected", "signed_out", "limited", "refused"}
       /\ Current(s) => Untouched
  /\ f.pc = "wire" /\ f.reply # "none" => f.rec.attempt \notin net
  /\ f.pc = "wire" /\ Current(s) =>
       IF f.reply = "none" THEN net = {f.rec.attempt} /\ count = 0
       ELSE net = {} /\ (f.reply \in Refusals => count = 0)

OnceInv == OnceRow /\ \A s \in Servers : OnceFlow(s)

SafeInv == PlaceInv /\ AttemptInv /\ RetryBudget /\ AnswerInv /\ SettledIsAnswered

PromptInv == PlatformPrompt /\ LeaderPrompt => WeightInv /\ OnceInv

=============================================================================
