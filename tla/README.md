# A verification project for xuetangx

xuetangx is a Go service that works through courses of a learning platform for
its users: it plays videos, reads articles, posts in discussions and answers
exercises, with answers gathered by separate collecting accounts. This
directory holds TLA+ models of its core, the TLC configurations that check
them on small instances, and proofs checked by TLAPS. Paths below are relative
to the repository; most code is under `internal/`.

Run a check with `tlc -config Submission_crash.cfg MCSubmission.tla`, a proof
with `tlapm SubmissionProofs.tla`.

## 1. The system

| component | state it keeps | operations | correct when |
|---|---|---|---|
| question submission (`operations/submissions.go`, `journal.go`) | one durable row per question in `operations`; the flow in progress (singleflight) | load, import of older rows, check (reconcile), retry, mark, call, record | the platform accepts a question once; retries are bounded for good; a flow ends |
| other effects (`operations/effects.go`, `enrollment.go`, `progress.go`) | rows of the same journal | video/article progress, discussion post, enrolment | what cannot be repeated safely is not repeated |
| call retry and HTTP (`platform/retry.go`, `http.go`) | none | retry reads, wait after HTTP 403 | a submission is never resent by this layer after it may have left |
| request broker (`platform/broker.go`, `cooldowns.go`) | queue, counters, cooldowns per account | request, dispatch, result | limits hold, reads and writes both advance, accounts do not slow each other |
| workflow engine (`workflow/engine.go`, `pipeline.go`, `collectors.go`, `actors.go`) | slots, preparations, workers (in memory) | dispatch, prepare, launch, settle, start, control, account changes, shutdown | limits hold; the user's pause and stop stand; nothing is forgotten |
| job repository (`jobs/repository.go`, `recovery.go`, `read.go`) | `jobs`, `job_modules`, `job_items`, `job_events` | create, begin, progress, finish, control, aggregate, recover | late workers cannot overwrite newer decisions (generation) |
| worker process (`process/host.go`, `worker.go`, `protocol.go`) | one OS process and pipe per running module | init, rpc, progress, result, cancel, kill | every call is answered; a cancelled worker is gone |
| learning runners (`learning/*.go`) | results so far | video, article, discussion, homework, collector | homework uses answers as they arrive |
| answer bank (`bank/*.go`) | answers, versions, conflicts, `event_outbox` | observe, save, lookup | a conflicting answer is not used; savers are heard of |
| accounts (`accounts/*.go`) | credentials with a revision, shared collectors | connect, disconnect, save and check a collector, enable, invalidate | an old credential is not used once replaced, and never takes the place of a newer one |
| sign-in with WeChat (`accounts/wechat.go`, `platform/wechat.go`) | sessions | begin, poll, finish | one session finishes once |
| users (`auth/*.go`), mail (`mail/*.go`) | users, sessions, tokens, counters; queued mail | register, sign in, reset; lease, send | counters hold under concurrency; mail is not lost |
| catalog, questions, HTTP API, storage, secrets, config | none, or caches | parsing, request handling | - |
| the earlier Node service and web client (`server/`, `src/`, `scripts/`, `web/`) | - | - | not part of the Go program |

**How they interact.** The HTTP API calls `Engine.Start` and `Engine.Control`.
Every 250 ms the engine dispatches jobs with queued modules: a goroutine
prepares the job (reads the course with the formal account, finds a collecting
account) and launches one goroutine with one worker process per module. A
worker asks the engine by RPC: to look up an answer (bank), to submit a
question or an effect (operations), to forward a read. All calls to the
platform go through the retry layer and the broker. Account changes call back
into the engine, which cancels workers and updates modules. Saved answers reach
homework through an outbox and a channel. A PostgreSQL advisory lock admits one
leader process; its loss is noticed by a ping every second.

**What is hard.** No idempotency key at the platform: after a lost reply the
program must find out what happened. A leader lock that dies with a session. A
user's decision is a transaction followed, later, by a cancellation under a
mutex. Preparations work for seconds from a copy of the module rows. Several
goroutines of one job end in any order, and each has to find out whether it was
the last. Crashes of workers and of the service between any two steps.
`PROJECT.json` lists these hazards line by line.

## 2. Modules

| module | models | kind |
|---|---|---|
| `SubmissionLedger` | what the journal promises for one question | abstract specification |
| `Submission` | the submission flow, its journal row, the platform, leadership of several servers | detailed specification |
| `SubmissionLedgerProofs`, `SubmissionProofs` | theorems about the two | proofs |
| `MCSubmission` | instances for TLC | model checking |
| `Engine` | jobs and modules, dispatch, preparation, workers, account changes, crash and restart of the process | specification |
| `EngineProofs` | theorems about `Engine` | proofs |
| `MCEngine` | instances for TLC | model checking |
| `Effect` | every other write over the journal, with the runner that wants it done | specification |
| `EffectProofs` | theorems about `Effect` | proofs |
| `MCEffect` | instance for TLC | model checking |
| `Broker` | the request queue, its limits, cooldowns and retries | component |
| `Accounts` | sign-in, sign-out, shared collectors, QR code sessions, the way to a cookie | component |
| `Access` | `Broker` and `Accounts` together: each request runs with the cookie of an account that may change | composition |
| `BrokerProofs`, `AccountsProofs` | theorems about `Access`: those of the broker, and those of the accounts, which extend them | proofs |
| `MCAccess` | scenes for TLC | model checking |
| `Bank` | the answers to questions: sources, conflicts, older versions, events | component |
| `Worker` | a homework module's goroutine, its process and the pipes between them; extends `Bank` | component |
| `Answers` | `Worker` with a collector, other users and the delivery of events | composition |
| `AnswersProofs` | theorems about `Answers`, with `Bank` and `Worker` | proofs |
| `MCAnswers` | scenes for TLC | model checking |
| `Mail` | the mail queue of several processes | component |
| `Users` | concurrent transactions about one mail address, which queue mails of `Mail` | composition |
| `UsersProofs` | theorems about `Users` and `Mail` | proofs |
| `MCUsers` | scenes for TLC | model checking |

Definitions whose comment begins with "Mutant of" are faulty variants of the
definition that follows them. Nothing refers to them; they show, one by one,
that the properties notice such faults.

### Submission

One question with one journal key. `op` is its row: `state`, `retries`,
`attempt`, `retryable`. `flow[s]` is the flow of server `s` with its own copy
of the row, as `Service.submit` has it in `r`; `Matches` is the WHERE clause of
`Journal.Save`. A step of a flow is one transaction or one call:

| action | code |
|---|---|
| `Submit`, `Cancel` | a caller joins or starts the flow; its context is cancelled |
| `Load`, `Import` | `Journal.Load`, `PreserveLegacy` |
| `Read`, `Confirm` | a round of `reconcile`; saving what it found |
| `Grant` | `retry` |
| `Mark`, `Post`, `CallFails`, `Abandon`, `Receive`, `Note` | saving `pending`, the call and each way it can end, saving the outcome |
| `Fail` | every error return that leaves the row as it is |
| `Start`, `LoseLock`, `Cease`, `Close`, `Crash` | `New`, the lock's session, `loop`, `Engine.Close` |
| `Decide` | the platform; it may decide long after the flow has given up |

`net` is what is on its way to the platform, `count` what it has accepted. The
platform never sees which attempt a POST is, so nothing but the journal and
the reads stops duplicates. Answers, bodies, results and delays are left out;
`rates` and the length of waits with them.

Two assumptions about time are constants, so that each property says which it
needs. `PlatformPrompt`: what the platform received before a check is settled
before the third and last unanswered read (the check takes 1 + 2 + 4 seconds).
`LeaderPrompt`: a server that lost the lock notices before another one
completes a check (ping every second, three seconds for the answer).
`docs/submission-retries.md` names the first as a limit of the design.

### SubmissionLedger

The promise, without flows, servers or platform: a status (open, unsure,
settled) and a budget of automatic retries. `Submission` implements it with
`status <- Status`, `budget <- MaxRetries - op.retries` and
`spent <- op.attempt - refusals`.

### Engine

`job` and `mod` are the tables (`generation` is `gen`); `slots`, `prep` and
`actor` are `Engine.owners`, `preparing` and `actors` together with the
goroutines behind them. `dead` says that a goroutine's context is cancelled:
its database calls then fail and it leaves. One action is one transaction, one
section under `Engine.mu`, or one call to the platform or a worker, so that
everything else may happen between the commit of `Control` and its `Cancel`,
between the query of `dispatch` and the section that claims a job, between `Get`
and the `Module` writes of the same preparation, or between `Settle` and its
`Aggregate`. Requests overlap: `order[j][scope]` counts those that have
committed and not cancelled yet. So do account changes, one for each of
`Changes`.

| actions | code |
|---|---|
| `Start`, `Control`, `Cancel` | `Repository.Create`; `Repository.Control` and the rest of `Engine.Control` |
| `Query`, `Claim`, `MarkRunning` | `dispatch`: its query, its loop under the mutex, the job's row |
| `Get`, `Discover`, `DiscoverFails`, `LaunchMedia`, `Exercises`, `AddCollector`, `FindHelper`, `Enroll`, `LaunchHomework`, `Block` | `prepare`, `prepareCollector`, `collectorError`, `blockQueued` |
| `EndPrepare`, `Leave`, `Settle`, `Aggregate` | the ends of the goroutines and `settle` |
| `Begin`, `Run...`, `Requeue`, `Rediscover`, `Finish` | `launch` with `BeginModule`, `Host.Run`, the second attempt after a crash, `FinishModule` |
| `PrimaryChanges`, `CancelFormal`, `SuspendFormal` | `AccountChanged` for the formal account |
| `HelperChanges`, `RevokeCollectors`, `QueueCollectors`, `QueueHomework`, `QueueJobs` | `collectorsChanged` |
| `Boot`, `Cease`, `Close`, `Crash` | `New`, `loop`, `Close`, with `Recover` |

Abstractions. What a module does is reduced to how it can end; homework that
lacks answers (`lacks`) goes on while a collector is queued or running, as in
`learning/homework.go`. Collecting accounts are one flag, `helper`, and always
shared ones; jobs collect with `submit_unanswered`, its default. A job is one
course of one account: the next job for the same course, once this one is over,
is not modelled. Counters, messages, events and the repair of jobs of older
releases in `Recover` are left out. Which of a user's jobs is dispatched first
(the oldest) is left open, so what holds does not depend on it.

`LocalPrompt` assumes that the few instructions between the commit of `Control`
and its cancellation, between the end of a goroutine and its aggregate, and
between the query of `dispatch` and its claims take less time than a dispatch
with its reads of the course. It is FALSE where the property can do without.

### Effect

One unit of one kind: video, article, discussion or enrolment. `row` is the
state of its journal row, `flow[s]` what server `s` does with it, from the
first look of the runner to the last. A flow keeps no copy of the row but
whether its copy is `fresh`: each `pending` has an attempt number of its own,
so a row that has moved on never equals an old copy again. What the platform
shows is two flags, as the code asks in two places: `done`, in the list of the
user's courses, progress or the schedule of the leaf, and `counted`, in the
topic of a discussion. Either may show before the other.

| actions | code |
|---|---|
| `Start`, `LookDone`, `LookOpen`, `VerifyDone`, `VerifyOpen` | `Runner.media` over `video`, `article`, `discussion`; `enrollFree` |
| `Publish`, `Offer` | publish-discussion of `rpc.go`; the reads of the offer |
| `Load`, `CheckDone`, `CheckOpen`, `Mark`, `Note`, `Confirm` | `Service.Effect`, `progressComplete` |
| `Post`, `CallFails`, `Abandon`, `Receive` | `Broker.Call` and `Client.Do` |
| `Reload` | `confirmEnrollment` |
| `Take`, `TurnDown`, `Show`, `TakeAdrift`, `GetWell` | the platform: it may take a write whose flow has gone, and show any write later than it takes it |

The several heartbeats of a video are one write. A cancelled context is not a
variable: wherever the code looks at it, the flow may fail.

### Broker, Accounts, Access

`Broker` is the loop of `broker.go`: `queue`, `total`, `active` and `streak` are
its local variables, `cool` and `rate` the times until which an identity may
send nothing, or submit nothing, in ticks. `client[c]` is a caller inside
`Broker.Call`; `left[c]` counts its requests that are under way although the
caller has gone, which still hold their slots. A cancelled request that waits
leaves the queue at once, since the loop drops it before it chooses.

`Accounts` has the table `platform_accounts` for all services (processes) and,
per service, the turns of `Service.revisions`. An operation (`signer[f]`) is
cut where another one may come between: before and after the platform is asked
(`auth`), at the service's mutex, at the advisory locks, and between what its
transaction checks and what it writes. QR code sessions have a `status` of
their own, which outlives the goroutine. `use[c]` is a request's way through
`Credential`: read the row, show an unknown cookie to the platform, send, and
after HTTP 401 blame the revision that was used. Cookies are numbers.

`Access` joins both: `execute` of the broker is the steps from `Send` to
`Answer`, `TurnedAway` or `Blame`. A scene names the callers and operations of a
behaviour. Left out: whether an account's owner is verified, disabled or an
administrator (`Usable`, so the model admits requests that the code refuses),
what a request whose caller has gone does with the account, listing and deleting
collectors, the renaming of one by its id, `rotate.go`, which only tests call.

### Bank, Worker, Answers

`Bank` keeps, per question, whether the sources that were saved agree
(`status`), what an older version of the question holds (`legacy`), the events
not yet delivered, and what anybody was ever `told`.

`Worker` has both sides of a run: `host` is the goroutine of `Engine.launch`
inside `Host.Run`, `child` the worker process inside `Runner.homework`, with
`toChild` and `toHost` between them and `calls` for the goroutines that execute
RPCs. `wakes` is the channel of the actor, and `ghost` the notifier of an ended
run, which may still take one wake. A killed process takes its memory and what
it has not read with it.

| actions | code |
|---|---|
| `Begin`, `Judge`, `Rediscover` | `launch`, `BeginModule`, the second run after a crash |
| `Notify`, `Warn`, `TimesOut`, `Vanish` | the notifier: wake, cancel, kill |
| `Scan`, `Eof`, `Return` | the scanner's loop, the wait for the process and for the calls |
| `Look`, `AdoptOld`, `Ask`, `Submit`, `Fails` | lookup-answer and submit-question |
| `Boot`, `First`, `Hear` | `process.Worker` |
| `Take`, `PassEnds`, `Rise`, `Check`, `CheckFails` | `Runner.homework` and its pool |

`Answers` adds the collector (its calls only: its process would be a second
`Worker`), `ObserveBatch` of other users and `deliverAnswers`. What a
submission itself does is module `Submission`; here it ends in a verdict. An
exercise has one question. Its list may be `unread`, when the engine could not
read it: the exercise then counts as failed from the start, and the last look
finds it again.

### Mail, Users

`Users` runs the requests about one mail address as transactions: a list of
statements (`Program`), one per row that is read or locked. A locking statement
waits for the row, sees its latest committed value and keeps the row until the
end, as PostgreSQL does at READ COMMITTED; what it wrote is in `draft` until the
commit. Two transactions that wait for each other have a `Victim`, and a guess
that waits for a code which is replaced meanwhile finds none. `Arguments` says
what a request is called with: the code that is guessed, whether
`UpdateUser` changes the password or the address alone, whether `Disable`
disables or enables, which policy is set. Sessions are not modelled, so what
deletes them deletes nothing here; nor are links that verify an address, or the
administrator's own row. `Mail` is the queue that these transactions insert into.
The history `spent` counts what became of the guesses at each code: a wrong one
when its transaction has answered, committed or not, a right one when it takes
effect, that is with its commit (section 4 says why the two differ).

## 3. Runs

| run | checks | instance |
|---|---|---|
| `submission_crash` | `TypeOK`, `RetryBudget`, `SettledIsAnswered`, `LedgerSpec`, `FlowEnds` | one server, crashes, four sets of older rows, no timing assumption |
| `submission_failover` | `AtMostOnce`, `SendableIsUnanswered` | two servers and the lock between them, both timing assumptions |
| `submission_recover` | `UncertainRecovers` is violated | one server |
| `engine_user` | `HeldHasNoWorker`, `UserDecides`, `DesertedOnlyIfGivenUp` | one job with a video, three requests (whole job or module) that may overlap, a worker crash, a shutdown or crash; no timing assumption |
| `engine_slots` | `SlotsRespected`, `SlotsReturned` | three jobs of two users; two slots, one per user |
| `engine_settle` | `TypeOK`, `RunningIsAttended`, `ModulesSettle` | homework and its collector, one account change or enrolment |
| `engine_answers` | `AnswersAreUsed` is violated | the same |
| `engine_crash` | `CrashIsRecovered` is violated | a video, two requests, two crashes |
| `effect` | `TypeOK`, `PostedOnce`, `SendableIsUnsent`, `ConfirmedIsShown`, `UnitsEnd` | each kind of unit, two servers, crashes |
| `access` | `TypeOK`, `CountersExact`, `PrivateXorShared`, `CooldownNotShortened`, `DeniedAccountRests`, `SignInsInOrder`, `OnlyBlamedInvalid`, `SessionsFinal`, `CallsEnd`, `SessionsEnd` | four scenes: three callers; a request and two replacements; QR codes; a user and an administrator in two processes |
| `answers` | `TypeOK`, `OneAnswerTold`, `NoStrayCalls`, `DoneIsConfirmed`, `HomeworkEnds` | eight scenes of one or two questions and two answers |
| `users` | `TypeOK`, `CodeBudget`, `MailOnce`, `ProvenRegistration`, `MailsSettle` | five scenes of up to five requests, three at a time; two processes that send mail |

What the other runs show. `effect`: a post or enrolment is sent once without any
help of the leader lock, by the journal and the rule that nothing uncertain is
repeated; progress ends once the platform is well, however often it was sent.
`access`: the broker's counts survive cancelled callers; cooldowns only grow
until time passes; a submission that is repeated without end does not starve
reads, and the other way round; neither a slow sign-in nor a late 401 undoes
what came later; a QR code session never changes once it has ended.
`answers`: no wake is needed for homework to end, because it looks again every
second; a dropped or stolen wake costs time only. `users`: wrong guesses are
counted though the requests fail, and a registration holds the policy it read.

**Bounds.** `MaxHurdles` bounds refusals; with one, every path through a
rejection, a rate limit and HTTP 403 is taken. Retries and reads have the
bounds of the code (2 and 3), so crashes and Submits need none. Two servers are
enough to have an old and a new leader; a third would meet the same row.
In `Engine` requests, account changes, worker crashes and shutdowns are
counted: three requests are a start, a pause or stop, and a resume; one crash
uses up `restarts`, and a second one, in `engine_crash`, meets that. With one account change in all
(`MaxChanges`), one member of `Changes` is enough; the proofs have any number. `MaxLate` limits how many goroutines of a job may still
have to settle when it is dispatched again; `engine_slots` has one, because
there this overlap is the point. Three jobs of two users are the least for
which the two limits differ and the rotation of owners matters.
In `Effect`, `MaxAdrift` = 2 lets a POST of each server outlive its flow; the
type of a row has no counter, so nothing else is bounded. In `Access` two
requests in all and one submission stand for 64 and 3: the third caller meets
each limit. Cooldowns are one or two ticks long, so that one can be longer than
another; a call's denials count to 1 (the code caps them at 5); `MaxLeft` = 1
request per caller goes on without it; `MaxOps` = 3 operations are a sign-in,
one that overtakes it, and one more. In `Worker` the channel of wakes holds one
message instead of eight, so that it is full at the second; two questions fill
the pool. In `Users` a code allows two guesses and two sends an hour instead of
five each; five requests are two codes and three guesses. A mail has three
attempts instead of ten: one for each way in which it may fail, and a last one.

**Scenes.** `Access`, `Answers` and `Users` choose a scene in `Init`: who takes
part, what may be asked for and what may fail. Each scene lets a part of the
system interleave freely with all its faults; all of them together would be too
large for TLC, and mostly products of parts that share no state.

**Symmetry.** Servers in `submission_failover`, and the two jobs of one user in
`engine_slots`, are interchangeable; both runs check invariants only.

**Deadlock** is not checked in `Engine`, `Access`, `Answers` and `Users`: with
all work finished and the bounds used up there is nothing left to do. In
`Users` transactions that wait in a circle are broken by `Victim`, not left.

**Fairness.** Weak fairness of the steps of a goroutine: the Go scheduler runs
what can run, calls have time-outs, and the platform answers or the connection
breaks. The dispatcher ticks, so `Claim` is fair. Nothing is assumed of users,
crashes, restarts, account changes, or of failures in particular. `FlowEnds`
also needs that a server without the lock finds out, which the ping does, and
that the platform stops refusing, which `MaxHurdles` says. A worker that runs
ends: in the code this rests on the time-outs of its calls.

In `Effect` and `Access` a flag `well` says that network and platform work from
now on; `UnitsEnd` and `CallsEnd` promise an end after that, since without it
the code means to try for ever. Writes on the wire are answered and what was
taken shows. In `Access` the loop dispatches fairly as a whole, not per caller:
that no caller starves is what `CallsEnd` has to show. In `Answers` the host,
its calls, the process and the collector go on, while crashes, hangs and pauses
are free; a hanging worker ends only by a cancellation, as `HomeworkEnds` says.
In `Users` the queue's timer is fair and nothing else.

**Time.** Besides the two assumptions of `Submission` and `LocalPrompt`: a mail's
lease (one minute) is longer than connecting and talking to the server (15 and
30 seconds), so that it runs out only when its process has given up.

## 4. What the checks found

- `submission_recover`. A call that ends with an error that is no transient
  network error (a response that cannot be read, a credential that changed in
  between) is recorded `unknown` and not retryable. Later submissions check the
  question, find it unanswered three times, and still return
  `REVIEW_REQUIRED`. `docs/submission-retries.md:9` says such records can be
  recovered once confirmed unanswered.
- `engine_answers`. `collectorsChanged` queues waiting homework only when its
  job is already `waiting_input`. If the account arrives while the homework
  worker is about to report `waiting_answers`, the collector runs and finishes,
  and the homework waits until the user presses retry. `README.md:41` says the
  answers are handed over at once; the test waits for `waiting_input` before it
  connects the account.
- `engine_crash`. `restarts` is incremented by the first crash of a module and
  never reset. After a second one, in a later run as well, the module stays
  `running` without a worker until the service restarts or the user resumes it
  (`README.md:57`).

Met while modelling: resuming a single module while another runs makes the job
`queued`, and a worker that ends before the next dispatch leaves its module
`running`; a resume that is slow to cancel can cancel the worker it has just
caused. With the repeated crash of `engine_crash` these are all the ways in which
a running module can lose the worker in charge of it: `DesertedOnlyIfGivenUp` names them,
`engine_user` checks that there is no fourth, and section 5 proves it. The run
`engine_settle`, where a running module is attended at all times, excludes the
three (`LocalPrompt`, requests for whole jobs, no worker crash). A module added to a
job that waits for input is not dispatched. `docs/admin-collectors.md:31` says that
jobs stay paused after an update of the service, `README.md:57` and the code
that they go on.

The other runs found no property violated. What a reader may want to know all
the same, since no document settles it:

- A QR code session that is cancelled after its `Login` has returned still signs
  the account in (`accounts/wechat.go:100`); its status stays `cancelled`.
- `Disconnect` takes its turn and then deletes whatever the role holds, also an
  account that was connected between the two (`accounts/service.go:160`).
- Any error while a stored cookie is validated, a broken connection included,
  marks the account invalid (`accounts/service.go:143`).
- `CheckCollector` saves the cookie it has read, over a newer one that was saved
  in between (`accounts/collectors.go:142`).
- lookup-answer looks into the bank and asks for the collector afterwards: an
  answer that arrives between the two is given up as missing when the collector
  has ended by then (`workflow/rpc.go:103`); the job ends as partial.
- A mail whose delivery was accepted is sent again when the closing `QUIT` fails
  (`mail/smtp.go:83`); `MailOnce` counts this as a mishap.
- Callers that join a flow by singleflight share the first caller's context:
  cancelling that one fails the others (`operations/submissions.go:33`).
- A sign-in inserts its session only if the password is still the one it has
  checked, but between a password change's DELETE of sessions and its commit it
  still sees the old one, and its session stays (`auth/service.go:242`).
- `RequestRegistrationCode` looks for a registered user and then issues a code;
  a registration that commits between the two leaves a registered address with a
  live code (`auth/registration.go:48`). Each right guess at it is rolled back
  with `EMAIL_REGISTERED`, the mark that it was used included, so the same code
  can be judged right any number of times and never takes effect. The
  proof of `CodeBudget` found this: an earlier form of the property, which
  counted right guesses as they were judged, is false with five requests, two of
  them for codes, and was not reached by the scenes of the run.
- Pause and stop overwrite modules that are done; a resume runs them again
  (`jobs/repository.go:173`), which the journal makes harmless.

## 5. Proofs

Each module of proofs has one inductive invariant per component, which TLC also
confirms on the instances of section 3 (`Submission` and `Engine` have two, one for
each set of assumptions about time), and theorems that follow from it. They hold
for every value of the constants that satisfies the named assumption of the
module, so for any number of servers, jobs, clients, requests, processes, questions
or scenes, where the runs have two or three. None of them uses fairness.

### Submission and its ledger

From `SubmissionAssumption` (the types of the constants) alone, for any
sets of older rows and any `MaxHurdles`.

- `TypeCorrect`: `Spec => []TypeOK`.
- `Safe`: `SafeInv` is inductive. It adds to the properties what a flow's place
  tells of its copy of the row (`PlaceInv`), that copies are never ahead of the
  row and no two flows are in the call of one attempt (`AttemptInv`), and that
  what a flow has been told by the platform is so (`AnswerInv`). `RetryBudget`
  and `SettledIsAnswered` follow (`RetryBudgetTheorem`, `SettledTheorem`);
  neither is inductive by itself, since a flow acts on what the row was when it
  was loaded or saved.
- `Implements`: `Spec => LedgerSpec`, by mapping every action to a step of the
  ledger or a stutter under `SafeInv`. `LedgerBounded` proves what the ledger
  promises: no more sent than the allowance.
- `Prompt`: under both timing assumptions `PromptInv` is inductive: at most one
  POST was accepted or still can be (`WeightInv`), a row that may be sent finds
  the platform untouched, and so does every flow that can send from a current
  copy (`OnceInv`). `AtMostOnceTheorem` and `SendableTheorem` follow.

### Effect

From `EffectAssumption` (the kinds of units, a bound on abandoned POSTs), for any
set of servers and without the leader lock. `Inductive` proves `IInv`:

- `ShownInv`: whoever is about to record or to report a unit as done has seen it
  done. `ShownTheorem` (`ConfirmedIsShown`) needs no more than this.
- `WireInv`, `AttemptInv`, `OnceInv`: a unit that must not be repeated has one
  attempt at a time; its owner is the flow whose copy of the row is fresh, and
  until it was taken nothing else is on the wire. `PostedOnce` alone is not
  inductive: a flow with an old copy may still be on its way to `pending`, and
  that its write to the row fails rests on which row the copy was read from.
  `PostedOnceTheorem` and `SendableTheorem` follow.

### Engine

From `EngineAssumption` (types of the constants; who owns a job), for any jobs,
users, kinds of modules, limits and bounds. None needs an assumption about time:
`LocalPrompt` may be FALSE, and late goroutines, half-done requests
and account changes interleave as they like.

- `EngineInductive`, of `EngineInv`:
  - `Typed`: the types, and that a preparation which blocks modules knows why and
    a worker that ends has a result, without which the status that either writes
    has no type.
  - `SlotInv`: `SlotsRespected` and `SlotsReturned`, and that `slots` is finite.
    What makes them hold is that only `Settle` takes a slot away, under the mutex
    and after a look at the job, and that everything which ends leaves a goroutine
    behind that settles. `SlotsRespectedTheorem` and `SlotsReturnedTheorem` are its
    parts.
  - `GenInv`: a worker at work has its module's generation or an older one, and an
    older one if the module is held. `Requeue` is fenced by the generation alone,
    neither by the module's status nor by the job's; what keeps it from reviving a
    paused module is that `Control` has raised the generation.
  - `HeldHasNoWorker` (`HeldHasNoWorkerTheorem`): whoever holds a module has an
    order to cancel its worker, and no worker begins on a held one.
- `UserDecidesTheorem` (`UserDecides`) follows from `GenInv`: every step is shown
  to be `Careful` with every module, that is it leaves held ones held unless it is
  the commit of a request.
- `DesertedOnlyIfGivenUpTheorem` (`DesertedOnlyIfGivenUp`): a step that leaves a
  running module with nobody in charge is the cancellation of a request committed
  earlier, the second crash of a module, or the end of a worker whose job is queued
  again. In charge is a worker of the module's generation that is not cancelled, or the
  account change that has cancelled it and is about to write what becomes of the
  module. What it needs beside `EngineInv` is `RunActive` (the job of a running
  module is active), for two cases: `Recover` then picks up every running module, and an
  account change that cancels a worker writes its module. That no module is ever without a worker,
  `RunningIsAttended`, is false in general, since the three ways exist; it is
  checked where they cannot happen.

### Broker and Accounts, within Access

From `BrokerAssumption`, `AccountsAssumption` (there are owners and identities),
`AccessAssumption` and `ScenesAssumption` (a scene starts with private accounts,
one of each owner and role), about the specification of `Access`.
The set of clients may be infinite.

- `BrokerInductive`, of `BrokerInv`: the queue has each waiting caller once
  (`QueueInv`); what `total` and `active` count is finite and counted exactly,
  requests whose callers have gone included (`CountInv`); an identity that was
  denied since the last tick still waits (`RestInv`). `CountersExactTheorem` is
  `CountInv` with the limits. The limits need the exact counts: `Dispatch` looks
  at the counters, the limits speak of the requests. `CooldownTheorem` and
  `DeniedRestTheorem` are action properties, by one case per step.
- `AccountsInductive`, of `AccountsInv`: no two operations of a place share a
  turn, and who holds the mutex has the latest (`TurnInv`); what a transaction
  has found of an identity (all of it shared, or none) holds until it is over,
  since every other one that writes the identity needs the same advisory lock
  (`LockInv`); a request that holds the current revision holds the cookie of
  it (`UseInv`). `PrivateXorSharedTheorem` and `OneActiveSessionTheorem` (one QR
  code at a time for each owner and role, which no run checks) are parts of it; `SignInsInOrderTheorem` rests on `TurnInv`, `OnlyBlamedTheorem`
  on `UseInv`, `SessionsFinalTheorem` on a lemma about all steps of a session.
- `TypeCorrect` joins both to `Access!TypeOK`.

### Bank, Worker, Answers

From `BankAssumption` (finitely many questions; answers are not the marks for
"none", "reference" and "hidden"), `WorkerAssumption` and `ScenesAssumption`.
`AnswersInductive` proves `AnswersInv`, a conjunction along the way of an answer:

- `ToldInv` (in `BankOK`): who was told an answer was told the one the row keeps
  for good, also once the sources conflict. `OneAnswerToldTheorem` follows.
- `CallsOK`: a call belongs to the current run of the worker, as the host waits
  for its calls before it returns. `NoStrayCallsTheorem` is this.
- `SeenInv`: what the process saw on the platform is so still, since an answer is
  taken once. `ItemInv`: what it passes over was seen answered, and what it is
  through with has an item. `SayInv`: wherever "done" is, in the pipe, with the
  host or in the module's row, the platform holds every answer for good.
  `DoneIsConfirmed` speaks of the row only; the chain from the last look of the
  process through the pipe to the judgement of the host is what
  `DoneIsConfirmedTheorem` needs.
- `SceneOK`, `EngineOK`, `PipesOK`, `ChildOK` are types.

### Mail, Users

From `MailAssumption`, `UsersAssumption` and `ScenesAssumption`.
`UsersInductive` proves `UsersInv`:

- `MailInv`: what a process works on is leased to it alone and not sent yet
  (`WorkInv`); a delivery is recorded, about to be recorded, or a mishap
  (`CountInv`). `MailOnceTheorem` follows.
- `DbInv`, `LockInv`: what a transaction has written is what its place in its
  program makes of the committed row (`DraftInv`, `PlaceInv`), what it was told
  is about a row it holds (`ReplyInv`), and no two transactions hold one row
  (`Apart`). With it every commit is a step from the state that the statements
  have seen, which is what `ProvenRegistrationTheorem` takes from it.
- `FreshInv`, `SpentInv`: a code is issued to one request; it has been answered
  "wrong" no more often than its row, committed or about to be, counts tries, and
  has taken effect only if the row is used or gone. `CodeBudgetTheorem` follows.
  The budget is not inductive without the locks: two guesses that read the same
  count of tries would both be answered.

### Only model-checked

All liveness (`FlowEnds`, `ModulesSettle`, `UnitsEnd`, `CallsEnd`,
`SessionsEnd`, `HomeworkEnds`, `MailsSettle`), which rests on fairness and
ENABLED and is out of the prover's reach. And `RunningIsAttended`, which holds only
without the three ways of the previous section. Every other property of
a passing run is proved, without such a restriction.

## 6. Plan

1. `Submission`, `SubmissionLedger` and their proofs - done.
2. `Engine` and its proofs - done. Left: `JobLedger`, an abstract job (what a user
   sees of a module and who may change it), and the proof that `Engine` implements
   it; the finding about resuming one module; a second leader over the job tables.
3. `Effect` and its proofs - done.
4. `Broker`, `Accounts`, `Access` and their proofs - done.
5. `Bank`, `Worker`, `Answers` and their proofs - done.
6. `Mail`, `Users` and their proofs - done. Left: sign-in and its sessions, API
   tokens, limiter.

Proofs to come: refinements, beyond that of `Submission`: the journal of `Effect`
and the rows of `Engine` as abstract machines.

## 7. Not modelled, and why

Parsing of platform responses, rendering, configuration, encryption and most
HTTP handlers have no protocol of their own. Question fingerprints and the
decoding of answers are pure functions over text, with unit tests beside them.
The stream of job events and the recorder of page traffic keep nothing that the
rest relies on. Sign-in, its sessions and API tokens are left for later. Of the
job tables, items and counters are not modelled; of the bank, neither export
nor search. Two servers over the job tables are not: the leader lock is modelled
where its loss matters most, in `Submission`, and `Effect` does without it.
Time is abstracted to the named assumptions. The Node service is not part of
the Go program.
