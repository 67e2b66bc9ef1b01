------------------------------ MODULE Engine ------------------------------
(***************************************************************************)
(* The workflow engine: jobs and their modules in PostgreSQL, and the one  *)
(* process that prepares jobs and keeps one worker per running module.     *)
(*                                                                         *)
(*   workflow/engine.go      dispatch, slots, settle, Control, shutdown    *)
(*   workflow/pipeline.go    prepare and blockQueued                       *)
(*   workflow/collectors.go  prepareCollector and collectorsChanged        *)
(*   workflow/actors.go      launch and AccountChanged                     *)
(*   jobs/repository.go      the fenced updates of jobs and job_modules    *)
(*   jobs/recovery.go        Recover                                       *)
(*                                                                         *)
(* A step is one transaction, one section under Engine.mu, or one call to  *)
(* the platform or a worker: other goroutines run between any two of them. *)
(* Leadership among several processes is in module Submission.             *)
(***************************************************************************)
EXTENDS Integers, FiniteSets

CONSTANTS
  Jobs,             \* one per account and course
  Owners, OwnerOf,  \* users, and whose job it is
  Media,            \* kinds of modules that need no answers: video, ...
  Starts,           \* sets of kinds a user may ask for
  Scopes,           \* what pause, stop and resume may name: "all" or a kind
  Changes,          \* calls that report a change of an account, side by side
  GlobalLimit, UserLimit,
  MaxRequests, MaxChanges, MaxCrashes, MaxStops,
                    \* bounds: user requests, changes of accounts (free
                    \* enrolments included), worker crashes, and shutdowns or
                    \* crashes of the process
  MaxLate,          \* bound: goroutines of a job that have yet to settle when
                    \* it is claimed again
  LocalPrompt       \* TRUE: what Control does after its commit, and settle after
                    \* its unlock, is done before a worker of the job begins, a
                    \* launched worker begins before its job is claimed again, and
                    \* dispatch goes through what it has queried at once

Kinds == Media \union {"homework", "collector"}

ASSUME EngineAssumption ==
  /\ OwnerOf \in [Jobs -> Owners]
  /\ {"homework", "collector"} \intersect Media = {}
  /\ Starts \subseteq SUBSET Kinds
  /\ Scopes \subseteq Kinds \union {"all"}
  /\ "all" \notin Kinds
  /\ GlobalLimit \in Nat /\ UserLimit \in Nat
  /\ {MaxRequests, MaxChanges, MaxCrashes, MaxStops, MaxLate} \subseteq Nat
  /\ LocalPrompt \in BOOLEAN

Active == {"queued", "running", "waiting_input"}
JobStatuses == Active \union {"absent", "partial", "done", "paused", "stopped"}

Held == {"paused", "stopped"}
Results == {"done", "partial", "blocked", "waiting_account", "waiting_answers"}
Waiting == {"waiting_account", "waiting_answers", "waiting_enrollment"}
ModuleStatuses == {"absent", "queued", "running"} \union Held \union Results \union Waiting

VARIABLES
  job,      \* jobs.status
  mod,      \* job_modules: status, generation, restarts
  lacks,    \* answers of the job's homework are missing from the bank
  primary,  \* per owner: the job's formal account is connected and valid
  helper,   \* an account for collecting answers is available
  up,       \* "off", "on", or "closing" (Engine.ctx cancelled)
  slots,    \* Engine.owners: the jobs that occupy a slot
  last,     \* Engine.lastOwner
  found,    \* candidates that dispatch has queried and has yet to go through
  prep,     \* Engine.preparing and the goroutine behind it
  actor,    \* Engine.actors and the goroutine behind each
  order,    \* per job and scope: Controls that committed and have yet to cancel
  news,     \* the account changes being handled
  settling, \* per job: goroutines about to look whether the job is busy
  tallying, \* per job: goroutines that found it idle, about to aggregate
  spent     \* how much of the four bounds is used up

database == <<job, mod, lacks>>
accounts == <<primary, helper>>
memory == <<slots, last, found, prep, actor, order, news, settling, tallying>>
vars == <<database, accounts, up, memory, spent>>

Places == {"none", "mark", "get", "discover", "media", "exercises", "collector",
           "helper", "homework", "block", "leave"}
PrepState == [pc: Places, dead: BOOLEAN, todo: SUBSET Kinds, left: SUBSET Kinds,
              listed: BOOLEAN, verdict: {"none", "blocked", "waiting_account"}]
NoPrep == [pc |-> "none", dead |-> FALSE, todo |-> {}, left |-> {}, listed |-> FALSE,
           verdict |-> "none"]

ActorState == [pc: {"none", "begin", "run", "requeue", "rediscover", "finish", "leave"},
               dead: BOOLEAN, gen: Nat, again: BOOLEAN, result: Results \union {"none"}]
NoActor == [pc |-> "none", dead |-> FALSE, gen |-> 0, again |-> FALSE, result |-> "none"]

NoNews == [step |-> "none", owner |-> "none", stale |-> FALSE, changed |-> {}]

\* What the bank and the helpers are like only matters to homework.
Unknown == IF {"homework", "collector"} \intersect UNION Starts = {} THEN {FALSE} ELSE BOOLEAN

Init ==
  /\ job = [j \in Jobs |-> "absent"]
  /\ mod = [j \in Jobs |-> [k \in Kinds |-> [status |-> "absent", gen |-> 0, restarts |-> 0]]]
  /\ lacks \in [Jobs -> Unknown]
  /\ primary = [o \in Owners |-> TRUE]
  /\ helper \in Unknown
  /\ up = "off"
  /\ slots = {}
  /\ last = "none"
  /\ found = {}
  /\ prep = [j \in Jobs |-> NoPrep]
  /\ actor = [j \in Jobs |-> [k \in Kinds |-> NoActor]]
  /\ order = [j \in Jobs |-> [scope \in Scopes |-> 0]]
  /\ news = [c \in Changes |-> NoNews]
  /\ settling = [j \in Jobs |-> 0]
  /\ tallying = [j \in Jobs |-> 0]
  /\ spent = [requests |-> 0, changes |-> 0, crashes |-> 0, stops |-> 0]

Spend(what, bound) == spent[what] < bound /\ spent' = [spent EXCEPT ![what] = @ + 1]

-----------------------------------------------------------------------------
(* The repository.                                                          *)

Has(m, j, statuses) == \E k \in Kinds : m[j][k].status \in statuses

\* Mutant of Module: any report is written while the job runs.
ModuleForced(j, k, status) ==
  mod' = IF job[j] = "running" THEN [mod EXCEPT ![j][k].status = status] ELSE mod

\* Repository.Module: not fenced by the generation, but the user's word and
\* "done" stand; a missing row is inserted.
Module(j, k, status) ==
  mod' = IF job[j] = "running" /\ mod[j][k].status \notin Held \union {"done"}
         THEN [mod EXCEPT ![j][k].status = status] ELSE mod

\* The fence of Progress and FinishModule.
Fenced(j, k) ==
  /\ mod[j][k].gen = actor[j][k].gen
  /\ mod[j][k].status = "running"
  /\ job[j] = "running"

\* The given modules of each job get a status and a new generation.
Moved(rows, status) ==
  [j \in Jobs |-> [k \in Kinds |->
    IF k \in rows[j] THEN [mod[j][k] EXCEPT !.status = status, !.gen = @ + 1] ELSE mod[j][k]]]

\* Mutant of Summary: the job takes the status of a waiting module.
SummaryCopied(j) ==
  IF Has(mod, j, {"queued", "running"}) THEN "queued"
  ELSE IF Has(mod, j, Waiting) THEN "waiting_account"
  ELSE IF Has(mod, j, {"partial", "blocked"} \union Held) THEN "partial" ELSE "done"

\* Repository.Aggregate.
Summary(j) ==
  IF Has(mod, j, {"queued", "running"}) THEN "queued"
  ELSE IF Has(mod, j, Waiting) THEN "waiting_input"
  ELSE IF Has(mod, j, {"partial", "blocked"} \union Held) THEN "partial" ELSE "done"

\* Repository.Recover, at the start and at the end of a process (without the
\* repair of jobs that older releases left behind).
Recover ==
  LET interrupted == [j \in Jobs |-> {k \in Kinds :
                        /\ job[j] \in Active
                        /\ mod[j][k].status \in {"running", "queued", "waiting_answers"}}]
  IN  /\ mod' = Moved(interrupted, "queued")
      /\ job' = [j \in Jobs |-> IF job[j] \in Active /\ Has(mod', j, {"queued"})
                                THEN "queued" ELSE job[j]]
      /\ UNCHANGED lacks

-----------------------------------------------------------------------------
(* Requests of users: Engine.Start and Engine.Control.                      *)

\* Repository.Create: a new job, or modules added to the active one.
Start(j, kinds) ==
  /\ up = "on"
  /\ primary[OwnerOf[j]]
  /\ job[j] \in Active \union {"absent"}
  /\ kinds \in Starts
  /\ Spend("requests", MaxRequests)
  /\ job' = [job EXCEPT ![j] = IF @ = "absent" THEN "queued" ELSE @]
  /\ mod' = [mod EXCEPT ![j] = [k \in Kinds |->
       IF k \in kinds /\ @[k].status = "absent" THEN [@[k] EXCEPT !.status = "queued"] ELSE @[k]]]
  /\ UNCHANGED <<lacks, accounts, up, memory>>

\* Repository.Control, the transaction of pause, stop, resume and retry.
Control(j, status, scope) ==
  LET named == {k \in Kinds : /\ scope \in {"all", k}
                              /\ mod[j][k].status # "absent"
                              /\ status = "queued" => mod[j][k].status # "done"}
  IN
  /\ up # "off"
  /\ job[j] # "absent"
  /\ scope \in Scopes
  /\ Spend("requests", MaxRequests)
  /\ mod' = Moved([i \in Jobs |-> IF i = j THEN named ELSE {}], status)
  /\ job' = [job EXCEPT ![j] = IF scope = "all" \/ status = "queued" THEN status ELSE @]
  /\ order' = [order EXCEPT ![j][scope] = @ + 1]
  /\ UNCHANGED <<lacks, accounts, up, slots, last, found, prep, actor, news, settling, tallying>>

\* A context is cancelled; cancelling nothing does nothing.
Killed(state) == IF state.pc = "none" THEN state ELSE [state EXCEPT !.dead = TRUE]

\* Mutant of Cancel: only the preparation is cancelled.
CancelPrepared(j, scope) ==
  /\ order[j][scope] > 0
  /\ order' = [order EXCEPT ![j][scope] = @ - 1]
  /\ prep' = IF scope = "all" THEN [prep EXCEPT ![j] = Killed(@)] ELSE prep
  /\ UNCHANGED <<database, accounts, up, slots, last, found, actor, news, settling, tallying, spent>>

\* The rest of Engine.Control, under the mutex.
Cancel(j, scope) ==
  /\ order[j][scope] > 0
  /\ order' = [order EXCEPT ![j][scope] = @ - 1]
  /\ prep' = IF scope = "all" THEN [prep EXCEPT ![j] = Killed(@)] ELSE prep
  /\ actor' = [actor EXCEPT ![j] = [k \in Kinds |->
                 IF scope \in {"all", k} THEN Killed(@[k]) ELSE @[k]]]
  /\ UNCHANGED <<database, accounts, up, slots, last, found, news, settling, tallying, spent>>

\* Requests that name module k and have yet to cancel its worker.
Naming(k) == Scopes \intersect {"all", k}
Ordered(j, k) == \E scope \in Naming(k) : order[j][scope] > 0

-----------------------------------------------------------------------------
(* Engine.dispatch, Engine.prepare and Engine.settle.                       *)

Dispatchable(j) == job[j] \in {"queued", "running"} /\ Has(mod, j, {"queued"})

OwnSlots(o) == {i \in slots : OwnerOf[i] = o}

Free(j) ==
  /\ prep[j].pc = "none"
  /\ \/ j \in slots
     \/ Cardinality(slots) < GlobalLimit /\ Cardinality(OwnSlots(OwnerOf[j])) < UserLimit

\* What the loop of Engine.dispatch still has to go through.
Candidates == IF LocalPrompt THEN {j \in Jobs : up = "on" /\ Dispatchable(j)} ELSE found

\* The query.  Whoever is being prepared or finds no slot is passed over.
Query ==
  /\ up = "on" /\ ~LocalPrompt
  /\ \A j \in found : ~Free(j)
  /\ found' = {j \in Jobs : Dispatchable(j)}
  /\ UNCHANGED <<database, accounts, up, slots, last, prep, actor, order, news, settling, tallying, spent>>

\* Under the mutex; the candidate may have been paused since the query.  The
\* owner served last comes after the others.
Claim(j) ==
  /\ j \in Candidates
  /\ Free(j)
  /\ OwnerOf[j] # last \/ \A i \in Candidates : Free(i) => OwnerOf[i] = last
  /\ settling[j] + tallying[j] <= MaxLate
  /\ LocalPrompt => \A k \in Kinds : actor[j][k].pc # "begin"
  /\ found' = found \ {j}
  /\ prep' = [prep EXCEPT ![j] = [NoPrep EXCEPT !.pc = "mark", !.dead = up # "on"]]
  /\ slots' = slots \union {j}
  /\ last' = OwnerOf[j]
  /\ UNCHANGED <<database, accounts, up, actor, order, news, settling, tallying, spent>>

At(j, place) == prep[j].pc = place
Goto(j, place) == prep' = [prep EXCEPT ![j].pc = place]
prepUnchanged == <<lacks, accounts, up, slots, last, found, order, news, settling, tallying, spent>>

\* The job is running, whoever else has paused it meanwhile.
MarkRunning(j) ==
  /\ At(j, "mark")
  /\ IF prep[j].dead THEN Goto(j, "leave") /\ UNCHANGED job
     ELSE /\ Goto(j, "get")
          /\ job' = [job EXCEPT ![j] = IF @ \in {"queued", "running"} THEN "running" ELSE @]
  /\ UNCHANGED <<mod, actor, prepUnchanged>>

\* Jobs.Get: the copy of the modules that the whole preparation goes by.
Get(j) ==
  LET todo == {k \in Kinds : mod[j][k].status = "queued"} IN
  /\ At(j, "get")
  /\ IF prep[j].dead THEN Goto(j, "leave")
     ELSE prep' = [prep EXCEPT ![j].pc = "discover", ![j].todo = todo,
                     ![j].left = todo \intersect Media,
                     ![j].listed = mod[j]["collector"].status # "absent"]
  /\ UNCHANGED <<job, mod, actor, prepUnchanged>>

\* A call of a preparation failed: blockQueued does nothing once cancelled.
GiveUp(j) ==
  IF prep[j].dead THEN Goto(j, "leave")
  ELSE \E verdict \in {"blocked", "waiting_account"} :
         prep' = [prep EXCEPT ![j].pc = "block", ![j].verdict = verdict, ![j].left = prep[j].todo]

\* Accounts.Require and Catalog.Discover with the formal account.
Discover(j) ==
  /\ At(j, "discover")
  /\ IF prep[j].dead \/ ~primary[OwnerOf[j]] THEN GiveUp(j) ELSE Goto(j, "media")
  /\ UNCHANGED <<job, mod, actor, prepUnchanged>>

DiscoverFails(j) ==
  /\ prep[j].pc \in {"discover", "exercises"}
  /\ ~prep[j].dead
  /\ GiveUp(j)
  /\ UNCHANGED <<job, mod, actor, prepUnchanged>>

\* launch: one actor per module; its context is the engine's, not the
\* preparation's.
Launch(j, k) ==
  actor' = IF actor[j][k].pc # "none" THEN actor
           ELSE [actor EXCEPT ![j][k] = [NoActor EXCEPT !.pc = "begin", !.dead = up # "on"]]

\* A job of one unit blocks its module if the course has no such unit.
LaunchMedia(j) ==
  /\ At(j, "media")
  /\ \/ \E k \in prep[j].left :
          /\ prep' = [prep EXCEPT ![j].left = @ \ {k}]
          /\ \/ Launch(j, k) /\ UNCHANGED mod
             \/ ~prep[j].dead /\ Module(j, k, "blocked") /\ UNCHANGED actor
     \/ /\ prep[j].left = {}
        /\ Goto(j, IF prep[j].todo \subseteq Media THEN "leave" ELSE "exercises")
        /\ UNCHANGED <<mod, actor>>
  /\ UNCHANGED <<job, prepUnchanged>>

\* Catalog.Exercises, Bank.ObserveBatch and Bank.Coverage.
Exercises(j) ==
  LET collects == "collector" \in prep[j].todo \/ ("homework" \in prep[j].todo /\ lacks[j]) IN
  /\ At(j, "exercises")
  /\ IF prep[j].dead \/ ~primary[OwnerOf[j]] THEN GiveUp(j)
     ELSE Goto(j, IF ~collects THEN "homework" ELSE IF prep[j].listed THEN "helper" ELSE "collector")
  /\ UNCHANGED <<job, mod, actor, prepUnchanged>>

\* The job gets a collector module.
AddCollector(j) ==
  /\ At(j, "collector")
  /\ IF prep[j].dead THEN UNCHANGED mod ELSE Module(j, "collector", "queued")
  /\ Goto(j, "helper")
  /\ UNCHANGED <<job, actor, prepUnchanged>>

\* prepareCollector: the first account that can read the exercises.
FindHelper(j) ==
  /\ At(j, "helper")
  /\ Goto(j, "homework")
  /\ \/ prep[j].dead /\ UNCHANGED <<mod, actor>>
     \/ ~prep[j].dead /\ helper /\ Launch(j, "collector") /\ UNCHANGED mod
     \/ /\ ~prep[j].dead
        /\ \E status \in {"waiting_account"} \union
                         (IF helper THEN {"blocked", "waiting_enrollment"} ELSE {}) :
             Module(j, "collector", status)
        /\ UNCHANGED actor
  /\ UNCHANGED <<job, prepUnchanged>>

\* A shared account is about to join the course for free.
Enroll(j) ==
  /\ At(j, "helper")
  /\ ~prep[j].dead
  /\ helper /\ lacks[j]
  /\ Spend("changes", MaxChanges)
  /\ Module(j, "collector", "queued")
  /\ UNCHANGED <<job, prep, actor, lacks, accounts, up, slots, last, found, order, news, settling, tallying>>

LaunchHomework(j) ==
  /\ At(j, "homework")
  /\ IF "homework" \in prep[j].todo THEN Launch(j, "homework") ELSE UNCHANGED actor
  /\ Goto(j, "leave")
  /\ UNCHANGED <<job, mod, prepUnchanged>>

\* blockQueued: one module of the copy after the other.
Block(j) ==
  /\ At(j, "block")
  /\ \/ \E k \in prep[j].left :
          /\ IF prep[j].dead THEN UNCHANGED mod ELSE Module(j, k, prep[j].verdict)
          /\ prep' = [prep EXCEPT ![j].left = @ \ {k}]
     \/ prep[j].left = {} /\ Goto(j, "leave") /\ UNCHANGED mod
  /\ UNCHANGED <<job, actor, prepUnchanged>>

\* Mutant of EndPrepare: nobody looks whether the job is idle now.
EndPrepareSilently(j) ==
  /\ At(j, "leave")
  /\ prep' = [prep EXCEPT ![j] = NoPrep]
  /\ UNCHANGED <<database, accounts, up, slots, last, found, actor, order, news, settling, tallying, spent>>

EndPrepare(j) ==
  /\ At(j, "leave")
  /\ prep' = [prep EXCEPT ![j] = NoPrep]
  /\ settling' = [settling EXCEPT ![j] = @ + 1]
  /\ UNCHANGED <<database, accounts, up, slots, last, found, actor, order, news, tallying, spent>>

Busy(j) == prep[j].pc # "none" \/ \E k \in Kinds : actor[j][k].pc # "none"

\* Mutant of Settle: the slot is given up by whoever ends first.
SettleHasty(j) ==
  /\ settling[j] > 0
  /\ settling' = [settling EXCEPT ![j] = @ - 1]
  /\ slots' = slots \ {j}
  /\ tallying' = [tallying EXCEPT ![j] = @ + 1]
  /\ UNCHANGED <<database, accounts, up, last, found, prep, actor, order, news, spent>>

\* settle, under the mutex: an idle job gives up its slot ...
Settle(j) ==
  /\ settling[j] > 0
  /\ settling' = [settling EXCEPT ![j] = @ - 1]
  /\ IF Busy(j) THEN UNCHANGED <<slots, tallying>>
     ELSE slots' = slots \ {j} /\ tallying' = [tallying EXCEPT ![j] = @ + 1]
  /\ UNCHANGED <<database, accounts, up, last, found, prep, actor, order, news, spent>>

\* ... and after it.
Aggregate(j) ==
  /\ tallying[j] > 0
  /\ tallying' = [tallying EXCEPT ![j] = @ - 1]
  /\ job' = [job EXCEPT ![j] = IF @ \in Held \union {"done"} THEN @ ELSE Summary(j)]
  /\ UNCHANGED <<mod, lacks, accounts, up, slots, last, found, prep, actor, order, news, settling, spent>>

-----------------------------------------------------------------------------
(* launch: one goroutine and one worker process per running module.         *)

Being(j, k, place) == actor[j][k].pc = place
Enter(j, k, place) == actor' = [actor EXCEPT ![j][k].pc = place]
End(j, k, result) == actor' = [actor EXCEPT ![j][k].pc = "finish", ![j][k].result = result]
actorUnchanged == <<accounts, up, slots, last, found, prep, order, news, settling, tallying>>

\* No half-done Control or Aggregate is left.
Quiet(j) == LocalPrompt => (\A scope \in Scopes : order[j][scope] = 0) /\ settling[j] = 0 /\ tallying[j] = 0

\* Repository.BeginModule.
Begin(j, k) ==
  /\ Being(j, k, "begin")
  /\ Quiet(j)
  /\ IF ~actor[j][k].dead /\ job[j] = "running" /\ mod[j][k].status = "queued"
     THEN /\ mod' = [mod EXCEPT ![j][k].status = "running", ![j][k].gen = @ + 1]
          /\ actor' = [actor EXCEPT ![j][k].pc = "run", ![j][k].gen = mod[j][k].gen + 1]
     ELSE Enter(j, k, "leave") /\ UNCHANGED mod
  /\ UNCHANGED <<job, lacks, spent, actorUnchanged>>

\* Repository.Producer, as the homework worker reads it.
Producer(j) ==
  IF mod[j]["collector"].status = "absent" THEN "done" ELSE mod[j]["collector"].status

\* Mutant of Endings: homework also waits for a collector without an account.
EndingsPatient(j, k) ==
  IF k # "homework" \/ ~lacks[j] THEN {"done", "partial"}
  ELSE IF Producer(j) \in {"running", "queued", "waiting_account"} THEN {}
  ELSE IF Producer(j) \in {"done", "partial", "blocked", "stopped"} THEN {"partial"}
  ELSE {"waiting_answers"}

\* What a worker can end with when nothing goes wrong; homework that lacks
\* answers goes on as long as a collector is running or about to.
Endings(j, k) ==
  IF k # "homework" \/ ~lacks[j] THEN {"done", "partial"}
  ELSE IF Producer(j) \in {"running", "queued"} THEN {}
  ELSE IF Producer(j) \in {"done", "partial", "blocked", "stopped"} THEN {"partial"}
  ELSE {"waiting_answers"}

\* The worker sends its result; a collector has saved answers on its way.
RunEnds(j, k) ==
  /\ Being(j, k, "run")
  /\ ~actor[j][k].dead
  /\ \E result \in Endings(j, k) : End(j, k, result)
  /\ IF k = "collector" THEN \E b \in {lacks[j], FALSE} : lacks' = [lacks EXCEPT ![j] = b]
     ELSE UNCHANGED lacks
  /\ UNCHANGED <<job, mod, spent, actorUnchanged>>

\* The worker reports an error; a revoked credential is one.
RunFails(j, k) ==
  /\ Being(j, k, "run")
  /\ ~actor[j][k].dead
  /\ \E result \in {"blocked", "waiting_account"} : End(j, k, result)
  /\ UNCHANGED <<database, spent, actorUnchanged>>

\* Progress matched no row: the worker is killed.
RunRefused(j, k) ==
  /\ Being(j, k, "run")
  /\ ~actor[j][k].dead
  /\ ~Fenced(j, k)
  /\ End(j, k, "blocked")
  /\ UNCHANGED <<database, spent, actorUnchanged>>

\* Mutant of RunCrashes: a worker that dies is taken for one that was cancelled.
RunCrashesSilently(j, k) ==
  /\ Being(j, k, "run")
  /\ ~actor[j][k].dead
  /\ Spend("crashes", MaxCrashes)
  /\ Enter(j, k, "leave")
  /\ UNCHANGED <<database, actorUnchanged>>

\* WORKER_CRASH: the first time the module is queued again.
RunCrashes(j, k) ==
  /\ Being(j, k, "run")
  /\ ~actor[j][k].dead
  /\ Spend("crashes", MaxCrashes)
  /\ IF actor[j][k].again THEN End(j, k, "blocked") ELSE Enter(j, k, "requeue")
  /\ UNCHANGED <<database, actorUnchanged>>

\* The worker of a cancelled actor is told to stop, then killed.
RunCancelled(j, k) ==
  /\ Being(j, k, "run")
  /\ actor[j][k].dead
  /\ Enter(j, k, "leave")
  /\ UNCHANGED <<database, spent, actorUnchanged>>

Requeue(j, k) ==
  /\ Being(j, k, "requeue")
  /\ IF ~actor[j][k].dead /\ mod[j][k].gen = actor[j][k].gen /\ mod[j][k].restarts < 1
     THEN /\ mod' = [mod EXCEPT ![j][k].status = "queued", ![j][k].restarts = @ + 1]
          /\ Enter(j, k, "rediscover")
     ELSE Enter(j, k, "leave") /\ UNCHANGED mod
  /\ UNCHANGED <<job, lacks, spent, actorUnchanged>>

\* The course is read again before the second attempt.
Rediscover(j, k) ==
  /\ Being(j, k, "rediscover")
  /\ \/ /\ ~actor[j][k].dead
        /\ actor' = [actor EXCEPT ![j][k].pc = "begin", ![j][k].again = TRUE]
        /\ UNCHANGED mod
     \/ /\ IF actor[j][k].dead THEN UNCHANGED mod ELSE Module(j, k, "blocked")
        /\ Enter(j, k, "leave")
  /\ UNCHANGED <<job, lacks, spent, actorUnchanged>>

\* Repository.FinishModule.
Finish(j, k) ==
  /\ Being(j, k, "finish")
  /\ mod' = IF ~actor[j][k].dead /\ Fenced(j, k)
            THEN [mod EXCEPT ![j][k].status = actor[j][k].result] ELSE mod
  /\ Enter(j, k, "leave")
  /\ UNCHANGED <<job, lacks, spent, actorUnchanged>>

Leave(j, k) ==
  /\ Being(j, k, "leave")
  /\ actor' = [actor EXCEPT ![j][k] = NoActor]
  /\ settling' = [settling EXCEPT ![j] = @ + 1]
  /\ UNCHANGED <<database, accounts, up, slots, last, found, prep, order, news, tallying, spent>>

-----------------------------------------------------------------------------
(* Account changes: Engine.AccountChanged and Engine.collectorsChanged,     *)
(* called once the change is committed.                                     *)

\* A user connects, replaces or disconnects the formal account.
PrimaryChanges(c, o) ==
  /\ up # "off"
  /\ news[c].step = "none"
  /\ Spend("changes", MaxChanges)
  /\ \E connected \in BOOLEAN : primary' = [primary EXCEPT ![o] = connected]
  /\ news' = [news EXCEPT ![c] = [NoNews EXCEPT !.step = "cancel", !.owner = o]]
  /\ UNCHANGED <<database, helper, up, slots, last, found, prep, actor, order, settling, tallying>>

\* An account for collecting is added (stale = FALSE), or one in use is
\* replaced or disabled.
HelperChanges(c) ==
  /\ up # "off"
  /\ news[c].step = "none"
  /\ Spend("changes", MaxChanges)
  /\ \E available, stale \in BOOLEAN :
       /\ available \in Unknown
       /\ ~stale => available
       /\ stale => helper
       /\ helper' = available
       /\ news' = [news EXCEPT ![c] = [NoNews EXCEPT !.step = "revoke", !.stale = stale]]
  /\ UNCHANGED <<database, primary, up, slots, last, found, prep, actor, order, settling, tallying>>

newsUnchanged == <<lacks, accounts, up, slots, last, found, order, settling, tallying, spent>>

\* Under the mutex: every actor and preparation that uses the formal account.
CancelFormal(c) ==
  /\ news[c].step = "cancel"
  /\ news' = [news EXCEPT ![c].step = "suspend"]
  /\ actor' = [j \in Jobs |-> [k \in Kinds |->
                 IF OwnerOf[j] = news[c].owner /\ k # "collector"
                 THEN Killed(actor[j][k]) ELSE actor[j][k]]]
  /\ prep' = [j \in Jobs |-> IF OwnerOf[j] = news[c].owner THEN Killed(prep[j]) ELSE prep[j]]
  /\ UNCHANGED <<job, mod, newsUnchanged>>

SuspendFormal(c) ==
  LET touched == [j \in Jobs |-> {k \in Kinds \ {"collector"} :
                    /\ OwnerOf[j] = news[c].owner
                    /\ job[j] \in Active
                    /\ mod[j][k].status \in {"running", "queued", "waiting_answers", "waiting_account"}}]
  IN
  /\ news[c].step = "suspend"
  /\ mod' = Moved(touched, "waiting_account")
  /\ news' = [news EXCEPT ![c] = NoNews]
  /\ UNCHANGED <<job, actor, prep, newsUnchanged>>

\* Under the mutex: the collectors whose account is no longer valid.
RevokeCollectors(c) ==
  LET affected == IF news[c].stale THEN {j \in Jobs : actor[j]["collector"].pc # "none"} ELSE {} IN
  /\ news[c].step = "revoke"
  /\ news' = [news EXCEPT ![c].step = "collectors", ![c].changed = affected]
  /\ actor' = [j \in Jobs |-> IF j \in affected
                              THEN [actor[j] EXCEPT !["collector"] = Killed(@)] ELSE actor[j]]
  /\ UNCHANGED <<job, mod, prep, newsUnchanged>>

\* Mutant of QueueCollectors: the collectors just cancelled are left out.
QueueCollectorsWaiting(c) ==
  LET touched == [j \in Jobs |-> {k \in {"collector"} :
                    /\ job[j] \in Active
                    /\ mod[j][k].status \in {"waiting_account", "waiting_enrollment"}}]
  IN
  /\ news[c].step = "collectors"
  /\ mod' = Moved(touched, "queued")
  /\ news' = [news EXCEPT ![c].step = "homework"]
  /\ UNCHANGED <<job, actor, prep, newsUnchanged>>

\* Three updates follow.
QueueCollectors(c) ==
  LET touched == [j \in Jobs |-> {k \in {"collector"} :
                    /\ job[j] \in Active
                    /\ \/ mod[j][k].status \in {"waiting_account", "waiting_enrollment"}
                       \/ j \in news[c].changed /\ mod[j][k].status = "running"}]
  IN
  /\ news[c].step = "collectors"
  /\ mod' = Moved(touched, "queued")
  /\ news' = [news EXCEPT ![c].step = "homework"]
  /\ UNCHANGED <<job, actor, prep, newsUnchanged>>

QueueHomework(c) ==
  /\ news[c].step = "homework"
  /\ mod' = [j \in Jobs |->
       IF /\ job[j] = "waiting_input"
          /\ mod[j]["homework"].status = "waiting_answers"
          /\ mod[j]["collector"].status = "queued"
       THEN [mod[j] EXCEPT !["homework"].status = "queued"] ELSE mod[j]]
  /\ news' = [news EXCEPT ![c].step = "jobs"]
  /\ UNCHANGED <<job, actor, prep, newsUnchanged>>

QueueJobs(c) ==
  /\ news[c].step = "jobs"
  /\ job' = [j \in Jobs |-> IF job[j] = "waiting_input" /\ Has(mod, j, {"queued"})
                            THEN "queued" ELSE job[j]]
  /\ news' = [news EXCEPT ![c] = NoNews]
  /\ UNCHANGED <<mod, actor, prep, newsUnchanged>>

-----------------------------------------------------------------------------
(* The process: New, the health check and Close.                            *)

Boot ==
  /\ up = "off"
  /\ up' = "on"
  /\ Recover
  /\ UNCHANGED <<accounts, memory, spent>>

\* The lock's session breaks, a dispatch fails, or the process is asked to stop.
Cease ==
  /\ up = "on"
  /\ Spend("stops", MaxStops)
  /\ up' = "closing"
  /\ prep' = [j \in Jobs |-> Killed(prep[j])]
  /\ actor' = [j \in Jobs |-> [k \in Kinds |-> Killed(actor[j][k])]]
  /\ UNCHANGED <<database, accounts, slots, last, found, order, news, settling, tallying>>

\* Every request and goroutine has ended.
Close ==
  /\ up = "closing"
  /\ \A c \in Changes : news[c].step = "none"
  /\ \A j \in Jobs : /\ ~Busy(j) /\ settling[j] = 0 /\ tallying[j] = 0
                     /\ \A scope \in Scopes : order[j][scope] = 0
  /\ up' = "off"
  /\ Recover
  /\ slots' = {} /\ last' = "none" /\ found' = {}
  /\ UNCHANGED <<accounts, prep, actor, order, news, settling, tallying, spent>>

Crash ==
  /\ up # "off"
  /\ Spend("stops", MaxStops)
  /\ up' = "off"
  /\ slots' = {} /\ last' = "none" /\ found' = {}
  /\ news' = [c \in Changes |-> NoNews]
  /\ prep' = [j \in Jobs |-> NoPrep]
  /\ actor' = [j \in Jobs |-> [k \in Kinds |-> NoActor]]
  /\ order' = [j \in Jobs |-> [scope \in Scopes |-> 0]]
  /\ settling' = [j \in Jobs |-> 0] /\ tallying' = [j \in Jobs |-> 0]
  /\ UNCHANGED <<database, accounts>>

-----------------------------------------------------------------------------
User(j) ==
  \/ \E kinds \in Starts : Start(j, kinds)
  \/ \E status \in Held \union {"queued"}, scope \in Scopes : Control(j, status, scope)

Dispatch == Query \/ \E j \in Jobs : Claim(j)

Preparation(j) ==
  \/ MarkRunning(j) \/ Get(j) \/ Discover(j) \/ LaunchMedia(j) \/ Exercises(j)
  \/ AddCollector(j) \/ FindHelper(j) \/ LaunchHomework(j) \/ Block(j) \/ EndPrepare(j)

Actor(j, k) ==
  \/ Begin(j, k) \/ RunEnds(j, k) \/ RunRefused(j, k) \/ RunCancelled(j, k)
  \/ Requeue(j, k) \/ Rediscover(j, k) \/ Finish(j, k) \/ Leave(j, k)

Mishap(j) == DiscoverFails(j) \/ Enroll(j) \/ \E k \in Kinds : RunFails(j, k) \/ RunCrashes(j, k)

News(c) ==
  \/ CancelFormal(c) \/ SuspendFormal(c)
  \/ RevokeCollectors(c) \/ QueueCollectors(c) \/ QueueHomework(c) \/ QueueJobs(c)

Process == Boot \/ Cease \/ Close \/ Crash

Change(c) == HelperChanges(c) \/ \E o \in Owners : PrimaryChanges(c, o)

Next ==
  \/ \E j \in Jobs : \/ User(j) \/ Preparation(j) \/ Settle(j) \/ Aggregate(j) \/ Mishap(j)
                     \/ \E scope \in Scopes : Cancel(j, scope)
                     \/ \E k \in Kinds : Actor(j, k)
  \/ \E c \in Changes : News(c) \/ Change(c)
  \/ Dispatch \/ Process

Spec == Init /\ [][Next]_vars

\* Goroutines that can go on do, and the dispatcher keeps ticking.  Nothing is
\* assumed of users, accounts, failures or restarts.
Fairness ==
  /\ \A j \in Jobs :
       /\ WF_vars(Preparation(j)) /\ WF_vars(Settle(j)) /\ WF_vars(Aggregate(j))
       /\ \A scope \in Scopes : WF_vars(Cancel(j, scope))
       /\ \A k \in Kinds : WF_vars(Actor(j, k))
  /\ \A c \in Changes : WF_vars(News(c))
  /\ WF_vars(Dispatch)

FairSpec == Spec /\ Fairness

-----------------------------------------------------------------------------
(* Properties.                                                              *)

\* Type correctness; among others a module is restarted at most once after a
\* crash, and a job takes no status that only modules have.
TypeOK ==
  /\ job \in [Jobs -> JobStatuses]
  /\ mod \in [Jobs -> [Kinds -> [status: ModuleStatuses, gen: Nat, restarts: 0 .. 1]]]
  /\ lacks \in [Jobs -> BOOLEAN]
  /\ primary \in [Owners -> BOOLEAN] /\ helper \in BOOLEAN
  /\ up \in {"off", "on", "closing"}
  /\ slots \subseteq Jobs /\ last \in Owners \union {"none"} /\ found \subseteq Jobs
  /\ prep \in [Jobs -> PrepState]
  /\ actor \in [Jobs -> [Kinds -> ActorState]]
  /\ order \in [Jobs -> [Scopes -> Nat]]
  /\ news \in [Changes ->
               [step: {"none", "cancel", "suspend", "revoke", "collectors", "homework", "jobs"},
                owner: Owners \union {"none"}, stale: BOOLEAN, changed: SUBSET Jobs]]
  /\ settling \in [Jobs -> Nat] /\ tallying \in [Jobs -> Nat]
  /\ spent \in [{"requests", "changes", "crashes", "stops"} -> Nat]

\* What a user paused or stopped stays so until the user says otherwise:
\* no preparation, late worker, account change, crash or restart revives it
\* (README.md:57, docs/admin-collectors.md:31).
UserDecides ==
  [][\A j \in Jobs : \A k \in Kinds :
       mod[j][k].status \in Held /\ mod'[j][k].status # mod[j][k].status
         => \E scope \in Naming(k) : order'[j][scope] > order[j][scope]]_vars

\* The limits on concurrent jobs hold, and no job works without a slot
\* (Engine.GlobalLimit, Engine.UserLimit).
SlotsRespected ==
  /\ Cardinality(slots) <= GlobalLimit
  /\ \A o \in Owners : Cardinality(OwnSlots(o)) <= UserLimit
  /\ \A j \in Jobs : Busy(j) => j \in slots

\* A slot that is not in use is about to be given up by a goroutine that has
\* ended (Engine.settle): no idle job keeps others out.
SlotsReturned == \A j \in slots : Busy(j) \/ settling[j] > 0

\* A worker runs, or its result is about to be recorded.
Working(j, k) == actor[j][k].pc \in {"run", "finish", "requeue"} /\ ~actor[j][k].dead

\* A paused or stopped module has no worker left, except while the request
\* that paused it has yet to cancel it (Engine.Control).
HeldHasNoWorker ==
  \A j \in Jobs : \A k \in Kinds :
    mod[j][k].status \in Held /\ Working(j, k) => Ordered(j, k)

\* A module recorded as running has a worker, or a request or account change
\* about to move it on: otherwise nothing but the user or a restart of the
\* service would ever touch it again (launch, collectorsChanged).
RunningIsAttended ==
  \A j \in Jobs : \A k \in Kinds :
    up = "on" /\ mod[j][k].status = "running" /\ job[j] \in Active =>
      \/ actor[j][k].pc \in {"run", "finish", "requeue"} /\ actor[j][k].gen = mod[j][k].gen
      \/ Ordered(j, k) \/ \E c \in Changes : news[c].step # "none"

\* A worker of the module's generation goes on, or an account change that has
\* cancelled it is about to write what becomes of the module.
Attended(j, k) == Working(j, k) /\ actor[j][k].gen = mod[j][k].gen

Relieved(j, k) ==
  \E c \in Changes :
    \/ news[c].step = "suspend" /\ news[c].owner = OwnerOf[j] /\ k # "collector"
    \/ news[c].step = "collectors" /\ j \in news[c].changed /\ k = "collector"

Deserted(j, k) ==
  up = "on" /\ mod[j][k].status = "running" /\ ~Attended(j, k) /\ ~Relieved(j, k)

\* The three ways in which the code gives up a worker and leaves its module
\* running: a request, committed earlier, cancels the worker of a later one
\* (Engine.Control); the worker crashes in a module that has crashed before
\* (launch); or it ends while its job is queued again (FinishModule).
GivenUp(j, k) ==
  \/ \E scope \in Naming(k) : order'[j][scope] < order[j][scope]
  \/ actor[j][k].pc = "requeue" /\ mod[j][k].restarts = 1
  \/ actor[j][k].pc = "finish" /\ job[j] # "running"

\* No other step of requests, preparations, workers, account changes, shutdowns
\* or restarts leaves a running module without anybody in charge of it.
DesertedOnlyIfGivenUp ==
  [][\A j \in Jobs : \A k \in Kinds :
       ~Deserted(j, k) /\ Deserted(j, k)' => GivenUp(j, k)]_vars

\* README.md:41: a collector "saves the answers, then hands them to the formal
\* account at once": when nothing is going on any more, no homework still waits
\* for answers that a collector has finished gathering.
AnswersAreUsed ==
  \A j \in Jobs :
    (/\ job[j] = "waiting_input"
     /\ ~Busy(j) /\ settling[j] = 0 /\ tallying[j] = 0 /\ \A c \in Changes : news[c].step = "none"
     /\ mod[j]["homework"].status = "waiting_answers")
    => mod[j]["collector"].status # "done"

\* README.md:57: "a worker that exits abnormally only restores its module": the
\* engine never leaves a crashed worker's module recorded as running.
CrashIsRecovered ==
  [][\A j \in Jobs : \A k \in Kinds :
       Requeue(j, k) /\ ~actor[j][k].dead /\ Fenced(j, k) => mod'[j][k].status # "running"]_vars

\* Every module that is queued or running in an active job comes to an end or
\* to a wait that somebody can act on, while the process stays up
\* (Engine.dispatch, launch and the loop of Runner.homework).
ModulesSettle ==
  \A j \in Jobs : \A k \in Kinds :
    job[j] \in Active /\ mod[j][k].status \in {"queued", "running"}
      ~> up # "on" \/ mod[j][k].status \notin {"queued", "running"}
=============================================================================
