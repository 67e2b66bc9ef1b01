------------------------------- MODULE Worker -------------------------------
(***************************************************************************)
(* A homework module: the goroutine that runs it, its worker process and   *)
(* the two pipes between them.                                             *)
(*                                                                         *)
(*   workflow/actors.go    launch, wake                                    *)
(*   process/host.go       Run: start, read, notify, cancel, kill, wait    *)
(*   process/worker.go     Worker: first message, reader, calls            *)
(*   learning/homework.go  homework: passes over the questions, final look *)
(*   learning/runner.go    pool                                            *)
(*   workflow/rpc.go       lookup-answer and submit-question               *)
(*                                                                         *)
(* A run has its own pipes, so no message of another generation is in      *)
(* them.  An exercise has one question, and the final look reads all lists *)
(* in one step.  The submission itself is module Submission.               *)
(***************************************************************************)
EXTENDS Bank, Sequences

CONSTANTS
  Concurrency,  \* workers of the pool
  WakeCap       \* capacity of an actor's wake channel, 8 in the code

ASSUME WorkerAssumption == Concurrency \in 1..3 /\ WakeCap \in Nat \ {0}

VARIABLES
  platform,   \* what the platform holds for the account's answers
  module,     \* the module's status in the database
  host,       \* the goroutine that launched it
  wakes,      \* the actor's wake channel
  ghost,      \* the notifier of an ended run is not gone yet
  calls,      \* calls of the worker that the host executes
  toChild, toHost,  \* the pipes
  child,      \* the worker process
  entry,      \* how far each question is in this pass
  results     \* items of the questions

workerVars == <<platform, module, host, wakes, ghost, calls, toChild, toHost, child, entry, results>>
ends == <<host, calls>>

\* A worker process that has just been started; its input is the answers to
\* the questions of the job that were seen when the course was read.
Started(seen) == [pc |-> "boot", token |-> FALSE, waiting |-> FALSE, running |-> FALSE, seen |-> seen]
Asked == DOMAIN child.seen
NoEntry == [q \in Questions |-> "todo"]
NoItem == [q \in Questions |-> None]
Gone == {"clean", "crashed"}
Held == {"open", "right", "wrong", "unjudged", "bad"}
Shown == Held \union {"unread"}
Alive == child.pc \notin Gone
Busy == {q \in Questions : entry[q] \in {"lookup", "submit"}}
Ended == {"done", "partial", "blocked", "stopped"}
Running == host.pc \in {"run", "drain"}

\* The course as it is read: a list that cannot be is an exercise with an error.
Course(asked, answered, unread) == [q \in asked |-> IF q \in unread THEN "unread" ELSE answered[q]]

WorkerInit(answered, asked, unread) ==
  /\ platform = answered
  /\ module = "queued"
  /\ host = [pc |-> "begin", attempt |-> 0, ctx |-> FALSE, cut |-> FALSE, warned |-> FALSE, failure |-> None, result |-> None]
  /\ wakes = 0 /\ ghost = FALSE /\ calls = {} /\ toChild = <<>> /\ toHost = <<>>
  /\ child = [Started(Course(asked, answered, unread)) EXCEPT !.pc = "clean"]
  /\ entry = NoEntry /\ results = NoItem

WorkerType ==
  /\ platform \in [Questions -> Held]
  /\ module \in {"queued", "running", "waiting_answers", "waiting_account", "paused"} \union Ended
  /\ host.pc \in {"begin", "run", "drain", "judge", "requeue", "out"} /\ host.attempt \in {0, 1}
  /\ wakes \in 0..WakeCap /\ ghost \in BOOLEAN
  /\ calls \subseteq [q : Questions, at : {"look", "adopt", "ask", "post"}, ready : BOOLEAN, run : {0, 1}]
  /\ child.pc \in {"boot", "init", "pass", "sleep", "check", "hung"} \union Gone
  /\ entry \in [Questions -> {"todo", "lookup", "submit", "left"}]
  /\ results \in [Questions -> {None, "failed", "skipped", "wrong_existing", "missing", "completed"}]

-----------------------------------------------------------------------------
(* The host.                                                                *)

\* Mutant of Woken: the channel has no limit.
WokenAlways == IF host.pc # "out" THEN wakes + 1 ELSE wakes

\* Engine.wake: dropped when the channel is full or the actor is gone.
Woken == IF host.pc # "out" /\ wakes < WakeCap THEN wakes + 1 ELSE wakes

Begin ==
  /\ host.pc = "begin"
  /\ IF module = "queued" /\ ~host.ctx
       THEN /\ module' = "running"
            /\ host' = [host EXCEPT !.pc = "run", !.cut = FALSE, !.warned = FALSE, !.failure = None, !.result = None]
            /\ child' = Started(child.seen)
            /\ toChild' = <<>> /\ toHost' = <<>> /\ entry' = NoEntry /\ results' = NoItem
       ELSE /\ host' = [host EXCEPT !.pc = "out"]
            /\ UNCHANGED <<module, child, toChild, toHost, entry, results>>
  /\ UNCHANGED <<platform, wakes, ghost, calls>>

\* A message to the worker; a worker that is gone does not get it.
Write(m) == toChild' = IF Alive THEN Append(toChild, m) ELSE toChild

\* A process takes its memory and what it has not read with it.
Dies(how) ==
  /\ child' = [Started(child.seen) EXCEPT !.pc = how]
  /\ toChild' = <<>> /\ entry' = NoEntry /\ results' = NoItem

Kill == IF Alive THEN Dies("crashed") ELSE UNCHANGED <<child, toChild, entry, results>>

\* The notifier's select: a wake, or the end of the context and a timer.
Notify ==
  /\ Running /\ ~host.warned /\ wakes > 0
  /\ wakes' = wakes - 1
  /\ Write([type |-> "wake"])
  /\ UNCHANGED <<platform, module, host, ghost, calls, toHost, child, entry, results>>

Warn ==
  /\ Running /\ host.ctx /\ ~host.warned
  /\ host' = [host EXCEPT !.warned = TRUE]
  /\ Write([type |-> "cancel"])
  /\ UNCHANGED <<platform, module, wakes, ghost, calls, toHost, child, entry, results>>

TimesOut ==
  /\ Running /\ host.warned /\ Alive /\ Kill
  /\ UNCHANGED <<platform, module, host, wakes, ghost, calls, toHost>>

\* The scanner's loop.
Scan ==
  /\ host.pc = "run" /\ toHost # <<>>
  /\ LET m == Head(toHost) IN
     /\ toHost' = Tail(toHost)
     /\ calls' = IF m.type \notin {"look", "post"} THEN calls
                 ELSE calls \union {[q |-> m.q, at |-> m.type, ready |-> FALSE, run |-> host.attempt]}
     /\ CASE m.type = "progress" /\ module # "running" ->
               host' = [host EXCEPT !.failure = "stale", !.cut = TRUE] /\ Kill
          [] m.type = "ready" -> Write([type |-> "init"]) /\ UNCHANGED <<host, child, entry, results>>
          [] OTHER ->
               /\ host' = CASE m.type = "result" -> [host EXCEPT !.result = m.status]
                            [] m.type = "failed" -> [host EXCEPT !.failure = "fault"]
                            [] OTHER -> host
               /\ UNCHANGED <<child, toChild, entry, results>>
  /\ UNCHANGED <<platform, module, wakes, ghost>>

Eof ==
  /\ host.pc = "run" /\ toHost = <<>> /\ ~Alive
  /\ host' = [host EXCEPT !.pc = "drain", !.cut = TRUE]
  /\ UNCHANGED <<platform, module, wakes, ghost, calls, toChild, toHost, child, entry, results>>

\* Mutant of Quiet: the run returns without waiting for its calls.
QuietAtOnce == TRUE

\* wg.Wait.
Quiet == calls = {}

Return ==
  /\ host.pc = "drain" /\ Quiet
  /\ host' = [host EXCEPT !.pc = "judge"]
  /\ ghost' = TRUE
  /\ UNCHANGED <<platform, module, wakes, calls, toChild, toHost, child, entry, results>>

\* The notifier sees that the run is over, or takes one more wake with it.
Vanish ==
  /\ ghost /\ ghost' = FALSE
  /\ wakes' \in {wakes, wakes - 1} \intersect Nat
  /\ UNCHANGED <<platform, module, ends, toChild, toHost, child, entry, results>>

Crashed == host.failure = None /\ (host.result = None \/ child.pc = "crashed")

\* launch: leave, start the worker once more, or record the result.
Judge ==
  /\ host.pc = "judge"
  /\ \/ /\ ~host.ctx /\ Crashed /\ host.attempt = 0 /\ module = "running"
        /\ module' = "queued"
        /\ host' = [host EXCEPT !.pc = "requeue"]
     \/ /\ host.ctx \/ (Crashed /\ host.attempt = 0 /\ module # "running")
        /\ host' = [host EXCEPT !.pc = "out"]
        /\ UNCHANGED module
     \/ /\ ~host.ctx /\ ~(Crashed /\ host.attempt = 0)
        /\ module' \in IF module # "running" THEN {module}
                      ELSE IF host.failure # None THEN {"blocked", "waiting_account"}
                      ELSE IF Crashed THEN {"blocked"} ELSE {host.result}
        /\ host' = [host EXCEPT !.pc = "out"]
  /\ UNCHANGED <<platform, wakes, ghost, calls, toChild, toHost, child, entry, results>>

\* The course is read again, or cannot be.  Nothing is left of the worker.
Rediscover ==
  /\ host.pc = "requeue"
  /\ \/ host' = [host EXCEPT !.pc = "begin", !.attempt = 1] /\ UNCHANGED module
     \/ /\ host' = [host EXCEPT !.pc = "out"]
        /\ module' = IF module = "paused" THEN module ELSE "blocked"
  /\ \E unread \in SUBSET Asked : child' = [Started(Course(Asked, platform, unread)) EXCEPT !.pc = "clean"]
  /\ entry' = NoEntry /\ results' = NoItem
  /\ UNCHANGED <<platform, wakes, ghost, calls, toChild, toHost>>

-----------------------------------------------------------------------------
(* Calls the host executes for its worker.                                  *)

Reply(h, ready, producer, answer) ==
  /\ calls' = calls \ {h}
  /\ Write([type |-> "reply", q |-> h.q, ready |-> ready, producer |-> producer, answer |-> answer])

At(h, at, ready) == calls' = (calls \ {h}) \union {[h EXCEPT !.at = at, !.ready = ready]} /\ UNCHANGED toChild

\* Bank.Lookup.
Look(h) ==
  /\ h.at = "look" /\ Tell(h.q)
  /\ At(h, IF Falls(h.q) THEN "adopt" ELSE "ask", Ready(h.q))
  /\ UNCHANGED <<bank, legacy, events, platform>>

AdoptOld(h) == h.at = "adopt" /\ Adopt(h.q) /\ At(h, "look", FALSE) /\ UNCHANGED platform

\* Repository.Producer: read after the bank, in a statement of its own.
Ask(h, producer) ==
  /\ h.at = "ask" /\ Reply(h, h.ready, producer, None)
  /\ UNCHANGED <<bankVars, platform>>

\* Service.Submit: what the platform did, and what the worker is told.
Verdicts(q) ==
  CASE ~Ready(q) -> {<<platform[q], "error">>}
    [] platform[q] = "open" -> {<<"right", "right">>, <<"wrong", "wrong">>, <<"open", "right">>, <<"right", "error">>,
                             <<"open", "error">>, <<"open", "fatal">>}
    [] OTHER -> {<<platform[q], platform[q]>>}

Submit(h) ==
  /\ h.at = "post" /\ Tell(h.q)
  /\ \E v \in Verdicts(h.q) :
        /\ platform' = [platform EXCEPT ![h.q] = v[1]]
        /\ Reply(h, FALSE, None, v[2])
  /\ UNCHANGED <<bank, legacy, events>>

\* The context of the run has ended, or the database fails.
Fails(h) ==
  /\ Reply(h, FALSE, None, "fatal")
  /\ UNCHANGED <<bankVars, platform>>

Execute(h, producer, fails) ==
  /\ Look(h) \/ AdoptOld(h) \/ Ask(h, producer) \/ Submit(h) \/ (fails /\ Fails(h))
  /\ UNCHANGED <<module, host, wakes, ghost, toHost, child, entry, results>>

-----------------------------------------------------------------------------
(* The worker process.                                                      *)

Say(ms) == toHost' = toHost \o ms
Exit(m) == Say(<<m>>) /\ Dies("clean")
Give(q, item) == results' = [results EXCEPT ![q] = item] /\ Say(<<[type |-> "progress"]>>)

Boot ==
  /\ child.pc = "boot"
  /\ child' = [child EXCEPT !.pc = "init"]
  /\ Say(<<[type |-> "ready"]>>)
  /\ UNCHANGED <<toChild, entry, results>>

\* The first line must be the initialization.
First ==
  /\ child.pc = "init" /\ toChild # <<>>
  /\ IF Head(toChild).type = "init"
       THEN /\ child' = [child EXCEPT !.pc = "pass"]
            /\ toChild' = Tail(toChild)
            /\ UNCHANGED <<entry, results>>
       ELSE Dies("crashed")
  /\ UNCHANGED toHost

\* One question of a pass, as the pool hands it out.
Take(q) ==
  /\ child.pc = "pass" /\ entry[q] = "todo" /\ Cardinality(Busy) < Concurrency
  /\ UNCHANGED <<toChild, child>>
  /\ \/ /\ results[q] # None
        /\ entry' = [entry EXCEPT ![q] = "left"] /\ UNCHANGED <<toHost, results>>
     \/ /\ results[q] = None /\ child.seen[q] # "open"
        /\ entry' = [entry EXCEPT ![q] = "left"]
        /\ Give(q, CASE child.seen[q] \in {"bad", "unread"} -> "failed" [] child.seen[q] = "wrong" -> "wrong_existing" [] OTHER -> "skipped")
     \/ /\ results[q] = None /\ child.seen[q] = "open"
        /\ entry' = [entry EXCEPT ![q] = "lookup"]
        /\ Say(<<[type |-> "look", q |-> q]>>) /\ UNCHANGED results

\* Not ready: the producer says whether it is worth waiting.
Without(q, producer) ==
  /\ entry' = [entry EXCEPT ![q] = "left"]
  /\ IF producer \in Ended
       THEN Give(q, "missing") /\ UNCHANGED child
       ELSE /\ child' = [child EXCEPT !.waiting = TRUE, !.running = @ \/ producer \in {"running", "queued"}]
            /\ UNCHANGED <<toHost, results>>

Answered(q, answer) ==
  /\ entry' = [entry EXCEPT ![q] = "left"]
  /\ Give(q, IF answer = "right" THEN "completed" ELSE "failed")
  /\ UNCHANGED child

\* The reader of stdin, and the goroutine whose answer it brings.
Hear ==
  /\ child.pc \in {"pass", "sleep", "check"} /\ toChild # <<>>
  /\ LET m == Head(toChild) IN
     \/ /\ m.type = "cancel" \/ (m.type = "reply" /\ m.answer = "fatal")
        /\ Exit([type |-> "failed"])
     \/ /\ m.type = "wake"
        /\ child' = [child EXCEPT !.token = TRUE] /\ toChild' = Tail(toChild)
        /\ UNCHANGED <<toHost, entry, results>>
     \/ /\ m.type = "reply" /\ m.answer # "fatal" /\ toChild' = Tail(toChild)
        /\ \/ entry[m.q] = "lookup" /\ ~m.ready /\ Without(m.q, m.producer)
           \/ /\ entry[m.q] = "lookup" /\ m.ready
              /\ entry' = [entry EXCEPT ![m.q] = "submit"]
              /\ Say(<<[type |-> "post", q |-> m.q]>>) /\ UNCHANGED <<child, results>>
           \/ entry[m.q] = "submit" /\ Answered(m.q, m.answer)

\* The end of a pass: look a last time, give up, or sleep.
PassEnds ==
  /\ child.pc = "pass" /\ \A q \in Asked : entry[q] = "left"
  /\ IF child.waiting /\ ~child.running
       THEN Exit([type |-> "result", status |-> "waiting_answers"])
       ELSE /\ child' = [child EXCEPT !.pc = IF child.waiting THEN "sleep" ELSE "check"]
            /\ UNCHANGED <<toChild, toHost, entry, results>>

\* Mutant of Rise: only a wake ends the sleep.
RiseOnWake ==
  /\ child.pc = "sleep" /\ child.token
  /\ child' = [child EXCEPT !.pc = "pass", !.waiting = FALSE, !.running = FALSE, !.token = FALSE]
  /\ entry' = NoEntry
  /\ UNCHANGED <<toChild, toHost, results>>

\* A wake, or one second.
Rise ==
  /\ child.pc = "sleep"
  /\ child' \in {[child EXCEPT !.pc = "pass", !.waiting = FALSE, !.running = FALSE, !.token = t] : t \in {FALSE, child.token}}
  /\ entry' = NoEntry
  /\ UNCHANGED <<toChild, toHost, results>>

\* Mutant of Confirmed: what a submission reported is believed.
ConfirmedByReply(q) == IF results[q] = "failed" /\ platform[q] = "right" THEN "completed" ELSE results[q]

\* The final look at the exercise lists, but for those that could not be read.
Confirmed(q) ==
  CASE child.seen[q] = "unread" -> "failed"
    [] child.seen[q] # "unread" /\ results[q] \notin {"completed", "failed"} -> results[q]
    [] OTHER -> IF platform[q] = "right" THEN "completed" ELSE "failed"

Poor == {"failed", "missing", "wrong_existing"}

Check ==
  /\ child.pc = "check"
  /\ Exit([type |-> "result", status |-> IF \E q \in Asked : Confirmed(q) \in Poor THEN "partial" ELSE "done"])

\* A list cannot be read.
CheckFails == child.pc = "check" /\ Exit([type |-> "failed"])

Crash == Alive /\ Dies("crashed") /\ UNCHANGED toHost

Hang ==
  /\ Alive /\ child.pc # "hung"
  /\ child' = [child EXCEPT !.pc = "hung"]
  /\ UNCHANGED <<toChild, toHost, entry, results>>

Child == Boot \/ First \/ (\E q \in Asked : Take(q)) \/ Hear \/ PassEnds \/ Rise \/ Check
=============================================================================
