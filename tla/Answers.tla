------------------------------ MODULE Answers ------------------------------
(***************************************************************************)
(* A homework module that waits for answers, the collector that produces   *)
(* them, other users who bring answers of their own, and the delivery of   *)
(* answer events.                                                          *)
(*                                                                         *)
(*   learning/collector.go  collect, over capture-answer of workflow/rpc.go *)
(*   workflow/actors.go     deliverAnswers, the end of a collector         *)
(*   workflow/pipeline.go   ObserveBatch while a job is prepared           *)
(*                                                                         *)
(* The collector's own worker process is left out: it is one of module     *)
(* Worker's.  A scene says what each account is shown and what may fail.   *)
(***************************************************************************)
EXTENDS Worker

CONSTANT Scenes

\* What each account is shown, what the platform holds at first, what may fail.
Scene ==
  [asked : SUBSET Questions, legacy : [Questions -> Answers \union {None}],
   platform : [Questions -> Held], unread : SUBSET Questions, shown : [Questions -> Sources], revealed : [Questions -> Sources],
   others : SUBSET [Questions -> Sources], faults : BOOLEAN, hangs : BOOLEAN, pauses : BOOLEAN]

ASSUME ScenesAssumption == Scenes \subseteq Scene

VARIABLES
  scene,      \* the scene that is played
  collector,  \* [status, at]: the module's status, and whether its actor ran and has gone
  capture     \* how far each question is with the collector

vars == <<bankVars, workerVars, scene, collector, capture>>
others == <<scene, collector, capture>>

Init ==
  /\ scene \in Scenes
  /\ BankInit(scene.legacy)
  /\ WorkerInit(scene.platform, scene.asked, scene.unread)
  /\ collector = [status |-> "queued", at |-> "work"]
  /\ capture = [q \in scene.asked |-> "todo"]

TypeOK ==
  /\ BankType /\ WorkerType
  /\ collector \in [status : {"queued", "running", "waiting_account"} \union Ended, at : {"work", "wake", "over"}]
  /\ capture \in [scene.asked -> {"todo", "saved", "captured", "missing"}]

-----------------------------------------------------------------------------
(* The collector.                                                           *)

CollectorBegins ==
  /\ collector.status = "queued"
  /\ collector' = [collector EXCEPT !.status = "running"]
  /\ UNCHANGED <<bankVars, workerVars, scene, capture>>

\* capture-answer: what the account's list shows is saved.
Capture(q) ==
  /\ collector.status = "running" /\ capture[q] = "todo"
  /\ Save(q, scene.shown[q])
  /\ capture' = [capture EXCEPT ![q] = "saved"]
  /\ UNCHANGED <<legacy, told, workerVars, scene, collector>>

\* The answer is ready, or an unanswered question is submitted and its
\* response saved.
Probe(q) ==
  /\ collector.status = "running" /\ capture[q] = "saved"
  /\ IF Ready(q)
       THEN Tell(q) /\ UNCHANGED <<bank, events>>
       ELSE \E source \in {"hidden", scene.revealed[q]} : Save(q, source) /\ UNCHANGED told
  /\ capture' = [capture EXCEPT ![q] = IF Ready(q)' THEN "captured" ELSE "missing"]
  /\ UNCHANGED <<legacy, workerVars, scene, collector>>

\* FinishModule, with the result or with an error.
CollectorEnds ==
  /\ collector.status = "running"
  /\ \/ /\ \A q \in scene.asked : capture[q] \in {"captured", "missing"}
        /\ collector' = [status |-> IF \E q \in scene.asked : capture[q] = "missing" THEN "partial" ELSE "done", at |-> "wake"]
     \/ /\ scene.faults
        /\ \E s \in {"blocked", "waiting_account"} : collector' = [status |-> s, at |-> "wake"]
  /\ UNCHANGED <<bankVars, workerVars, scene, capture>>

\* The actor's last act: answers-complete.
CollectorLeaves ==
  /\ collector.at = "wake"
  /\ collector' = [collector EXCEPT !.at = "over"]
  /\ wakes' = Woken
  /\ UNCHANGED <<bankVars, platform, module, host, ghost, calls, toChild, toHost, child, entry, results, scene, capture>>

-----------------------------------------------------------------------------
(* Other users, and the engine.                                             *)

\* Another user's job of the same classroom is prepared.
Others ==
  /\ \E source \in scene.others : Observe(source) /\ scene' = [scene EXCEPT !.others = @ \ {source}]
  /\ UNCHANGED <<workerVars, collector, capture>>

\* deliverAnswers: wake the worker, then mark the row.
Deliver ==
  /\ events > 0 /\ events' = events - 1
  /\ wakes' = Woken
  /\ UNCHANGED <<bank, legacy, told, platform, module, host, ghost, calls, toChild, toHost, child, entry, results, others>>

\* The user pauses the module, and the engine cancels its actor.
Pause ==
  /\ scene.pauses /\ module \in {"queued", "running"}
  /\ module' = "paused"
  /\ UNCHANGED <<bankVars, platform, host, wakes, ghost, calls, toChild, toHost, child, entry, results, others>>

Cancel ==
  /\ module = "paused" /\ ~host.ctx /\ host.pc # "out"
  /\ host' = [host EXCEPT !.ctx = TRUE, !.cut = TRUE]
  /\ UNCHANGED <<bankVars, platform, module, wakes, ghost, calls, toChild, toHost, child, entry, results, others>>

-----------------------------------------------------------------------------
Launcher ==
  /\ Begin \/ Notify \/ Warn \/ TimesOut \/ Scan \/ Eof \/ Return \/ Judge \/ Rediscover
  /\ UNCHANGED <<bankVars, others>>

Handle == \E h \in calls : Execute(h, collector.status, host.cut \/ scene.faults) /\ UNCHANGED others

Process == Child /\ UNCHANGED <<bankVars, platform, module, host, wakes, ghost, calls, others>>

Fault ==
  \/ scene.faults /\ (Crash \/ CheckFails) /\ UNCHANGED <<bankVars, platform, module, host, wakes, ghost, calls, others>>
  \/ scene.hangs /\ Hang /\ UNCHANGED <<bankVars, platform, module, host, wakes, ghost, calls, others>>
  \/ Vanish /\ UNCHANGED <<bankVars, others>>

Collect == CollectorBegins \/ (\E q \in scene.asked : Capture(q) \/ Probe(q)) \/ CollectorEnds \/ CollectorLeaves

Next == Launcher \/ Handle \/ Process \/ Fault \/ Collect \/ Others \/ Deliver \/ Pause \/ Cancel

\* The host, the calls, the worker, the collector and the delivery go on; a
\* cancellation that was decided is carried out.
Fairness ==
  /\ WF_vars(Launcher) /\ WF_vars(Handle) /\ WF_vars(Process)
  /\ WF_vars(Collect) /\ WF_vars(Deliver) /\ WF_vars(Cancel)

Spec == Init /\ [][Next]_vars /\ Fairness

-----------------------------------------------------------------------------
(* Properties.                                                              *)

\* Nobody is ever told two answers to the same question, whoever saved them
\* in whatever order: two sources that disagree end in a conflict.
OneAnswerTold == \A q \in Questions : Cardinality(told[q]) <= 1

\* A call of a worker acts only during the run of that worker: no submission
\* of an ended run is under way when the module has ended or runs again.
NoStrayCalls == \A h \in calls : h.run = host.attempt /\ Running

\* Homework that is recorded as done was confirmed by the platform, question
\* by question, or had been answered before, whatever the submissions reported.
DoneIsConfirmed == module = "done" => \A q \in Asked : platform[q] \in {"right", "unjudged"}

\* The collector is over, or the module is cancelled.
Due == (collector.at = "over" /\ child.pc # "hung") \/ host.ctx

\* A homework module ends once its collector has, or once it is cancelled:
\* through dropped and stolen wakes, crashes of the worker and a worker that
\* no longer answers.
HomeworkEnds == <>[]Due => <>(host.pc = "out")
=============================================================================
