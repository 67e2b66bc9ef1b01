---------------------------- MODULE AnswersProofs ----------------------------
(***************************************************************************)
(* Proofs about answers: for any questions, answers and scenes, nobody is  *)
(* told two answers to a question, no call outlives its worker's run, and  *)
(* homework that is done was confirmed by the platform.                    *)
(***************************************************************************)
EXTENDS Answers, FiniteSetTheorems, SequenceTheorems, TLAPS

-----------------------------------------------------------------------------
(* The inductive invariant.                                                 *)

Outcomes == {"waiting_answers", "partial", "done"}

Host ==
  [pc : {"begin", "run", "drain", "judge", "requeue", "out"}, attempt : {0, 1}, ctx : BOOLEAN, cut : BOOLEAN,
   warned : BOOLEAN, failure : {None, "stale", "fault"}, result : Outcomes \union {None}]

Pcs == {"boot", "init", "pass", "sleep", "check", "hung"} \union Gone

ProcessState ==
  [pc : Pcs, token : BOOLEAN, waiting : BOOLEAN, running : BOOLEAN, seen : [scene.asked -> Shown]]

Producers == {"queued", "running", "waiting_account"} \union Ended

\* What the worker says, and what it is told.
Said ==
  [type : {"ready", "progress", "failed"}] \union [type : {"look", "post"}, q : Questions]
    \union [type : {"result"}, status : Outcomes]

Heard ==
  [type : {"wake", "cancel", "init"}]
    \union [type : {"reply"}, q : Questions, ready : BOOLEAN, producer : Producers \union {None},
            answer : {None, "error", "fatal"} \union Held]

Calls == [q : Questions, at : {"look", "adopt", "ask", "post"}, ready : BOOLEAN, run : {0, 1}]

BankRow == [status : Statuses, answer : Answers \union {None}]

\* Who was told an answer was told the one that the bank holds for good.
Final(row) == row.status \in {"captured", "conflict"} /\ row.answer \in Answers

ToldInv ==
  /\ \A q \in Questions : bank[q].status \in {"captured", "conflict"} => bank[q].answer \in Answers
  /\ \A q \in Questions : \A x \in told[q] : Final(bank[q]) /\ bank[q].answer = x

BankOK == BankType /\ ToldInv

SceneOK ==
  /\ scene \in Scene
  /\ collector \in [status : Producers, at : {"work", "wake", "over"}]
  /\ capture \in [scene.asked -> {"todo", "saved", "captured", "missing"}]

Modules == {"queued", "running", "waiting_answers", "waiting_account", "paused"} \union Ended

EngineOK ==
  /\ platform \in [Questions -> Held] /\ module \in Modules /\ host \in Host
  /\ wakes \in 0 .. WakeCap /\ ghost \in BOOLEAN

CallsOK == calls \subseteq Calls /\ NoStrayCalls

PipesOK == toHost \in Seq(Said) /\ toChild \in Seq(Heard)

Entries == {"todo", "lookup", "submit", "left"}
Items == {None, "failed", "skipped", "wrong_existing", "missing", "completed"}

ChildOK == child \in ProcessState /\ entry \in [Questions -> Entries] /\ results \in [Questions -> Items]

Good == {"right", "unjudged"}
AllGood == \A q \in Asked : platform[q] \in Good

\* What the worker has seen is so still: the platform takes one answer only.
SeenInv == \A q \in Asked : child.seen[q] \notin {"open", "unread"} => platform[q] = child.seen[q]

\* What the worker passes over is good; what it is through with has an item,
\* unless it waits.
ItemInv ==
  /\ \A q \in Asked : results[q] = "skipped" => child.seen[q] \in Good
  /\ child.pc = "check" => \A q \in Asked : results[q] # None
  /\ child.pc \in {"boot", "init", "pass"} /\ ~child.waiting =>
       \A q \in Asked : entry[q] = "left" => results[q] # None

\* "Done" is in the pipe, with the host or recorded.
IsDone(m) == m.type = "result" /\ m.status = "done"
HasDone(s) == \E i \in DOMAIN s : IsDone(s[i])
Says == module = "done" \/ host.result = "done" \/ HasDone(toHost)

SayInv == Says => AllGood

AnswersInv ==
  /\ BankOK /\ SceneOK /\ EngineOK /\ CallsOK /\ PipesOK /\ ChildOK
  /\ SeenInv /\ ItemInv /\ SayInv

-----------------------------------------------------------------------------
(* The bank.                                                                *)

LEMMA BankConstants ==
  /\ IsFiniteSet(Questions)
  /\ "none" \notin Answers /\ "reference" \notin Answers /\ "hidden" \notin Answers
BY BankAssumption

\* A save keeps a final row's answer, and makes a row final only with one.
LEMMA SavedProperties ==
  ASSUME NEW row \in BankRow, NEW source \in Sources \union {None},
         row.status \in {"captured", "conflict"} => row.answer \in Answers
  PROVE  /\ Saved(row, source) \in BankRow
         /\ Saved(row, source).status \in {"captured", "conflict"} => Saved(row, source).answer \in Answers
         /\ Final(row) => Final(Saved(row, source)) /\ Saved(row, source).answer = row.answer
         /\ Announced(row, source) \in BOOLEAN
<1>1. ASSUME NEW a \in Answers
      PROVE  /\ Merged(row, a) \in BankRow
             /\ Merged(row, a).status \in {"captured", "conflict"} => Merged(row, a).answer \in Answers
             /\ Final(row) => Final(Merged(row, a)) /\ Merged(row, a).answer = row.answer
  <2>1. CASE row.status = "conflict" \/ (row.status = "captured" /\ row.answer # a)
    <3>1. Merged(row, a) = [row EXCEPT !.status = "conflict"]
      BY <2>1 DEF Merged
    <3>2. QED BY <2>1, <3>1 DEF BankRow, Statuses, Final
  <2>2. CASE ~(row.status = "conflict" \/ (row.status = "captured" /\ row.answer # a))
    <3>1. Merged(row, a) = [status |-> "captured", answer |-> a]
      BY <2>2 DEF Merged, Row
    <3>2. QED BY <2>2, <3>1 DEF BankRow, Statuses, Final
  <2>3. QED BY <2>1, <2>2
<1>2. CASE source \in Answers
  <2>1. Saved(row, source) = Merged(row, source)
    BY <1>2, BankConstants DEF Saved
  <2>2. QED BY <1>1, <1>2, <2>1 DEF Announced
<1>3. CASE source \notin Answers
  <2>1. \/ Saved(row, source) = row
        \/ row.status = "missing" /\ Saved(row, source) = [row EXCEPT !.status = "reference"]
    BY <1>3 DEF Saved
  <2>2. QED BY <1>3, <2>1 DEF BankRow, Statuses, Final, Announced
<1>4. QED BY <1>2, <1>3

\* Rows are saved: what was told stays what the bank holds.
LEMMA RowsSaved ==
  ASSUME BankOK, NEW source \in [Questions -> Sources \union {None}],
         bank' \in [Questions -> BankRow], UNCHANGED told,
         \A q \in Questions : bank'[q] = bank[q] \/ bank'[q] = Saved(bank[q], source[q])
  PROVE  ToldInv'
<1>1. ASSUME NEW q \in Questions
      PROVE  /\ bank'[q].status \in {"captured", "conflict"} => bank'[q].answer \in Answers
             /\ Final(bank[q]) => Final(bank'[q]) /\ bank'[q].answer = bank[q].answer
  <2>1. /\ bank[q] \in BankRow /\ source[q] \in Sources \union {None}
        /\ bank[q].status \in {"captured", "conflict"} => bank[q].answer \in Answers
    BY DEF BankOK, BankType, ToldInv, BankRow
  <2>2. QED BY <2>1, SavedProperties
<1>2. QED BY <1>1 DEF BankOK, ToldInv, Final

LEMMA SaveStep ==
  ASSUME BankOK, NEW q \in Questions, NEW source \in Sources \union {None}, Save(q, source),
         UNCHANGED <<legacy, told>>
  PROVE  BankOK'
<1>1. /\ bank \in [Questions -> BankRow] /\ bank[q] \in BankRow /\ events \in Nat
      /\ bank[q].status \in {"captured", "conflict"} => bank[q].answer \in Answers
  BY DEF BankOK, BankType, ToldInv, BankRow
<1>2. Saved(bank[q], source) \in BankRow
  BY <1>1, SavedProperties
<1>3. bank' = [bank EXCEPT ![q] = Saved(bank[q], source)]
  BY DEF Save
<1>4. bank' \in [Questions -> BankRow] /\ \A z \in Questions : bank'[z] = bank[z] \/ bank'[z] = Saved(bank[z], source)
  BY <1>1, <1>2, <1>3
<1>5. ToldInv'
  <2> DEFINE f == [z \in Questions |-> source]
  <2>1. f \in [Questions -> Sources \union {None}] /\ \A z \in Questions : f[z] = source
    OBVIOUS
  <2> HIDE DEF f
  <2>2. QED BY <1>4, <2>1, RowsSaved
<1>6. events' \in Nat
  BY <1>1 DEF Save
<1>7. QED BY <1>4, <1>5, <1>6 DEF BankOK, BankType, BankRow

LEMMA ObserveStep ==
  ASSUME BankOK, NEW source \in [Questions -> Sources], Observe(source)
  PROVE  BankOK'
<1>1. bank \in [Questions -> BankRow] /\ events \in Nat /\ source \in [Questions -> Sources \union {None}]
  BY DEF BankOK, BankType, BankRow
<1>2. ASSUME NEW q \in Questions
      PROVE  bank'[q] = Saved(bank[q], source[q]) /\ bank'[q] \in BankRow
  <2>1. /\ bank[q] \in BankRow /\ source[q] \in Sources \union {None}
        /\ bank[q].status \in {"captured", "conflict"} => bank[q].answer \in Answers
    BY <1>1 DEF BankOK, ToldInv
  <2>2. Saved(bank[q], source[q]) \in BankRow
    BY <2>1, SavedProperties
  <2>3. QED BY <2>2 DEF Observe
<1>3. bank' \in [Questions -> BankRow]
  <2>1. bank' = [q \in Questions |-> bank'[q]]
    BY DEF Observe
  <2>2. QED BY <1>2, <2>1
<1>4. events' \in Nat
  <2> DEFINE A == {q \in Questions : Announced(bank[q], source[q])}
  <2>1. IsFiniteSet(A)
    BY BankConstants, FS_Subset
  <2>2. Cardinality(A) \in Nat
    BY <2>1, FS_CardinalityType
  <2>3. events' = events + Cardinality(A)
    BY DEF Observe
  <2> HIDE DEF A
  <2>4. QED BY <1>1, <2>2, <2>3
<1>5. ToldInv'
  BY <1>1, <1>2, <1>3, RowsSaved DEF Observe
<1>6. QED BY <1>3, <1>4, <1>5 DEF Observe, BankOK, BankType, BankRow

LEMMA TellStep ==
  ASSUME BankOK, NEW q \in Questions, Tell(q), UNCHANGED <<bank, legacy, events>>
  PROVE  BankOK'
<1>1. told \in [Questions -> SUBSET Answers]
  BY DEF BankOK, BankType
<1> DEFINE new == told[q] \union IF Ready(q) THEN {bank[q].answer} ELSE {}
<1>2. told' = [told EXCEPT ![q] = new]
  BY DEF Tell
<1>3. Ready(q) => Final(bank[q]) /\ bank[q].answer \in Answers
  BY DEF BankOK, ToldInv, Ready, Final
<1>4. new \in SUBSET Answers /\ \A x \in new : Final(bank[q]) /\ bank[q].answer = x
  BY <1>1, <1>3 DEF BankOK, ToldInv
<1> HIDE DEF new
<1>5. told' \in [Questions -> SUBSET Answers] /\ told'[q] = new /\ \A z \in Questions \ {q} : told'[z] = told[z]
  BY <1>1, <1>2, <1>4
<1>6. QED BY <1>4, <1>5 DEF BankOK, BankType, ToldInv

LEMMA BankSame ==
  ASSUME BankOK, UNCHANGED bankVars
  PROVE  BankOK'
BY DEF bankVars, BankOK, BankType, ToldInv

-----------------------------------------------------------------------------
(* The pipes, and the parts of a worker.                                    *)

LEMMA HeadTail ==
  ASSUME NEW S, NEW s \in Seq(S), s # <<>>
  PROVE  /\ Head(s) \in S /\ Tail(s) \in Seq(S) /\ 1 \in DOMAIN s /\ Head(s) = s[1]
         /\ \A i \in DOMAIN Tail(s) : i + 1 \in DOMAIN s /\ Tail(s)[i] = s[i + 1]
<1>1. Len(s) \in Nat /\ DOMAIN s = 1 .. Len(s) /\ Len(s) # 0
  BY LenProperties, EmptySeq
<1>2. /\ Head(s) \in S /\ Tail(s) \in Seq(S) /\ Len(Tail(s)) = Len(s) - 1 /\ Head(s) = s[1]
      /\ \A i \in 1 .. Len(Tail(s)) : Tail(s)[i] = s[i + 1]
  BY HeadTailProperties
<1>3. DOMAIN Tail(s) = 1 .. Len(s) - 1
  BY <1>2, LenProperties
<1>4. QED BY <1>1, <1>2, <1>3

LEMMA OneMoreElement ==
  ASSUME NEW S, NEW s \in Seq(S), NEW m \in S
  PROVE  /\ s \o <<m>> \in Seq(S) /\ Append(s, m) \in Seq(S)
         /\ \A i \in DOMAIN (s \o <<m>>) : (i \in DOMAIN s /\ (s \o <<m>>)[i] = s[i]) \/ (s \o <<m>>)[i] = m
<1>1. <<m>> \in Seq(S) /\ Len(<<m>>) = 1 /\ <<m>>[1] = m
  OBVIOUS
<1>2. /\ s \o <<m>> \in Seq(S) /\ Len(s \o <<m>>) = Len(s) + 1
      /\ \A i \in 1 .. Len(s) + 1 : (s \o <<m>>)[i] = IF i <= Len(s) THEN s[i] ELSE <<m>>[i - Len(s)]
  BY <1>1, ConcatProperties
<1>3. Len(s) \in Nat /\ DOMAIN s = 1 .. Len(s) /\ DOMAIN (s \o <<m>>) = 1 .. Len(s) + 1
  BY <1>2, LenProperties
<1>4. Append(s, m) \in Seq(S)
  BY AppendProperties
<1>5. ASSUME NEW i \in 1 .. Len(s) + 1
      PROVE  (i \in DOMAIN s /\ (s \o <<m>>)[i] = s[i]) \/ (s \o <<m>>)[i] = m
  <2>1. CASE i <= Len(s)
    BY <1>2, <1>3, <2>1
  <2>2. CASE ~(i <= Len(s))
    <3>1. i - Len(s) = 1
      BY <1>3, <2>2
    <3>2. QED BY <1>1, <1>2, <2>2, <3>1
  <2>3. QED BY <2>1, <2>2
<1>6. QED BY <1>2, <1>3, <1>4, <1>5

\* "Done" leaves the pipe, or comes into it, as a message.
LEMMA DoneInPipe ==
  ASSUME NEW s \in Seq(Said)
  PROVE  /\ s # <<>> => (HasDone(Tail(s)) => HasDone(s)) /\ (IsDone(Head(s)) => HasDone(s))
         /\ \A m \in Said : HasDone(s \o <<m>>) => HasDone(s) \/ IsDone(m)
         /\ ~HasDone(<<>>)
<1>1. s # <<>> => (HasDone(Tail(s)) => HasDone(s)) /\ (IsDone(Head(s)) => HasDone(s))
  BY HeadTail DEF HasDone
<1>2. \A m \in Said : HasDone(s \o <<m>>) => HasDone(s) \/ IsDone(m)
  BY OneMoreElement DEF HasDone
<1>3. ~HasDone(<<>>)
  BY DEF HasDone
<1>4. QED BY <1>1, <1>2, <1>3

LEMMA HeardMessages ==
  /\ \A t \in {"wake", "cancel", "init"} : [type |-> t] \in Heard
  /\ \A q \in Questions, ready \in BOOLEAN, producer \in Producers \union {None},
        answer \in {None, "error", "fatal"} \union Held :
       [type |-> "reply", q |-> q, ready |-> ready, producer |-> producer, answer |-> answer] \in Heard
  /\ \A m \in Heard : m.type = "reply" =>
       /\ m.q \in Questions /\ m.ready \in BOOLEAN /\ m.producer \in Producers \union {None}
       /\ m.answer \in {None, "error", "fatal"} \union Held
BY DEF Heard

LEMMA SaidMessages ==
  /\ \A t \in {"ready", "progress", "failed"} : [type |-> t] \in Said /\ ~IsDone([type |-> t])
  /\ \A t \in {"look", "post"}, q \in Questions : [type |-> t, q |-> q] \in Said /\ ~IsDone([type |-> t, q |-> q])
  /\ \A o \in Outcomes : /\ [type |-> "result", status |-> o] \in Said
                         /\ IsDone([type |-> "result", status |-> o]) <=> o = "done"
  /\ \A m \in Said : /\ m.type \in {"look", "post"} => m.q \in Questions
                     /\ m.type = "result" => m.status \in Outcomes
BY DEF Said, IsDone

\* A message comes to the worker, if it is there.
LEMMA WriteStep ==
  ASSUME PipesOK, NEW m \in Heard, Write(m)
  PROVE  toChild' \in Seq(Heard)
BY OneMoreElement DEF PipesOK, Write

LEMMA SceneFields ==
  ASSUME SceneOK
  PROVE  /\ scene.asked \subseteq Questions /\ scene.legacy \in [Questions -> Answers \union {None}]
         /\ scene.platform \in [Questions -> Held] /\ scene.shown \in [Questions -> Sources]
         /\ scene.revealed \in [Questions -> Sources] /\ scene.others \subseteq [Questions -> Sources]
         /\ collector.status \in Producers
BY DEF SceneOK, Scene

LEMMA ChildFields ==
  ASSUME ChildOK
  PROVE  /\ child.pc \in Pcs /\ child.waiting \in BOOLEAN /\ child.running \in BOOLEAN
         /\ child.token \in BOOLEAN /\ child.seen \in [scene.asked -> Shown] /\ Asked = scene.asked
BY DEF ChildOK, ProcessState, Asked

LEMMA StartedFields ==
  ASSUME NEW seen \in [scene.asked -> Shown], NEW pc \in Pcs
  PROVE  /\ [Started(seen) EXCEPT !.pc = pc] \in ProcessState
         /\ [Started(seen) EXCEPT !.pc = pc].pc = pc /\ [Started(seen) EXCEPT !.pc = pc].seen = seen
         /\ Started(seen) \in ProcessState /\ Started(seen).pc = "boot" /\ Started(seen).seen = seen
<1>1. "boot" \in Pcs
  BY DEF Pcs
<1>2. QED BY <1>1 DEF Started, ProcessState

\* A worker that has nothing yet.
LEMMA Nothing ==
  NoEntry \in [Questions -> Entries] /\ NoItem \in [Questions -> Items]
BY DEF NoEntry, NoItem, Entries, Items

\* A process that dies, or is killed, leaves what the course was read to be.
LEMMA DiesStep ==
  ASSUME SceneOK, ChildOK, PipesOK, UNCHANGED scene, NEW how \in Gone, Dies(how)
  PROVE  ChildOK' /\ ItemInv' /\ toChild' \in Seq(Heard) /\ child'.seen = child.seen
<1>1. child.seen \in [scene.asked -> Shown] /\ how \in Pcs /\ how \notin {"boot", "init", "pass", "check"}
  BY ChildFields DEF Pcs, Gone
<1>2. /\ child' = [Started(child.seen) EXCEPT !.pc = how] /\ toChild' = <<>>
      /\ entry' = NoEntry /\ results' = NoItem
  BY DEF Dies
<1>3. child' \in ProcessState /\ child'.pc = how /\ child'.seen = child.seen
  BY <1>1, <1>2, StartedFields
<1>4. ChildOK'
  BY <1>2, <1>3, Nothing DEF ChildOK, ProcessState
<1>5. ItemInv'
  <2>1. \A q \in Asked' : results'[q] = None
    BY <1>1, <1>2, <1>3, SceneFields DEF NoItem, Asked
  <2>2. QED BY <1>1, <1>3, <2>1 DEF ItemInv, None
<1>6. QED BY <1>2, <1>3, <1>4, <1>5

LEMMA KillStep ==
  ASSUME SceneOK, ChildOK, PipesOK, ItemInv, UNCHANGED scene, Kill
  PROVE  ChildOK' /\ ItemInv' /\ toChild' \in Seq(Heard) /\ child'.seen = child.seen
<1>1. CASE Dies("crashed")
  BY <1>1, DiesStep DEF Gone
<1>2. CASE UNCHANGED <<child, toChild, entry, results>>
  BY <1>2 DEF ChildOK, ProcessState, ItemInv, Asked, PipesOK
<1>3. QED BY <1>1, <1>2 DEF Kill

-----------------------------------------------------------------------------
(* What the host does.                                                      *)

LEMMA HostFields ==
  ASSUME EngineOK
  PROVE  /\ host \in Host /\ host.attempt \in {0, 1} /\ host.ctx \in BOOLEAN
         /\ host.pc \in {"begin", "run", "drain", "judge", "requeue", "out"}
         /\ host.result \in Outcomes \union {None} /\ host.failure \in {None, "stale", "fault"}
BY DEF EngineOK, Host

\* The bank, the scene and the platform stay, and so does what was seen.
LEMMA PartsKeep ==
  ASSUME AnswersInv, UNCHANGED <<bankVars, scene, collector, capture, platform>>,
         EngineOK', CallsOK', PipesOK', ChildOK', child'.seen = child.seen, ItemInv',
         Says' => Says \/ AllGood
  PROVE  AnswersInv'
<1>1. BankOK'
  BY BankSame DEF AnswersInv
<1>2. SceneOK'
  BY DEF AnswersInv, SceneOK
<1>3. Asked' = Asked /\ platform' = platform
  BY DEF Asked
<1>4. SeenInv' /\ (AllGood => AllGood')
  BY <1>3 DEF AnswersInv, SeenInv, AllGood
<1>5. SayInv'
  BY <1>4 DEF AnswersInv, SayInv
<1> HIDE DEF BankOK, SceneOK, EngineOK, CallsOK, PipesOK, ChildOK, SeenInv, ItemInv, SayInv
<1>6. QED BY <1>1, <1>2, <1>4, <1>5 DEF AnswersInv

\* Only the worker's state stays: nothing is in the way of its parts.
LEMMA WorkerSame ==
  ASSUME AnswersInv, UNCHANGED <<scene, child, entry, results>>
  PROVE  ChildOK' /\ ItemInv' /\ child'.seen = child.seen
BY DEF AnswersInv, ChildOK, ProcessState, ItemInv, Asked

LEMMA BeginKeeps ==
  ASSUME AnswersInv, Begin, UNCHANGED <<bankVars, others>>
  PROVE  AnswersInv'
<1>1. /\ host.pc = "begin" /\ EngineOK /\ CallsOK /\ PipesOK /\ ChildOK /\ SceneOK
      /\ UNCHANGED <<bankVars, scene, collector, capture, platform, wakes, ghost, calls>>
  BY DEF AnswersInv, Begin, others
<1>2. calls = {} /\ CallsOK'
  BY <1>1 DEF CallsOK, NoStrayCalls, Running
<1>3. CASE module = "queued" /\ ~host.ctx
  <2>1. /\ module' = "running" /\ child' = Started(child.seen) /\ toChild' = <<>> /\ toHost' = <<>>
        /\ entry' = NoEntry /\ results' = NoItem
        /\ host' = [host EXCEPT !.pc = "run", !.cut = FALSE, !.warned = FALSE, !.failure = None, !.result = None]
    BY <1>3 DEF Begin
  <2>2. host' \in Host /\ host'.result = None
    BY <1>1, <2>1, HostFields DEF Host
  <2>3. EngineOK'
    BY <1>1, <2>1, <2>2 DEF EngineOK, Modules
  <2>4. child.seen \in [scene.asked -> Shown] /\ "boot" \in Pcs
    BY <1>1, ChildFields DEF Pcs
  <2>5. child' \in ProcessState /\ child'.seen = child.seen /\ child'.pc = "boot"
    BY <2>1, <2>4, StartedFields
  <2>6. ChildOK' /\ PipesOK'
    BY <1>1, <2>1, <2>5, Nothing DEF ChildOK, ProcessState, PipesOK
  <2>7. ItemInv'
    <3>1. \A q \in Asked' : results'[q] = None /\ entry'[q] = "todo"
      BY <1>1, <2>1, <2>4, <2>5, SceneFields DEF NoItem, NoEntry, Asked
    <3>2. QED BY <2>5, <3>1 DEF ItemInv, None
  <2>8. ~Says'
    BY <2>1, <2>2, DoneInPipe, <1>1 DEF Says, None, PipesOK, HasDone
  <2>9. QED BY <1>1, <1>2, <2>3, <2>5, <2>6, <2>7, <2>8, PartsKeep
<1>4. CASE ~(module = "queued" /\ ~host.ctx)
  <2>1. host' = [host EXCEPT !.pc = "out"] /\ UNCHANGED <<module, child, toChild, toHost, entry, results>>
    BY <1>4 DEF Begin
  <2>2. host' \in Host /\ host'.result = host.result
    BY <1>1, <2>1, HostFields DEF Host
  <2>3. EngineOK' /\ PipesOK'
    BY <1>1, <2>1, <2>2 DEF EngineOK, PipesOK
  <2>4. ChildOK' /\ ItemInv' /\ child'.seen = child.seen
    BY <1>1, <2>1, WorkerSame
  <2>5. Says' => Says
    BY <2>1, <2>2 DEF Says
  <2>6. QED BY <1>1, <1>2, <2>3, <2>4, <2>5, PartsKeep
<1>5. QED BY <1>3, <1>4

\* Calls go on, while their run does.
LEMMA CallsGoOn ==
  ASSUME CallsOK, UNCHANGED calls, host'.attempt = host.attempt, host'.pc = host.pc
  PROVE  CallsOK'
BY DEF CallsOK, NoStrayCalls, Running

LEMMA NotifyKeeps ==
  ASSUME AnswersInv, Notify \/ Warn \/ TimesOut, UNCHANGED <<bankVars, others>>
  PROVE  AnswersInv'
<1>1. /\ EngineOK /\ CallsOK /\ PipesOK /\ ChildOK /\ SceneOK /\ ItemInv
      /\ UNCHANGED <<bankVars, scene, collector, capture, platform, module, ghost, calls, toHost>>
  BY DEF AnswersInv, Notify, Warn, TimesOut, others
<1>2. wakes \in Nat /\ wakes \in 0 .. WakeCap /\ host \in Host
  BY <1>1 DEF EngineOK
<1>3. host' \in Host /\ host'.result = host.result /\ host'.attempt = host.attempt /\ host'.pc = host.pc
  BY <1>2 DEF Notify, Warn, TimesOut, Host
<1>4. wakes' \in 0 .. WakeCap
  <2>1. CASE Notify
    <3>1. wakes > 0 /\ wakes' = wakes - 1
      BY <2>1 DEF Notify
    <3>2. QED BY <1>2, <3>1, WorkerAssumption
  <2>2. CASE Warn \/ TimesOut
    BY <1>2, <2>2 DEF Warn, TimesOut
  <2>3. QED BY <2>1, <2>2
<1>5. EngineOK' /\ CallsOK'
  BY <1>1, <1>3, <1>4, CallsGoOn DEF EngineOK
<1>6. ChildOK' /\ ItemInv' /\ child'.seen = child.seen /\ toChild' \in Seq(Heard)
  <2>1. CASE Notify \/ Warn
    <3>1. toChild' \in Seq(Heard)
      BY <1>1, <2>1, WriteStep, HeardMessages DEF Notify, Warn
    <3>2. UNCHANGED <<scene, child, entry, results>>
      BY <1>1, <2>1 DEF Notify, Warn
    <3>3. QED BY <3>1, <3>2, WorkerSame
  <2>2. CASE TimesOut
    BY <1>1, <2>2, KillStep DEF TimesOut
  <2>3. QED BY <2>1, <2>2
<1>7. PipesOK'
  BY <1>1, <1>6 DEF PipesOK
<1>8. Says' => Says
  BY <1>1, <1>3 DEF Says
<1>9. QED BY <1>1, <1>5, <1>6, <1>7, <1>8, PartsKeep

LEMMA ScanKeeps ==
  ASSUME AnswersInv, Scan, UNCHANGED <<bankVars, others>>
  PROVE  AnswersInv'
<1> DEFINE m == Head(toHost)
<1>1. /\ EngineOK /\ CallsOK /\ PipesOK /\ ChildOK /\ SceneOK /\ ItemInv /\ host.pc = "run" /\ toHost # <<>>
      /\ UNCHANGED <<bankVars, scene, collector, capture, platform, module, wakes, ghost>>
      /\ toHost' = Tail(toHost)
  BY DEF AnswersInv, Scan, others
<1>2. /\ m \in Said /\ toHost' \in Seq(Said) /\ (HasDone(toHost') => HasDone(toHost))
      /\ IsDone(m) => HasDone(toHost)
      /\ m.type \in {"look", "post"} => m.q \in Questions
      /\ m.type = "result" => m.status \in Outcomes
  BY <1>1, HeadTail, DoneInPipe, SaidMessages DEF PipesOK
<1>3. host \in Host /\ host.attempt \in {0, 1}
  BY <1>1, HostFields
<1>4. calls' = IF m.type \notin {"look", "post"} THEN calls
               ELSE calls \union {[q |-> m.q, at |-> m.type, ready |-> FALSE, run |-> host.attempt]}
  BY DEF Scan
<1>5. \/ /\ m.type = "progress" /\ module # "running" /\ Kill
         /\ host' = [host EXCEPT !.failure = "stale", !.cut = TRUE]
      \/ m.type = "ready" /\ Write([type |-> "init"]) /\ UNCHANGED <<host, child, entry, results>>
      \/ /\ host' = CASE m.type = "result" -> [host EXCEPT !.result = m.status]
                       [] m.type = "failed" -> [host EXCEPT !.failure = "fault"]
                       [] OTHER -> host
         /\ UNCHANGED <<child, toChild, entry, results>>
  BY DEF Scan
<1>6. /\ host' \in Host /\ host'.attempt = host.attempt /\ host'.pc = host.pc
      /\ host'.result = "done" => host.result = "done" \/ IsDone(m)
  <2> HIDE DEF m
  <2>1. CASE host' = [host EXCEPT !.failure = "stale", !.cut = TRUE]
    BY <1>3, <2>1 DEF Host
  <2>2. CASE UNCHANGED host
    BY <1>3, <2>2
  <2>3. CASE m.type = "result" /\ host' = [host EXCEPT !.result = m.status]
    BY <1>2, <1>3, <2>3 DEF Host, IsDone
  <2>4. CASE host' = [host EXCEPT !.failure = "fault"]
    BY <1>3, <2>4 DEF Host
  <2>5. QED BY <1>5, <2>1, <2>2, <2>3, <2>4
<1>7. EngineOK'
  BY <1>1, <1>6 DEF EngineOK
<1>8. CallsOK'
  <2>1. m.type \in {"look", "post"} =>
          [q |-> m.q, at |-> m.type, ready |-> FALSE, run |-> host.attempt] \in Calls
    BY <1>2, <1>3 DEF Calls
  <2> HIDE DEF m
  <2>2. calls' \subseteq Calls
    BY <1>1, <1>4, <2>1 DEF CallsOK
  <2>3. \A h \in calls' : h.run = host.attempt
    BY <1>1, <1>4 DEF CallsOK, NoStrayCalls
  <2>4. QED BY <1>1, <1>6, <2>2, <2>3 DEF CallsOK, NoStrayCalls, Running
<1>9. ChildOK' /\ ItemInv' /\ child'.seen = child.seen /\ toChild' \in Seq(Heard)
  <2>1. CASE Kill
    BY <1>1, <2>1, KillStep
  <2>2. CASE UNCHANGED <<child, entry, results>>
    <3>1. ChildOK' /\ ItemInv' /\ child'.seen = child.seen
      BY <1>1, <2>2, WorkerSame
    <3>2. toChild' \in Seq(Heard)
      BY <1>1, <1>5, KillStep, WriteStep, HeardMessages DEF PipesOK
    <3>3. QED BY <3>1, <3>2
  <2>3. QED BY <1>5, <2>1, <2>2
<1>10. PipesOK'
  BY <1>2, <1>9 DEF PipesOK
<1>11. Says' => Says
  BY <1>1, <1>2, <1>6 DEF Says
<1>12. QED BY <1>1, <1>7, <1>8, <1>9, <1>10, <1>11, PartsKeep

LEMMA ReturnKeeps ==
  ASSUME AnswersInv, Eof \/ Return, UNCHANGED <<bankVars, others>>
  PROVE  AnswersInv'
<1>1. /\ EngineOK /\ CallsOK /\ PipesOK
      /\ UNCHANGED <<bankVars, scene, collector, capture, platform, module, wakes, calls, toChild, toHost,
                     child, entry, results>>
  BY DEF AnswersInv, Eof, Return, others
<1>2. /\ host' \in Host /\ host'.result = host.result /\ host'.attempt = host.attempt /\ ghost' \in BOOLEAN
      /\ host'.pc = "drain" \/ calls = {}
  BY <1>1, HostFields DEF Eof, Return, Host, EngineOK, Quiet
<1>3. EngineOK'
  BY <1>1, <1>2 DEF EngineOK
<1>4. CallsOK'
  BY <1>1, <1>2 DEF CallsOK, NoStrayCalls, Running
<1>5. ChildOK' /\ ItemInv' /\ child'.seen = child.seen /\ PipesOK'
  BY <1>1, WorkerSame DEF PipesOK
<1>6. Says' => Says
  BY <1>1, <1>2 DEF Says
<1>7. QED BY <1>1, <1>3, <1>4, <1>5, <1>6, PartsKeep

LEMMA JudgeKeeps ==
  ASSUME AnswersInv, Judge, UNCHANGED <<bankVars, others>>
  PROVE  AnswersInv'
<1>1. /\ EngineOK /\ CallsOK /\ PipesOK /\ host.pc = "judge" /\ module \in Modules
      /\ UNCHANGED <<bankVars, scene, collector, capture, platform, wakes, ghost, calls, toChild, toHost,
                     child, entry, results>>
  BY DEF AnswersInv, Judge, others, EngineOK
<1>2. host' = [host EXCEPT !.pc = "requeue"] \/ host' = [host EXCEPT !.pc = "out"]
  BY DEF Judge
<1>3. host' \in Host /\ host'.result = host.result
  BY <1>1, <1>2, HostFields DEF Host
<1>4. module' \in Modules /\ (module' = "done" => module = "done" \/ host.result = "done")
  <2>1. CASE module' \in {module, "queued", "blocked", "waiting_account"}
    BY <1>1, <2>1 DEF Modules, Ended
  <2>2. CASE module' = host.result /\ ~Crashed /\ host.failure = None
    <3>1. host.result \in Outcomes
      BY <1>1, <2>2, HostFields DEF Crashed
    <3>2. QED BY <2>2, <3>1 DEF Modules, Outcomes, Ended
  <2>3. QED BY <2>1, <2>2 DEF Judge
<1>5. EngineOK' /\ CallsOK' /\ PipesOK'
  BY <1>1, <1>3, <1>4 DEF EngineOK, CallsOK, NoStrayCalls, Running, PipesOK
<1>6. ChildOK' /\ ItemInv' /\ child'.seen = child.seen
  BY <1>1, WorkerSame
<1>7. Says' => Says
  BY <1>1, <1>3, <1>4 DEF Says
<1>8. QED BY <1>1, <1>5, <1>6, <1>7, PartsKeep

LEMMA RediscoverKeeps ==
  ASSUME AnswersInv, Rediscover, UNCHANGED <<bankVars, others>>
  PROVE  AnswersInv'
<1>1. /\ BankOK /\ SceneOK /\ EngineOK /\ CallsOK /\ PipesOK /\ ChildOK /\ host.pc = "requeue"
      /\ UNCHANGED <<bankVars, scene, collector, capture, platform, wakes, ghost, calls, toChild, toHost>>
      /\ entry' = NoEntry /\ results' = NoItem
  BY DEF AnswersInv, Rediscover, others
<1>2. BankOK' /\ SceneOK' /\ PipesOK'
  BY <1>1, BankSame DEF SceneOK, PipesOK
<1>3. /\ host' = [host EXCEPT !.pc = "begin", !.attempt = 1] \/ host' = [host EXCEPT !.pc = "out"]
      /\ module' \in {module, "blocked"}
  BY DEF Rediscover
<1>4. host' \in Host /\ host'.result = host.result
  BY <1>1, <1>3, HostFields DEF Host
<1>5. EngineOK'
  BY <1>1, <1>3, <1>4 DEF EngineOK, Modules, Ended
<1>6. CallsOK'
  BY <1>1 DEF CallsOK, NoStrayCalls, Running
<1>7. /\ Asked = scene.asked /\ scene.asked \subseteq Questions /\ platform \in [Questions -> Held]
  BY <1>1, ChildFields, SceneFields DEF EngineOK, ChildOK
<1>8. PICK unread \in SUBSET Asked : child' = [Started(Course(Asked, platform, unread)) EXCEPT !.pc = "clean"]
  BY DEF Rediscover
<1> DEFINE seen == Course(Asked, platform, unread)
<1>9. /\ seen \in [scene.asked -> Shown]
      /\ \A q \in Asked : seen[q] \notin {"open", "unread"} => platform[q] = seen[q]
  BY <1>7 DEF Course, Shown
<1> HIDE DEF seen
<1>10. child' \in ProcessState /\ child'.pc = "clean" /\ child'.seen = seen /\ Asked' = Asked
  <2>1. "clean" \in Pcs /\ child' = [Started(seen) EXCEPT !.pc = "clean"]
    BY <1>8 DEF Pcs, Gone, seen
  <2>2. child' \in ProcessState /\ child'.pc = "clean" /\ child'.seen = seen
    BY <1>9, <2>1, StartedFields
  <2>3. QED BY <1>7, <1>9, <2>2 DEF Asked
<1>11. ChildOK' /\ SeenInv' /\ ItemInv'
  <2>1. ChildOK'
    BY <1>1, <1>10, Nothing DEF ChildOK, ProcessState
  <2>2. SeenInv'
    BY <1>1, <1>9, <1>10 DEF SeenInv
  <2>3. ItemInv'
    BY <1>1, <1>7, <1>10 DEF ItemInv, NoItem, None
  <2>4. QED BY <2>1, <2>2, <2>3
<1>12. SayInv'
  BY <1>1, <1>3, <1>4, <1>10 DEF AnswersInv, SayInv, Says, AllGood
<1> HIDE DEF BankOK, SceneOK, EngineOK, CallsOK, PipesOK, ChildOK, SeenInv, ItemInv, SayInv
<1>13. QED BY <1>2, <1>5, <1>6, <1>11, <1>12 DEF AnswersInv

LEMMA LauncherKeeps ==
  ASSUME AnswersInv, Launcher
  PROVE  AnswersInv'
BY BeginKeeps, NotifyKeeps, ScanKeeps, ReturnKeeps, JudgeKeeps, RediscoverKeeps DEF Launcher

-----------------------------------------------------------------------------
(* Calls.                                                                   *)

\* A call of the worker has gone on, or is answered.
LEMMA CallParts ==
  ASSUME AnswersInv, UNCHANGED <<module, host, wakes, ghost, toHost, child, entry, results, others>>,
         BankOK', platform' \in [Questions -> Held],
         \A q \in Questions : platform[q] # "open" => platform'[q] = platform[q],
         calls' \subseteq Calls, \A h \in calls' : h.run = host.attempt, calls # {},
         toChild' \in Seq(Heard)
  PROVE  AnswersInv'
<1>1. /\ SceneOK /\ EngineOK /\ CallsOK /\ PipesOK /\ ChildOK
      /\ UNCHANGED <<scene, collector, capture>>
  BY DEF AnswersInv, others
<1>2. SceneOK' /\ EngineOK' /\ PipesOK'
  BY <1>1 DEF SceneOK, EngineOK, PipesOK
<1>3. CallsOK'
  BY <1>1 DEF CallsOK, NoStrayCalls, Running
<1>4. ChildOK' /\ ItemInv' /\ Asked' = Asked /\ Asked \subseteq Questions
  BY <1>1, WorkerSame, ChildFields, SceneFields DEF Asked
<1>5. SeenInv'
  BY <1>4 DEF AnswersInv, SeenInv
<1>6. SayInv'
  BY <1>1, <1>4 DEF AnswersInv, SayInv, Says, AllGood, Good
<1> HIDE DEF BankOK, SceneOK, EngineOK, CallsOK, PipesOK, ChildOK, SeenInv, ItemInv, SayInv
<1>7. QED BY <1>2, <1>3, <1>4, <1>5, <1>6 DEF AnswersInv

LEMMA CallsFields ==
  ASSUME CallsOK, NEW h \in calls
  PROVE  /\ h \in Calls /\ h.q \in Questions /\ h.ready \in BOOLEAN /\ h.run = host.attempt /\ calls # {}
         /\ calls \ {h} \subseteq Calls /\ \A g \in calls \ {h} : g.run = host.attempt
BY DEF CallsOK, Calls, NoStrayCalls

\* A call goes on: it is the same call, at another place.
LEMMA AtStep ==
  ASSUME CallsOK, NEW h \in calls, NEW at \in {"look", "adopt", "ask", "post"}, NEW ready \in BOOLEAN,
         At(h, at, ready)
  PROVE  calls' \subseteq Calls /\ (\A g \in calls' : g.run = host.attempt) /\ UNCHANGED toChild
<1> DEFINE g == [h EXCEPT !.at = at, !.ready = ready]
<1>1. calls' = (calls \ {h}) \union {g} /\ UNCHANGED toChild
  BY DEF At
<1>2. g \in Calls /\ g.run = h.run
  BY CallsFields DEF Calls
<1> HIDE DEF g
<1>3. QED BY <1>1, <1>2, CallsFields

LEMMA ReplyStep ==
  ASSUME CallsOK, PipesOK, NEW h \in calls, NEW ready \in BOOLEAN, NEW producer \in Producers \union {None},
         NEW answer \in {None, "error", "fatal"} \union Held, Reply(h, ready, producer, answer)
  PROVE  calls' \subseteq Calls /\ (\A g \in calls' : g.run = host.attempt) /\ toChild' \in Seq(Heard)
<1>1. [type |-> "reply", q |-> h.q, ready |-> ready, producer |-> producer, answer |-> answer] \in Heard
  BY CallsFields, HeardMessages
<1>2. toChild' \in Seq(Heard)
  BY <1>1, WriteStep DEF Reply
<1>3. calls' = calls \ {h}
  BY DEF Reply
<1>4. QED BY <1>2, <1>3, CallsFields

\* What a submission does to the platform, and what it tells the worker.
LEMMA VerdictsHold ==
  ASSUME EngineOK, NEW q \in Questions, NEW v \in Verdicts(q)
  PROVE  /\ v[1] \in Held /\ v[2] \in {None, "error", "fatal"} \union Held
         /\ platform[q] # "open" => v[1] = platform[q]
<1>1. platform[q] \in Held
  BY DEF EngineOK
<1>2. \/ v = <<platform[q], "error">>
      \/ /\ platform[q] = "open"
         /\ v \in {<<"right", "right">>, <<"wrong", "wrong">>, <<"open", "right">>, <<"right", "error">>,
                   <<"open", "error">>, <<"open", "fatal">>}
      \/ v = <<platform[q], platform[q]>>
  BY DEF Verdicts
<1>3. QED BY <1>1, <1>2 DEF Held

LEMMA HandleKeeps ==
  ASSUME AnswersInv, NEW h \in calls, NEW fails \in BOOLEAN,
         Execute(h, collector.status, fails), UNCHANGED others
  PROVE  AnswersInv'
<1>1. /\ BankOK /\ SceneOK /\ EngineOK /\ CallsOK /\ PipesOK /\ calls # {}
      /\ UNCHANGED <<module, host, wakes, ghost, toHost, child, entry, results, others>>
  BY DEF AnswersInv, Execute
<1>2. /\ h.q \in Questions /\ h.ready \in BOOLEAN /\ platform \in [Questions -> Held] /\ toChild \in Seq(Heard)
      /\ collector.status \in Producers \union {None}
      /\ None \in Producers \union {None} /\ None \in {None, "error", "fatal"} \union Held
      /\ "fatal" \in {None, "error", "fatal"} \union Held
  BY <1>1, CallsFields, SceneFields DEF EngineOK, PipesOK
<1>3. CASE Look(h)
  <2>1. /\ Tell(h.q) /\ UNCHANGED <<bank, legacy, events, platform>>
        /\ At(h, IF Falls(h.q) THEN "adopt" ELSE "ask", Ready(h.q))
    BY <1>3 DEF Look
  <2>2. BankOK'
    BY <1>1, <1>2, <2>1, TellStep
  <2>3. (IF Falls(h.q) THEN "adopt" ELSE "ask") \in {"look", "adopt", "ask", "post"} /\ Ready(h.q) \in BOOLEAN
    BY DEF Ready
  <2>4. calls' \subseteq Calls /\ (\A g \in calls' : g.run = host.attempt) /\ UNCHANGED toChild
    BY <1>1, <2>1, <2>3, AtStep
  <2>5. QED BY <1>1, <1>2, <2>1, <2>2, <2>4, CallParts
<1>4. CASE AdoptOld(h)
  <2>1. Save(h.q, legacy[h.q]) /\ UNCHANGED <<legacy, told>> /\ At(h, "look", FALSE) /\ UNCHANGED platform
    BY <1>4 DEF AdoptOld, Adopt
  <2>2. legacy[h.q] \in Sources \union {None}
    BY <1>1, <1>2 DEF BankOK, BankType, Sources
  <2>3. BankOK'
    BY <1>1, <1>2, <2>1, <2>2, SaveStep
  <2>4. calls' \subseteq Calls /\ (\A g \in calls' : g.run = host.attempt) /\ UNCHANGED toChild
    BY <1>1, <2>1, AtStep
  <2>5. QED BY <1>1, <1>2, <2>1, <2>3, <2>4, CallParts
<1>5. CASE Ask(h, collector.status)
  <2>1. Reply(h, h.ready, collector.status, None) /\ UNCHANGED <<bankVars, platform>>
    BY <1>5 DEF Ask
  <2>2. BankOK'
    BY <1>1, <2>1, BankSame
  <2>3. calls' \subseteq Calls /\ (\A g \in calls' : g.run = host.attempt) /\ toChild' \in Seq(Heard)
    BY <1>1, <1>2, <2>1, ReplyStep
  <2>4. QED BY <1>1, <1>2, <2>1, <2>2, <2>3, CallParts
<1>6. CASE Submit(h)
  <2>1. Tell(h.q) /\ UNCHANGED <<bank, legacy, events>>
    BY <1>6 DEF Submit
  <2>2. BankOK'
    BY <1>1, <1>2, <2>1, TellStep
  <2>3. PICK v \in Verdicts(h.q) : platform' = [platform EXCEPT ![h.q] = v[1]] /\ Reply(h, FALSE, None, v[2])
    BY <1>6 DEF Submit
  <2>4. /\ v[1] \in Held /\ v[2] \in {None, "error", "fatal"} \union Held
        /\ platform[h.q] # "open" => v[1] = platform[h.q]
    BY <1>1, <1>2, VerdictsHold
  <2>5. /\ platform' \in [Questions -> Held]
        /\ \A q \in Questions : platform[q] # "open" => platform'[q] = platform[q]
    BY <1>2, <2>3, <2>4
  <2>6. calls' \subseteq Calls /\ (\A g \in calls' : g.run = host.attempt) /\ toChild' \in Seq(Heard)
    BY <1>1, <1>2, <2>3, <2>4, ReplyStep
  <2>7. QED BY <1>1, <2>2, <2>5, <2>6, CallParts
<1>7. CASE Fails(h)
  <2>1. Reply(h, FALSE, None, "fatal") /\ UNCHANGED <<bankVars, platform>>
    BY <1>7 DEF Fails
  <2>2. BankOK'
    BY <1>1, <2>1, BankSame
  <2>3. calls' \subseteq Calls /\ (\A g \in calls' : g.run = host.attempt) /\ toChild' \in Seq(Heard)
    BY <1>1, <1>2, <2>1, ReplyStep
  <2>4. QED BY <1>1, <1>2, <2>1, <2>2, <2>3, CallParts
<1>8. QED BY <1>3, <1>4, <1>5, <1>6, <1>7 DEF Execute

-----------------------------------------------------------------------------
(* The worker process.                                                      *)

\* The process takes a step of its own: the rest of the system stays.
LEMMA ProcessParts ==
  ASSUME AnswersInv, UNCHANGED <<bankVars, platform, module, host, wakes, ghost, calls, others>>,
         ChildOK', child'.seen = child.seen, ItemInv',
         toHost' \in Seq(Said), toChild' \in Seq(Heard), HasDone(toHost') => HasDone(toHost) \/ AllGood
  PROVE  AnswersInv'
<1>1. EngineOK /\ CallsOK /\ UNCHANGED <<bankVars, scene, collector, capture, platform>>
  BY DEF AnswersInv, others
<1>2. EngineOK' /\ CallsOK' /\ PipesOK'
  BY <1>1 DEF EngineOK, CallsOK, NoStrayCalls, Running, PipesOK
<1>3. Says' => Says \/ AllGood
  BY DEF Says
<1>4. QED BY <1>1, <1>2, <1>3, PartsKeep

LEMMA SayStep ==
  ASSUME PipesOK, NEW m \in Said, Say(<<m>>)
  PROVE  toHost' \in Seq(Said) /\ (HasDone(toHost') => HasDone(toHost) \/ IsDone(m))
BY OneMoreElement, DoneInPipe DEF PipesOK, Say

LEMMA ReadStep ==
  ASSUME PipesOK, toChild # <<>>
  PROVE  Head(toChild) \in Heard /\ Tail(toChild) \in Seq(Heard)
BY HeadTail DEF PipesOK

LEMMA GiveStep ==
  ASSUME PipesOK, ChildOK, NEW q \in Questions, NEW item \in Items, Give(q, item)
  PROVE  /\ results' \in [Questions -> Items] /\ results'[q] = item
         /\ \A z \in Questions \ {q} : results'[z] = results[z]
         /\ toHost' \in Seq(Said) /\ (HasDone(toHost') => HasDone(toHost))
<1>1. results' = [results EXCEPT ![q] = item] /\ results \in [Questions -> Items]
  BY DEF Give, ChildOK
<1>2. toHost' \in Seq(Said) /\ (HasDone(toHost') => HasDone(toHost))
  BY SayStep, SaidMessages DEF Give
<1>3. QED BY <1>1, <1>2

LEMMA ExitStep ==
  ASSUME SceneOK, ChildOK, PipesOK, UNCHANGED scene, NEW m \in Said, Exit(m)
  PROVE  /\ ChildOK' /\ ItemInv' /\ child'.seen = child.seen /\ toChild' \in Seq(Heard)
         /\ toHost' \in Seq(Said) /\ (HasDone(toHost') => HasDone(toHost) \/ IsDone(m))
<1>1. Dies("clean") /\ Say(<<m>>)
  BY DEF Exit
<1>2. "clean" \in Gone
  BY DEF Gone
<1>3. QED BY <1>1, <1>2, DiesStep, SayStep

\* The process goes on to another place.
LEMMA MovesStep ==
  ASSUME ChildOK, UNCHANGED scene, NEW pc \in Pcs, NEW token \in BOOLEAN, NEW waiting \in BOOLEAN,
         NEW running \in BOOLEAN, child' = [child EXCEPT !.pc = pc, !.token = token, !.waiting = waiting, !.running = running]
  PROVE  /\ child' \in ProcessState /\ child' \in ProcessState' /\ child'.seen = child.seen /\ Asked' = Asked
         /\ child'.pc = pc /\ child'.waiting = waiting
BY DEF ChildOK, ProcessState, Asked

LEMMA BootKeeps ==
  ASSUME AnswersInv, Boot \/ Hang, UNCHANGED <<bankVars, platform, module, host, wakes, ghost, calls, others>>
  PROVE  AnswersInv'
<1>1. /\ PipesOK /\ ChildOK /\ ItemInv /\ UNCHANGED <<scene, toChild, entry, results>>
  BY DEF AnswersInv, Boot, Hang, others
<1>2. PICK pc \in {"init", "hung"} : child' = [child EXCEPT !.pc = pc] /\ (pc = "init" => child.pc = "boot")
  BY DEF Boot, Hang
<1>3. child' = [child EXCEPT !.pc = pc, !.token = child.token, !.waiting = child.waiting, !.running = child.running]
  BY <1>1, <1>2 DEF ChildOK, ProcessState
<1>4. pc \in Pcs
  BY DEF Pcs
<1>5. /\ child' \in ProcessState' /\ child'.seen = child.seen /\ Asked' = Asked
      /\ child'.pc = pc /\ child'.waiting = child.waiting
  BY <1>1, <1>3, <1>4, ChildFields, MovesStep
<1>6. ChildOK'
  BY <1>1, <1>5 DEF ChildOK
<1>7. ItemInv'
  BY <1>1, <1>2, <1>5 DEF ItemInv
<1>8. toHost' \in Seq(Said) /\ (HasDone(toHost') => HasDone(toHost)) /\ toChild' \in Seq(Heard)
  BY <1>1, SayStep, SaidMessages DEF Boot, Hang, PipesOK
<1>9. QED BY <1>5, <1>6, <1>7, <1>8, ProcessParts

LEMMA FirstKeeps ==
  ASSUME AnswersInv, First, UNCHANGED <<bankVars, platform, module, host, wakes, ghost, calls, others>>
  PROVE  AnswersInv'
<1>1. /\ PipesOK /\ ChildOK /\ ItemInv /\ SceneOK /\ UNCHANGED <<scene, toHost>> /\ toChild # <<>>
      /\ child.pc = "init"
  BY DEF AnswersInv, First, others
<1>2. CASE Dies("crashed")
  <2>1. ChildOK' /\ ItemInv' /\ toChild' \in Seq(Heard) /\ child'.seen = child.seen
    BY <1>1, <1>2, DiesStep DEF Gone
  <2>2. QED BY <1>1, <2>1, ProcessParts DEF PipesOK
<1>3. CASE child' = [child EXCEPT !.pc = "pass"] /\ toChild' = Tail(toChild) /\ UNCHANGED <<entry, results>>
  <2>1. child' = [child EXCEPT !.pc = "pass", !.token = child.token, !.waiting = child.waiting, !.running = child.running]
    BY <1>1, <1>3 DEF ChildOK, ProcessState
  <2>2. "pass" \in Pcs
    BY DEF Pcs
  <2>3. /\ child' \in ProcessState' /\ child'.seen = child.seen /\ Asked' = Asked
        /\ child'.pc = "pass" /\ child'.waiting = child.waiting
    BY <1>1, <2>1, <2>2, ChildFields, MovesStep
  <2>4. ChildOK' /\ ItemInv'
    BY <1>1, <1>3, <2>3 DEF ChildOK, ItemInv
  <2>5. QED BY <1>1, <1>3, <2>3, <2>4, ReadStep, ProcessParts DEF PipesOK
<1>4. QED BY <1>2, <1>3 DEF First

\* A question has moved on, and has perhaps its item.
LEMMA EntryStep ==
  ASSUME ChildOK, SceneOK, ItemInv, UNCHANGED scene, NEW q \in Questions, NEW to \in Entries,
         entry' = [entry EXCEPT ![q] = to], results' \in [Questions -> Items],
         \A z \in Questions \ {q} : results'[z] = results[z],
         child' \in ProcessState', child'.pc = child.pc, child'.seen = child.seen,
         ~child'.waiting => ~child.waiting,
         q \in Asked /\ results'[q] = "skipped" => child.seen[q] \in Good,
         results[q] # None => results'[q] # None,
         to = "left" => results'[q] # None \/ child'.waiting
  PROVE  ChildOK' /\ ItemInv'
<1>1. Asked' = Asked /\ Asked \subseteq Questions
  BY ChildFields, SceneFields DEF Asked
<1>2. entry' \in [Questions -> Entries] /\ entry'[q] = to /\ \A z \in Questions \ {q} : entry'[z] = entry[z]
  BY DEF ChildOK
<1>3. ChildOK'
  BY <1>2 DEF ChildOK
<1>4. \A z \in Asked : results'[z] = "skipped" => child'.seen[z] \in Good
  BY <1>1 DEF ItemInv
<1>5. child'.pc = "check" => \A z \in Asked : results'[z] # None
  BY <1>1 DEF ItemInv
<1>6. child'.pc \in {"boot", "init", "pass"} /\ ~child'.waiting =>
        \A z \in Asked : entry'[z] = "left" => results'[z] # None
  BY <1>1, <1>2 DEF ItemInv
<1>7. ItemInv'
  BY <1>1, <1>4, <1>5, <1>6 DEF ItemInv
<1>8. QED BY <1>3, <1>7

LEMMA TakeKeeps ==
  ASSUME AnswersInv, NEW q \in Asked, Take(q),
         UNCHANGED <<bankVars, platform, module, host, wakes, ghost, calls, others>>
  PROVE  AnswersInv'
<1>1. /\ PipesOK /\ ChildOK /\ ItemInv /\ SceneOK /\ UNCHANGED <<scene, toChild, child>> /\ q \in Questions
  BY ChildFields, SceneFields DEF AnswersInv, Take, others
<1>2. /\ child' \in ProcessState' /\ child.seen[q] \in Shown /\ results \in [Questions -> Items]
      /\ "left" \in Entries /\ "lookup" \in Entries /\ toHost \in Seq(Said)
  BY <1>1, ChildFields DEF ChildOK, ProcessState, Entries, PipesOK
<1>3. /\ ChildOK' /\ ItemInv' /\ toHost' \in Seq(Said) /\ (HasDone(toHost') => HasDone(toHost))
  <2>1. CASE results[q] # None /\ entry' = [entry EXCEPT ![q] = "left"] /\ UNCHANGED <<toHost, results>>
    <3>1. q \in Asked /\ results'[q] = "skipped" => child.seen[q] \in Good
      BY <1>1, <2>1 DEF ItemInv
    <3>2. ChildOK' /\ ItemInv'
      BY <1>1, <1>2, <2>1, <3>1, EntryStep
    <3>3. QED BY <1>2, <2>1, <3>2
  <2>2. CASE /\ results[q] = None /\ child.seen[q] # "open" /\ entry' = [entry EXCEPT ![q] = "left"]
             /\ Give(q, CASE child.seen[q] \in {"bad", "unread"} -> "failed" [] child.seen[q] = "wrong" -> "wrong_existing" [] OTHER -> "skipped")
    <3> DEFINE item == CASE child.seen[q] \in {"bad", "unread"} -> "failed" [] child.seen[q] = "wrong" -> "wrong_existing" [] OTHER -> "skipped"
    <3>1. item \in Items /\ item # None /\ (item = "skipped" => child.seen[q] \in Good)
      BY <1>2, <2>2 DEF Items, Good, Held, Shown, None
    <3> HIDE DEF item
    <3>2. /\ results' \in [Questions -> Items] /\ results'[q] = item /\ \A z \in Questions \ {q} : results'[z] = results[z]
          /\ toHost' \in Seq(Said) /\ (HasDone(toHost') => HasDone(toHost))
      <4>1. Give(q, item)
        BY <2>2 DEF item
      <4>2. QED BY <1>1, <3>1, <4>1, GiveStep
    <3>3. ChildOK' /\ ItemInv'
      BY <1>1, <1>2, <2>2, <3>1, <3>2, EntryStep
    <3>4. QED BY <3>2, <3>3
  <2>3. CASE /\ results[q] = None /\ entry' = [entry EXCEPT ![q] = "lookup"]
             /\ Say(<<[type |-> "look", q |-> q]>>) /\ UNCHANGED results
    <3>1. ChildOK' /\ ItemInv'
      BY <1>1, <1>2, <2>3, EntryStep DEF None
    <3>2. toHost' \in Seq(Said) /\ (HasDone(toHost') => HasDone(toHost))
      BY <1>1, <2>3, SayStep, SaidMessages
    <3>3. QED BY <3>1, <3>2
  <2>4. QED BY <2>1, <2>2, <2>3 DEF Take
<1>4. QED BY <1>1, <1>3, ProcessParts DEF PipesOK

LEMMA HearKeeps ==
  ASSUME AnswersInv, Hear, UNCHANGED <<bankVars, platform, module, host, wakes, ghost, calls, others>>
  PROVE  AnswersInv'
<1> DEFINE m == Head(toChild)
           q == m.q
<1>1. /\ PipesOK /\ ChildOK /\ ItemInv /\ SceneOK /\ UNCHANGED scene /\ m \in Heard /\ Tail(toChild) \in Seq(Heard)
  BY ReadStep DEF AnswersInv, Hear, others
<1>2. /\ results \in [Questions -> Items] /\ toHost \in Seq(Said)
      /\ "left" \in Entries /\ "submit" \in Entries /\ [type |-> "failed"] \in Said
  BY <1>1, SaidMessages DEF ChildOK, Entries, PipesOK
<1>3. CASE Exit([type |-> "failed"])
  <2>1. /\ ChildOK' /\ ItemInv' /\ child'.seen = child.seen /\ toChild' \in Seq(Heard)
        /\ toHost' \in Seq(Said) /\ (HasDone(toHost') => HasDone(toHost))
    BY <1>1, <1>2, <1>3, ExitStep, SaidMessages
  <2>2. QED BY <2>1, ProcessParts
<1>4. CASE /\ child' = [child EXCEPT !.token = TRUE] /\ toChild' = Tail(toChild)
           /\ UNCHANGED <<toHost, entry, results>>
  <2>1. child' = [child EXCEPT !.pc = child.pc, !.token = TRUE, !.waiting = child.waiting, !.running = child.running]
    BY <1>1, <1>4 DEF ChildOK, ProcessState
  <2>2. /\ child' \in ProcessState' /\ child'.seen = child.seen /\ Asked' = Asked
        /\ child'.pc = child.pc /\ child'.waiting = child.waiting
    BY <1>1, <2>1, ChildFields, MovesStep
  <2>3. ChildOK' /\ ItemInv'
    BY <1>1, <1>4, <2>2 DEF ChildOK, ItemInv
  <2>4. QED BY <1>1, <1>2, <1>4, <2>2, <2>3, ProcessParts
<1>5. CASE /\ m.type = "reply" /\ toChild' = Tail(toChild)
           /\ \/ entry[q] = "lookup" /\ ~m.ready /\ Without(q, m.producer)
              \/ /\ entry[q] = "lookup" /\ m.ready /\ entry' = [entry EXCEPT ![q] = "submit"]
                 /\ Say(<<[type |-> "post", q |-> q]>>) /\ UNCHANGED <<child, results>>
              \/ entry[q] = "submit" /\ Answered(q, m.answer)
  <2>1. q \in Questions /\ m.producer \in Producers \union {None}
    BY <1>1, <1>5, HeardMessages
  <2> HIDE DEF m, q
  <2>2. results[q] = "skipped" /\ q \in Asked => child.seen[q] \in Good
    BY <1>1 DEF ItemInv
  <2>3. UNCHANGED child => child' \in ProcessState'
    BY <1>1 DEF ChildOK, ProcessState
  <2>4. /\ ChildOK' /\ ItemInv' /\ child'.seen = child.seen
        /\ toHost' \in Seq(Said) /\ (HasDone(toHost') => HasDone(toHost))
    <3>1. ASSUME NEW item \in {"missing", "completed", "failed"}, Give(q, item), UNCHANGED child,
                 entry' = [entry EXCEPT ![q] = "left"]
          PROVE  /\ ChildOK' /\ ItemInv' /\ child'.seen = child.seen
                 /\ toHost' \in Seq(Said) /\ (HasDone(toHost') => HasDone(toHost))
      <4>1. item \in Items /\ item # None /\ item # "skipped"
        BY DEF Items, None
      <4>2. /\ results' \in [Questions -> Items] /\ results'[q] = item /\ \A z \in Questions \ {q} : results'[z] = results[z]
            /\ toHost' \in Seq(Said) /\ (HasDone(toHost') => HasDone(toHost))
        BY <1>1, <2>1, <3>1, <4>1, GiveStep
      <4>3. ChildOK' /\ ItemInv'
        BY <1>1, <1>2, <2>1, <2>3, <3>1, <4>1, <4>2, EntryStep
      <4>4. QED BY <3>1, <4>2, <4>3
    <3>2. ASSUME entry' = [entry EXCEPT ![q] = "left"], UNCHANGED <<toHost, results>>,
                 child' = [child EXCEPT !.waiting = TRUE, !.running = @ \/ m.producer \in {"running", "queued"}]
          PROVE  /\ ChildOK' /\ ItemInv' /\ child'.seen = child.seen
                 /\ toHost' \in Seq(Said) /\ (HasDone(toHost') => HasDone(toHost))
      <4> DEFINE running == child.running \/ m.producer \in {"running", "queued"}
      <4>1. running \in BOOLEAN
        BY <1>1, ChildFields
      <4>2. child' = [child EXCEPT !.pc = child.pc, !.token = child.token, !.waiting = TRUE, !.running = running]
        BY <1>1, <3>2 DEF ChildOK, ProcessState
      <4> HIDE DEF running
      <4>3. /\ child' \in ProcessState' /\ child'.seen = child.seen /\ child'.pc = child.pc /\ child'.waiting = TRUE
        BY <1>1, <4>1, <4>2, ChildFields, MovesStep
      <4>4. ChildOK' /\ ItemInv'
        BY <1>1, <1>2, <2>1, <2>2, <3>2, <4>3, EntryStep
      <4>5. QED BY <1>2, <3>2, <4>3, <4>4
    <3>3. CASE Without(q, m.producer)
      BY <3>1, <3>2, <3>3 DEF Without
    <3>4. CASE /\ entry' = [entry EXCEPT ![q] = "submit"]
               /\ Say(<<[type |-> "post", q |-> q]>>) /\ UNCHANGED <<child, results>>
      <4>1. ChildOK' /\ ItemInv'
        BY <1>1, <1>2, <2>1, <2>2, <2>3, <3>4, EntryStep
      <4>2. toHost' \in Seq(Said) /\ (HasDone(toHost') => HasDone(toHost))
        BY <1>1, <2>1, <3>4, SayStep, SaidMessages
      <4>3. QED BY <3>4, <4>1, <4>2
    <3>5. CASE Answered(q, m.answer)
      BY <3>1, <3>5 DEF Answered
    <3>6. QED BY <1>5, <3>3, <3>4, <3>5
  <2>5. QED BY <1>1, <1>5, <2>4, ProcessParts
<1>6. QED BY <1>3, <1>4, <1>5 DEF Hear

LEMMA PassEndsKeeps ==
  ASSUME AnswersInv, PassEnds, UNCHANGED <<bankVars, platform, module, host, wakes, ghost, calls, others>>
  PROVE  AnswersInv'
<1>1. /\ PipesOK /\ ChildOK /\ ItemInv /\ SceneOK /\ UNCHANGED scene
      /\ child.pc = "pass" /\ \A q \in Asked : entry[q] = "left"
  BY DEF AnswersInv, PassEnds, others
<1>2. CASE Exit([type |-> "result", status |-> "waiting_answers"])
  <2>1. "waiting_answers" \in Outcomes
    BY DEF Outcomes
  <2>2. /\ [type |-> "result", status |-> "waiting_answers"] \in Said
        /\ ~IsDone([type |-> "result", status |-> "waiting_answers"])
    BY <2>1, SaidMessages
  <2>3. /\ ChildOK' /\ ItemInv' /\ child'.seen = child.seen /\ toChild' \in Seq(Heard)
        /\ toHost' \in Seq(Said) /\ (HasDone(toHost') => HasDone(toHost))
    BY <1>1, <1>2, <2>2, ExitStep
  <2>4. QED BY <2>3, ProcessParts
<1>3. CASE /\ child' = [child EXCEPT !.pc = IF child.waiting THEN "sleep" ELSE "check"]
           /\ UNCHANGED <<toChild, toHost, entry, results>>
  <2> DEFINE pc == IF child.waiting THEN "sleep" ELSE "check"
  <2>1. pc \in Pcs /\ pc \notin {"boot", "init", "pass"} /\ (pc = "check" => ~child.waiting)
    BY DEF Pcs
  <2>2. child' = [child EXCEPT !.pc = pc, !.token = child.token, !.waiting = child.waiting, !.running = child.running]
    BY <1>1, <1>3 DEF ChildOK, ProcessState
  <2> HIDE DEF pc
  <2>3. /\ child' \in ProcessState' /\ child'.seen = child.seen /\ Asked' = Asked
        /\ child'.pc = pc /\ child'.waiting = child.waiting
    BY <1>1, <2>1, <2>2, ChildFields, MovesStep
  <2>4. ChildOK'
    BY <1>1, <1>3, <2>3 DEF ChildOK
  <2>5. ItemInv'
    BY <1>1, <1>3, <2>1, <2>3 DEF ItemInv
  <2>6. QED BY <1>1, <1>3, <2>3, <2>4, <2>5, ProcessParts DEF PipesOK
<1>4. QED BY <1>2, <1>3 DEF PassEnds

LEMMA RiseKeeps ==
  ASSUME AnswersInv, Rise, UNCHANGED <<bankVars, platform, module, host, wakes, ghost, calls, others>>
  PROVE  AnswersInv'
<1>1. /\ PipesOK /\ ChildOK /\ ItemInv /\ SceneOK /\ UNCHANGED <<scene, toChild, toHost, results>>
      /\ entry' = NoEntry
  BY DEF AnswersInv, Rise, others
<1>2. PICK t \in {FALSE, child.token} :
        child' = [child EXCEPT !.pc = "pass", !.waiting = FALSE, !.running = FALSE, !.token = t]
  BY DEF Rise
<1>3. "pass" \in Pcs /\ t \in BOOLEAN
  BY <1>1, ChildFields DEF Pcs
<1>4. child' = [child EXCEPT !.pc = "pass", !.token = t, !.waiting = FALSE, !.running = FALSE]
  BY <1>1, <1>2 DEF ChildOK, ProcessState
<1>5. /\ child' \in ProcessState' /\ child'.seen = child.seen /\ Asked' = Asked /\ child'.pc = "pass"
  BY <1>1, <1>3, <1>4, MovesStep
<1>6. Asked \subseteq Questions
  BY <1>1, ChildFields, SceneFields
<1>7. ChildOK'
  BY <1>1, <1>5, Nothing DEF ChildOK
<1>8. ItemInv'
  <2>1. \A q \in Asked : entry'[q] = "todo"
    BY <1>1, <1>6 DEF NoEntry
  <2>2. QED BY <1>1, <1>5, <2>1 DEF ItemInv
<1>9. QED BY <1>1, <1>5, <1>7, <1>8, ProcessParts DEF PipesOK

\* The worker says "done" only after its last look at the platform.
LEMMA CheckKeeps ==
  ASSUME AnswersInv, Check \/ CheckFails, UNCHANGED <<bankVars, platform, module, host, wakes, ghost, calls, others>>
  PROVE  AnswersInv'
<1>1. /\ PipesOK /\ ChildOK /\ ItemInv /\ SceneOK /\ SeenInv /\ EngineOK /\ UNCHANGED scene /\ child.pc = "check"
  BY DEF AnswersInv, Check, CheckFails, others
<1>2. CASE CheckFails
  <2>1. /\ ChildOK' /\ ItemInv' /\ child'.seen = child.seen /\ toChild' \in Seq(Heard)
        /\ toHost' \in Seq(Said) /\ (HasDone(toHost') => HasDone(toHost))
    BY <1>1, <1>2, ExitStep, SaidMessages DEF CheckFails
  <2>2. QED BY <2>1, ProcessParts
<1>3. CASE Check
  <2> DEFINE status == IF \E q \in Asked : Confirmed(q) \in Poor THEN "partial" ELSE "done"
  <2>1. Exit([type |-> "result", status |-> status])
    BY <1>3 DEF Check
  <2>2. status \in Outcomes
    BY DEF Outcomes
  <2>3. status = "done" => AllGood
    <3>1. SUFFICES ASSUME NEW q \in Asked, Confirmed(q) \notin Poor
                   PROVE  platform[q] \in Good
      BY DEF AllGood
    <3>2. results[q] \in Items /\ results[q] # None /\ child.seen[q] \in Shown /\ platform[q] \in Held
      BY <1>1, ChildFields, SceneFields DEF ChildOK, ItemInv, EngineOK
    <3>3. CASE results[q] = "skipped"
      <4>1. child.seen[q] \in Good
        BY <1>1, <3>3 DEF ItemInv
      <4>2. QED BY <1>1, <4>1 DEF SeenInv, Good
    <3>4. CASE results[q] # "skipped"
      BY <3>1, <3>2, <3>4 DEF Confirmed, Poor, Items, Good, None
    <3>5. QED BY <3>3, <3>4
  <2>4. /\ [type |-> "result", status |-> status] \in Said
        /\ IsDone([type |-> "result", status |-> status]) => AllGood
    BY <2>2, <2>3, SaidMessages
  <2> HIDE DEF status
  <2>5. /\ ChildOK' /\ ItemInv' /\ child'.seen = child.seen /\ toChild' \in Seq(Heard)
        /\ toHost' \in Seq(Said) /\ (HasDone(toHost') => HasDone(toHost) \/ AllGood)
    BY <1>1, <2>1, <2>4, ExitStep
  <2>6. QED BY <2>5, ProcessParts
<1>4. QED BY <1>2, <1>3

LEMMA CrashKeeps ==
  ASSUME AnswersInv, Crash, UNCHANGED <<bankVars, platform, module, host, wakes, ghost, calls, others>>
  PROVE  AnswersInv'
<1>1. /\ PipesOK /\ ChildOK /\ SceneOK /\ UNCHANGED <<scene, toHost>> /\ Dies("crashed") /\ "crashed" \in Gone
  BY DEF AnswersInv, Crash, others, Gone
<1>2. ChildOK' /\ ItemInv' /\ toChild' \in Seq(Heard) /\ child'.seen = child.seen
  BY <1>1, DiesStep
<1>3. QED BY <1>1, <1>2, ProcessParts DEF PipesOK

LEMMA ProcessKeeps ==
  ASSUME AnswersInv, Process
  PROVE  AnswersInv'
BY BootKeeps, FirstKeeps, TakeKeeps, HearKeeps, PassEndsKeeps, RiseKeeps, CheckKeeps DEF Process, Child

-----------------------------------------------------------------------------
(* Faults, the collector, other users and the engine.                       *)

LEMMA VanishKeeps ==
  ASSUME AnswersInv, Vanish, UNCHANGED <<bankVars, others>>
  PROVE  AnswersInv'
<1>1. /\ EngineOK /\ CallsOK /\ PipesOK /\ ghost' \in BOOLEAN /\ wakes' \in {wakes, wakes - 1} \intersect Nat
      /\ UNCHANGED <<bankVars, scene, collector, capture, platform, module, host, calls, toChild, toHost,
                     child, entry, results>>
  BY DEF AnswersInv, Vanish, others, ends
<1>2. wakes' \in 0 .. WakeCap
  BY <1>1, WorkerAssumption DEF EngineOK
<1>3. EngineOK' /\ CallsOK' /\ PipesOK'
  BY <1>1, <1>2 DEF EngineOK, CallsOK, NoStrayCalls, Running, PipesOK
<1>4. ChildOK' /\ ItemInv' /\ child'.seen = child.seen
  BY <1>1, WorkerSame
<1>5. Says' => Says
  BY <1>1 DEF Says
<1>6. QED BY <1>1, <1>3, <1>4, <1>5, PartsKeep

LEMMA FaultKeeps ==
  ASSUME AnswersInv, Fault
  PROVE  AnswersInv'
BY CrashKeeps, CheckKeeps, BootKeeps, VanishKeeps DEF Fault

\* The bank and the collector go on; the worker has at most another wake.
LEMMA BankMoves ==
  ASSUME AnswersInv, BankOK', SceneOK', scene'.asked = scene.asked, wakes' \in 0 .. WakeCap,
         UNCHANGED <<platform, module, host, ghost, calls, toChild, toHost, child, entry, results>>
  PROVE  AnswersInv'
<1>1. EngineOK /\ CallsOK /\ PipesOK /\ ChildOK
  BY DEF AnswersInv
<1>2. EngineOK' /\ CallsOK' /\ PipesOK' /\ ChildOK'
  BY <1>1 DEF EngineOK, CallsOK, NoStrayCalls, Running, PipesOK, ChildOK, ProcessState
<1>3. SeenInv' /\ ItemInv' /\ SayInv'
  BY DEF AnswersInv, SeenInv, ItemInv, SayInv, Says, AllGood, Asked
<1> HIDE DEF BankOK, SceneOK, EngineOK, CallsOK, PipesOK, ChildOK, SeenInv, ItemInv, SayInv
<1>4. QED BY <1>2, <1>3 DEF AnswersInv

LEMMA WokenStays ==
  ASSUME EngineOK
  PROVE  Woken \in 0 .. WakeCap
BY WorkerAssumption DEF EngineOK, Woken

LEMMA CollectKeeps ==
  ASSUME AnswersInv, Collect
  PROVE  AnswersInv'
<1>1. BankOK /\ SceneOK /\ EngineOK /\ wakes \in 0 .. WakeCap
  BY DEF AnswersInv, EngineOK
<1>2. CASE CollectorBegins
  <2>1. SceneOK' /\ BankOK'
    BY <1>1, <1>2, BankSame DEF CollectorBegins, SceneOK, Producers
  <2>2. QED BY <1>1, <1>2, <2>1, BankMoves DEF CollectorBegins, workerVars
<1>3. ASSUME NEW q \in scene.asked, Capture(q) \/ Probe(q)
      PROVE  AnswersInv'
  <2>1. /\ q \in Questions /\ scene.shown[q] \in Sources \union {None} /\ scene.revealed[q] \in Sources \union {None}
        /\ "hidden" \in Sources \union {None}
    BY <1>1, SceneFields DEF Sources
  <2>2. BankOK'
    <3>1. CASE Capture(q)
      BY <1>1, <2>1, <3>1, SaveStep DEF Capture
    <3>2. CASE Probe(q) /\ Ready(q)
      BY <1>1, <2>1, <3>2, TellStep DEF Probe
    <3>3. CASE Probe(q) /\ ~Ready(q)
      <4>1. PICK source \in {"hidden", scene.revealed[q]} : Save(q, source) /\ UNCHANGED told
        BY <3>3 DEF Probe
      <4>2. source \in Sources \union {None} /\ UNCHANGED <<legacy, told>>
        BY <2>1, <3>3, <4>1 DEF Probe
      <4>3. QED BY <1>1, <2>1, <4>1, <4>2, SaveStep
    <3>4. QED BY <1>3, <3>1, <3>2, <3>3
  <2>3. PICK how \in {"saved", "captured", "missing"} : capture' = [capture EXCEPT ![q] = how]
    BY <1>3 DEF Capture, Probe
  <2>4. SceneOK'
    BY <1>1, <1>3, <2>3 DEF SceneOK, Capture, Probe
  <2>5. QED BY <1>1, <1>3, <2>2, <2>4, BankMoves DEF Capture, Probe, workerVars
<1>4. CASE CollectorEnds
  <2>1. PICK s \in {"partial", "done", "blocked", "waiting_account"} : collector' = [status |-> s, at |-> "wake"]
    BY <1>4 DEF CollectorEnds
  <2>2. SceneOK' /\ BankOK'
    BY <1>1, <1>4, <2>1, BankSame DEF CollectorEnds, SceneOK, Producers, Ended
  <2>3. QED BY <1>1, <1>4, <2>2, BankMoves DEF CollectorEnds, workerVars
<1>5. CASE CollectorLeaves
  <2>1. SceneOK' /\ BankOK'
    BY <1>1, <1>5, BankSame DEF CollectorLeaves, SceneOK
  <2>2. QED BY <1>1, <1>5, <2>1, WokenStays, BankMoves DEF CollectorLeaves
<1>6. QED BY <1>2, <1>3, <1>4, <1>5 DEF Collect

LEMMA OthersKeep ==
  ASSUME AnswersInv, Others
  PROVE  AnswersInv'
<1>1. BankOK /\ SceneOK /\ EngineOK /\ wakes \in 0 .. WakeCap /\ UNCHANGED <<workerVars, collector, capture>>
  BY DEF AnswersInv, EngineOK, Others
<1>2. PICK source \in scene.others : Observe(source) /\ scene' = [scene EXCEPT !.others = @ \ {source}]
  BY DEF Others
<1>3. BankOK'
  BY <1>1, <1>2, SceneFields, ObserveStep
<1>4. scene' \in Scene /\ scene'.asked = scene.asked
  BY <1>1, <1>2 DEF SceneOK, Scene
<1>5. SceneOK'
  BY <1>1, <1>4 DEF SceneOK
<1>6. QED BY <1>1, <1>3, <1>4, <1>5, BankMoves DEF workerVars

LEMMA DeliverKeeps ==
  ASSUME AnswersInv, Deliver
  PROVE  AnswersInv'
<1>1. /\ BankOK /\ SceneOK /\ EngineOK /\ UNCHANGED <<bank, legacy, told, scene, collector, capture>>
      /\ events > 0 /\ events' = events - 1
  BY DEF AnswersInv, Deliver, others
<1>2. events' \in Nat
  <2>1. events \in Nat
    BY <1>1 DEF BankOK, BankType
  <2>2. QED BY <1>1, <2>1
<1>3. BankOK' /\ SceneOK'
  BY <1>1, <1>2 DEF BankOK, BankType, ToldInv, SceneOK
<1>4. QED BY <1>1, <1>3, WokenStays, BankMoves DEF Deliver

LEMMA PauseKeeps ==
  ASSUME AnswersInv, Pause \/ Cancel
  PROVE  AnswersInv'
<1>1. /\ EngineOK /\ CallsOK /\ PipesOK
      /\ UNCHANGED <<bankVars, scene, collector, capture, platform, wakes, ghost, calls, toChild, toHost,
                     child, entry, results>>
  BY DEF AnswersInv, Pause, Cancel, others
<1>2. /\ host' \in Host /\ host'.result = host.result /\ host'.attempt = host.attempt /\ host'.pc = host.pc
  BY <1>1, HostFields DEF Pause, Cancel, Host
<1>3. module' \in {module, "paused"}
  BY DEF Pause, Cancel
<1>4. EngineOK' /\ CallsOK' /\ PipesOK'
  BY <1>1, <1>2, <1>3, CallsGoOn DEF EngineOK, Modules, PipesOK
<1>5. ChildOK' /\ ItemInv' /\ child'.seen = child.seen
  BY <1>1, WorkerSame
<1>6. Says' => Says
  BY <1>1, <1>2, <1>3 DEF Says
<1>7. QED BY <1>1, <1>4, <1>5, <1>6, PartsKeep

-----------------------------------------------------------------------------
(* Every state.                                                             *)

LEMMA InitHolds ==
  ASSUME Init
  PROVE  AnswersInv
<1>1. scene \in Scene
  BY ScenesAssumption DEF Init
<1>2. /\ scene.asked \subseteq Questions /\ scene.legacy \in [Questions -> Answers \union {None}]
      /\ scene.platform \in [Questions -> Held]
  BY <1>1 DEF Scene
<1>3. BankOK
  <2>1. /\ bank = [q \in Questions |-> Row("missing", None)] /\ legacy = scene.legacy /\ events = 0
        /\ told = [q \in Questions |-> {}]
    BY DEF Init, BankInit
  <2>2. Row("missing", None) \in BankRow /\ Row("missing", None).status = "missing"
    BY DEF Row, BankRow, Statuses
  <2>3. BankType
    BY <1>2, <2>1, <2>2 DEF BankType, BankRow
  <2>4. ToldInv
    BY <2>1, <2>2 DEF ToldInv
  <2>5. QED BY <2>3, <2>4 DEF BankOK
<1>4. SceneOK
  BY <1>1 DEF Init, SceneOK, Producers
<1>5. /\ platform = scene.platform /\ module = "queued" /\ wakes = 0 /\ ghost = FALSE /\ calls = {}
      /\ toChild = <<>> /\ toHost = <<>> /\ entry = NoEntry /\ results = NoItem
      /\ host = [pc |-> "begin", attempt |-> 0, ctx |-> FALSE, cut |-> FALSE, warned |-> FALSE, failure |-> None, result |-> None]
  BY DEF Init, WorkerInit
<1>6. host \in Host /\ host.result = None
  BY <1>5 DEF Host, None
<1>7. EngineOK
  <2>1. wakes \in 0 .. WakeCap
    BY <1>5, WorkerAssumption
  <2>2. QED BY <1>2, <1>5, <1>6, <2>1 DEF EngineOK, Modules
<1>8. CallsOK /\ PipesOK
  BY <1>5 DEF CallsOK, NoStrayCalls, PipesOK
<1> DEFINE seen == Course(scene.asked, scene.platform, scene.unread)
<1>9. /\ seen \in [scene.asked -> Shown] /\ "clean" \in Pcs
      /\ \A q \in scene.asked : seen[q] \notin {"open", "unread"} => scene.platform[q] = seen[q]
  BY <1>2 DEF Pcs, Gone, Course, Shown
<1>10. child \in ProcessState /\ child.pc = "clean" /\ child.seen = seen
  <2>1. child = [Started(seen) EXCEPT !.pc = "clean"]
    BY DEF Init, WorkerInit
  <2> HIDE DEF seen
  <2>2. QED BY <1>9, <2>1, StartedFields
<1> HIDE DEF seen
<1>11. ChildOK
  BY <1>5, <1>10, Nothing DEF ChildOK
<1>12. SeenInv
  BY <1>5, <1>9, <1>10 DEF SeenInv, Asked
<1>13. ItemInv
  <2>1. \A q \in Asked : results[q] = None
    BY <1>2, <1>5, <1>9, <1>10 DEF Asked, NoItem
  <2>2. QED BY <1>10, <2>1 DEF ItemInv, None
<1>14. SayInv
  BY <1>5, <1>6, DoneInPipe, <1>8 DEF SayInv, Says, None, PipesOK
<1> HIDE DEF BankOK, SceneOK, EngineOK, CallsOK, PipesOK, ChildOK, SeenInv, ItemInv, SayInv
<1>15. QED BY <1>3, <1>4, <1>7, <1>8, <1>11, <1>12, <1>13, <1>14 DEF AnswersInv

LEMMA StutterKeeps ==
  ASSUME AnswersInv, UNCHANGED vars
  PROVE  AnswersInv'
<1>1. /\ UNCHANGED <<bankVars, scene, collector, capture, platform, module, host, wakes, ghost, calls,
                     toChild, toHost, child, entry, results>>
  BY DEF vars, workerVars
<1>2. BankOK' /\ SceneOK'
  BY <1>1, BankSame DEF AnswersInv, SceneOK
<1>3. wakes' \in 0 .. WakeCap
  BY <1>1 DEF AnswersInv, EngineOK
<1>4. QED BY <1>1, <1>2, <1>3, BankMoves

LEMMA NextKeeps ==
  ASSUME AnswersInv, [Next]_vars
  PROVE  AnswersInv'
<1>1. CASE Handle
  <2>1. PICK h \in calls : Execute(h, collector.status, host.cut \/ scene.faults) /\ UNCHANGED others
    BY <1>1 DEF Handle
  <2>2. (host.cut \/ scene.faults) \in BOOLEAN
    OBVIOUS
  <2>3. QED BY <2>1, <2>2, HandleKeeps
<1>2. CASE UNCHANGED vars
  BY <1>2, StutterKeeps
<1>3. QED BY <1>1, <1>2, LauncherKeeps, ProcessKeeps, FaultKeeps, CollectKeeps, OthersKeep, DeliverKeeps,
             PauseKeeps DEF Next

\* In every state the bank and the engine are as AnswersInv says: what was
\* told is final, what the worker saw is so still, calls are those of the run,
\* and "done" is said only of questions the platform holds for good.
THEOREM AnswersInductive == Spec => []AnswersInv
<1>1. Init => AnswersInv
  BY InitHolds
<1>2. AnswersInv /\ [Next]_vars => AnswersInv'
  BY NextKeeps
<1>3. QED BY <1>1, <1>2, PTL DEF Spec

\* Every variable has its type, whatever the scenes: the wakes never exceed
\* the channel, the statuses are those of the code.
THEOREM TypeCorrect == Spec => []TypeOK
<1>1. AnswersInv => TypeOK
  <2> SUFFICES ASSUME AnswersInv PROVE TypeOK
    OBVIOUS
  <2>1. BankType /\ SceneOK /\ EngineOK /\ calls \subseteq Calls /\ ChildOK
    BY DEF AnswersInv, BankOK, CallsOK
  <2>2. /\ host.pc \in {"begin", "run", "drain", "judge", "requeue", "out"} /\ host.attempt \in {0, 1}
        /\ child.pc \in Pcs
    BY <2>1, HostFields, ChildFields
  <2>3. WorkerType
    BY <2>1, <2>2 DEF WorkerType, EngineOK, Modules, Calls, ChildOK, Pcs, Entries, Items
  <2>4. QED BY <2>1, <2>3 DEF TypeOK, SceneOK, Producers
<1>2. QED BY <1>1, AnswersInductive, PTL

\* Nobody is told two answers to a question (Bank.Lookup, persistBatchAnswer):
\* an answer that was told is the one that the row keeps, even in conflict.
THEOREM OneAnswerToldTheorem == Spec => []OneAnswerTold
<1>1. AnswersInv => OneAnswerTold
  <2> SUFFICES ASSUME AnswersInv, NEW q \in Questions PROVE Cardinality(told[q]) <= 1
    BY DEF OneAnswerTold
  <2>1. \A x, y \in told[q] : x = y
    BY DEF AnswersInv, BankOK, ToldInv
  <2>2. CASE told[q] = {}
    BY <2>2, FS_EmptySet
  <2>3. CASE told[q] # {}
    <3>1. PICK x : x \in told[q]
      BY <2>3
    <3>2. told[q] = {x}
      BY <2>1, <3>1
    <3>3. Cardinality({x}) = 1
      BY FS_Singleton
    <3>4. QED BY <3>2, <3>3
  <2>4. QED BY <2>2, <2>3
<1>2. QED BY <1>1, AnswersInductive, PTL

\* A call acts only during the run of its worker (process/worker.go, wg.Wait):
\* for any number of questions, wakes and failures.
THEOREM NoStrayCallsTheorem == Spec => []NoStrayCalls
<1>1. AnswersInv => NoStrayCalls
  BY DEF AnswersInv, CallsOK
<1>2. QED BY <1>1, AnswersInductive, PTL

\* Homework is recorded as done only when the platform holds every answer for
\* good (learning/homework.go, the final look), whatever submissions reported.
THEOREM DoneIsConfirmedTheorem == Spec => []DoneIsConfirmed
<1>1. AnswersInv => DoneIsConfirmed
  BY DEF AnswersInv, SayInv, Says, AllGood, Good, DoneIsConfirmed
<1>2. QED BY <1>1, AnswersInductive, PTL

=============================================================================
