---------------------------- MODULE EngineProofs ----------------------------
(***************************************************************************)
(* Proofs about the engine, for any jobs, users, kinds of modules, limits  *)
(* and numbers of requests, account changes, crashes and restarts: what it *)
(* promises about slots, about held modules and about running ones.        *)
(***************************************************************************)
EXTENDS Engine, FiniteSetTheorems, TLAPS

-----------------------------------------------------------------------------
(* Types, and what a step writes.                                           *)

Row == [status: ModuleStatuses, gen: Nat, restarts: 0 .. 1]
Table == [Jobs -> [Kinds -> Row]]

\* A preparation that blocks modules knows why, a worker that ends has a result.
Stage == {p \in PrepState : p.pc = "block" => p.verdict # "none"}
Work == {a \in ActorState : a.pc = "finish" => a.result # "none"}
Preps == [Jobs -> Stage]
Actors == [Jobs -> [Kinds -> Work]]

Steps == {"none", "cancel", "suspend", "revoke", "collectors", "homework", "jobs"}
NewsState == [step: Steps, owner: Owners \union {"none"}, stale: BOOLEAN, changed: SUBSET Jobs]
AllNews == [Changes -> NewsState]

LEMMA Constants ==
  /\ OwnerOf \in [Jobs -> Owners]
  /\ "homework" \in Kinds /\ "collector" \in Kinds /\ Media \subseteq Kinds
  /\ Starts \subseteq SUBSET Kinds /\ Scopes \subseteq Kinds \union {"all"}
  /\ GlobalLimit \in Nat /\ UserLimit \in Nat
  /\ "all" \notin Kinds
BY EngineAssumption DEF Kinds

\* A row gets another status.
LEMMA RowStatus ==
  ASSUME mod \in Table, NEW j \in Jobs, NEW k \in Kinds, NEW status \in ModuleStatuses,
         mod' = [mod EXCEPT ![j][k].status = status]
  PROVE  /\ mod' \in Table
         /\ \A i \in Jobs, h \in Kinds : ~(i = j /\ h = k) => mod'[i][h] = mod[i][h]
         /\ mod'[j][k].status = status /\ mod'[j][k].gen = mod[j][k].gen
         /\ mod'[j][k].restarts = mod[j][k].restarts
<1>1. mod'[j][k] = [mod[j][k] EXCEPT !.status = status]
  BY DEF Table
<1>2. mod[j][k] \in Row
  BY DEF Table
<1>3. QED BY <1>1, <1>2 DEF Table, Row

Raised(row, status) == [row EXCEPT !.status = status, !.gen = @ + 1]

LEMMA RowRaised ==
  ASSUME NEW row \in Row, NEW status \in ModuleStatuses
  PROVE  /\ Raised(row, status) \in Row /\ Raised(row, status).status = status
         /\ Raised(row, status).gen = row.gen + 1 /\ Raised(row, status).restarts = row.restarts
<1> DEFINE one == [row EXCEPT !.status = status]
           two == [one EXCEPT !.gen = @ + 1]
<1>1. one \in Row /\ one.status = status /\ one.gen = row.gen /\ one.restarts = row.restarts
  BY DEF Row
<1>2. two = Raised(row, status)
  BY DEF Raised
<1> HIDE DEF one
<1>3. two \in Row /\ two.status = one.status /\ two.gen = one.gen + 1 /\ two.restarts = one.restarts
  BY <1>1 DEF Row
<1>4. QED BY <1>1, <1>2, <1>3

LEMMA Rows ==
  ASSUME NEW rows, NEW status \in ModuleStatuses, mod \in Table
  PROVE  /\ Moved(rows, status) \in Table
         /\ \A j \in Jobs, k \in Kinds :
              LET new == Moved(rows, status)[j][k] IN
              IF k \in rows[j]
                THEN /\ new.status = status /\ new.gen = mod[j][k].gen + 1
                     /\ new.restarts = mod[j][k].restarts
                ELSE new = mod[j][k]
<1>1. ASSUME NEW j \in Jobs, NEW k \in Kinds
      PROVE  LET new == Moved(rows, status)[j][k] IN
             /\ new \in Row
             /\ IF k \in rows[j]
                THEN /\ new.status = status /\ new.gen = mod[j][k].gen + 1
                     /\ new.restarts = mod[j][k].restarts
                ELSE new = mod[j][k]
  <2>1. mod[j][k] \in Row
    BY DEF Table
  <2>2. CASE k \in rows[j]
    <3>1. Moved(rows, status)[j][k] = Raised(mod[j][k], status)
      BY <2>2 DEF Moved, Raised
    <3>2. QED BY <2>1, <2>2, <3>1, RowRaised
  <2>3. CASE k \notin rows[j]
    BY <2>1, <2>3 DEF Moved
  <2>4. QED BY <2>2, <2>3
<1>2. Moved(rows, status) \in Table
  BY <1>1 DEF Moved, Table
<1>3. QED BY <1>1, <1>2

LEMMA ActorStep ==
  ASSUME actor \in Actors, NEW j \in Jobs, NEW k \in Kinds, NEW next \in Work,
         actor' = [actor EXCEPT ![j][k] = next]
  PROVE  /\ actor' \in Actors /\ actor'[j][k] = next
         /\ \A i \in Jobs, h \in Kinds : ~(i = j /\ h = k) => actor'[i][h] = actor[i][h]
BY DEF Actors

LEMMA PrepStep ==
  ASSUME prep \in Preps, NEW j \in Jobs, NEW next \in Stage, prep' = [prep EXCEPT ![j] = next]
  PROVE  prep' \in Preps /\ prep'[j] = next /\ \A i \in Jobs \ {j} : prep'[i] = prep[i]
BY DEF Preps

-----------------------------------------------------------------------------
(* Types.                                                                   *)

Counts == [Jobs -> Nat]
Orders == [Jobs -> [Scopes -> Nat]]
Spending == [{"requests", "changes", "crashes", "stops"} -> Nat]

Typed ==
  /\ job \in [Jobs -> JobStatuses] /\ mod \in Table /\ lacks \in [Jobs -> BOOLEAN]
  /\ primary \in [Owners -> BOOLEAN] /\ helper \in BOOLEAN
  /\ up \in {"off", "on", "closing"}
  /\ slots \subseteq Jobs /\ last \in Owners \union {"none"} /\ found \subseteq Jobs
  /\ prep \in Preps /\ actor \in Actors
  /\ order \in Orders /\ news \in AllNews
  /\ settling \in Counts /\ tallying \in Counts /\ spent \in Spending

LEMMA TypeInit == Init => Typed
<1> SUFFICES ASSUME Init PROVE Typed
  OBVIOUS
<1> USE DEF Init
<1>1. job \in [Jobs -> JobStatuses]
  BY DEF JobStatuses, Active
<1>2. mod \in Table
  BY DEF Table, Row, ModuleStatuses
<1>3. Unknown \subseteq BOOLEAN
  BY DEF Unknown
<1>4. prep \in Preps
  BY DEF Preps, Stage, PrepState, NoPrep, Places
<1>5. actor \in Actors
  BY DEF Actors, Work, ActorState, NoActor
<1>6. news \in AllNews /\ order \in Orders
  BY DEF AllNews, NewsState, Steps, NoNews, Orders
<1>7. settling \in Counts /\ tallying \in Counts
  BY DEF Counts
<1>8. spent \in Spending
  BY DEF Spending
<1>9. lacks \in [Jobs -> BOOLEAN] /\ helper \in BOOLEAN
  BY <1>3
<1>10. primary \in [Owners -> BOOLEAN] /\ up \in {"off", "on", "closing"} /\ slots \subseteq Jobs
       /\ last \in Owners \union {"none"} /\ found \subseteq Jobs
  OBVIOUS
<1>11. QED BY <1>1, <1>2, <1>4, <1>5, <1>6, <1>7, <1>8, <1>9, <1>10 DEF Typed

LEMMA SpendStep ==
  ASSUME spent \in Spending, NEW what \in {"requests", "changes", "crashes", "stops"}, NEW bound, Spend(what, bound)
  PROVE  spent' \in Spending
BY DEF Spending, Spend

LEMMA CountStep ==
  ASSUME NEW count \in Counts, NEW j \in Jobs
  PROVE  /\ [count EXCEPT ![j] = @ + 1] \in Counts
         /\ count[j] > 0 => [count EXCEPT ![j] = @ - 1] \in Counts
BY DEF Counts

\* One order more, or one less.
LEMMA OrderMore ==
  ASSUME order \in Orders, NEW j \in Jobs, NEW scope \in Scopes, order' = [order EXCEPT ![j][scope] = @ + 1]
  PROVE  /\ order' \in Orders /\ order'[j][scope] > order[j][scope]
         /\ \A i \in Jobs, other \in Scopes : ~(i = j /\ other = scope) => order'[i][other] = order[i][other]
<1> DEFINE n == order[j][scope] + 1
<1>1. n \in Nat /\ n > order[j][scope]
  BY DEF Orders
<1>2. order' = [order EXCEPT ![j][scope] = n]
  OBVIOUS
<1> HIDE DEF n
<1>3. /\ order' \in Orders /\ order'[j][scope] = n
      /\ \A i \in Jobs, other \in Scopes : ~(i = j /\ other = scope) => order'[i][other] = order[i][other]
  BY <1>1, <1>2 DEF Orders
<1>4. QED BY <1>1, <1>3

LEMMA OrderLess ==
  ASSUME order \in Orders, NEW j \in Jobs, NEW scope \in Scopes, order' = [order EXCEPT ![j][scope] = @ - 1],
         order[j][scope] > 0
  PROVE  /\ order' \in Orders /\ order'[j][scope] < order[j][scope]
         /\ \A i \in Jobs, other \in Scopes : ~(i = j /\ other = scope) => order'[i][other] = order[i][other]
<1> DEFINE n == order[j][scope] - 1
<1>1. n \in Nat /\ n < order[j][scope]
  BY DEF Orders
<1>2. order' = [order EXCEPT ![j][scope] = n]
  OBVIOUS
<1> HIDE DEF n
<1>3. /\ order' \in Orders /\ order'[j][scope] = n
      /\ \A i \in Jobs, other \in Scopes : ~(i = j /\ other = scope) => order'[i][other] = order[i][other]
  BY <1>1, <1>2 DEF Orders
<1>4. QED BY <1>1, <1>3

\* A report of a module that is not fenced.
LEMMA ModuleStep ==
  ASSUME mod \in Table, NEW j \in Jobs, NEW k \in Kinds, NEW status \in ModuleStatuses, Module(j, k, status)
  PROVE  /\ mod' \in Table
         /\ \A i \in Jobs, h \in Kinds : mod'[i][h].gen = mod[i][h].gen /\ mod'[i][h].restarts = mod[i][h].restarts
         /\ \A i \in Jobs, h \in Kinds :
              \/ mod'[i][h].status = mod[i][h].status
              \/ /\ i = j /\ h = k /\ mod'[j][k].status = status
                 /\ job[j] = "running" /\ mod[j][k].status \notin Held \union {"done"}
<1>1. CASE job[j] = "running" /\ mod[j][k].status \notin Held \union {"done"}
  <2>1. mod' = [mod EXCEPT ![j][k].status = status]
    BY <1>1 DEF Module
  <2>2. /\ mod' \in Table
        /\ \A i \in Jobs, h \in Kinds : ~(i = j /\ h = k) => mod'[i][h] = mod[i][h]
        /\ mod'[j][k].status = status /\ mod'[j][k].gen = mod[j][k].gen
        /\ mod'[j][k].restarts = mod[j][k].restarts
    BY <2>1, RowStatus
  <2>3. QED BY <1>1, <2>2
<1>2. CASE ~(job[j] = "running" /\ mod[j][k].status \notin Held \union {"done"})
  <2>1. mod' = mod
    BY <1>2 DEF Module
  <2>2. QED BY <2>1
<1>3. QED BY <1>1, <1>2

\* Contexts that are cancelled.
LEMMA KilledPrep ==
  ASSUME NEW p \in Stage
  PROVE  Killed(p) \in Stage /\ Killed(p).pc = p.pc
BY DEF Killed, Stage, PrepState

LEMMA KilledActor ==
  ASSUME NEW a \in Work
  PROVE  /\ Killed(a) \in Work /\ Killed(a).pc = a.pc /\ Killed(a).gen = a.gen
         /\ Killed(a).again = a.again /\ Killed(a).result = a.result
         /\ a.pc # "none" => Killed(a).dead
         /\ a.dead => Killed(a).dead
BY DEF Killed, Work, ActorState

LEMMA UserTypes ==
  ASSUME Typed, NEW j \in Jobs, User(j)
  PROVE  Typed'
<1> USE DEF Typed
<1>1. ASSUME NEW kinds \in Starts, Start(j, kinds) PROVE Typed'
  <2>1. job' \in [Jobs -> JobStatuses]
    BY <1>1 DEF Start, JobStatuses, Active
  <2>2. mod' \in Table
    <3>1. \A k \in Kinds : [mod[j][k] EXCEPT !.status = "queued"] \in Row
      <4>1. \A row \in Row : [row EXCEPT !.status = "queued"] \in Row
        BY DEF Row, ModuleStatuses
      <4>2. QED BY <4>1 DEF Table
    <3>2. QED BY <1>1, <3>1 DEF Start, Table
  <2>3. spent' \in Spending
    BY <1>1, SpendStep DEF Start
  <2>4. QED BY <1>1, <2>1, <2>2, <2>3 DEF Start, accounts, memory
<1>2. ASSUME NEW status \in Held \union {"queued"}, NEW scope \in Scopes, Control(j, status, scope) PROVE Typed'
  <2>1. job' \in [Jobs -> JobStatuses]
    BY <1>2 DEF Control, JobStatuses, Active, Held
  <2>2. mod' \in Table
    <3>1. status \in ModuleStatuses
      BY DEF Held, ModuleStatuses
    <3>2. QED BY <1>2, <3>1, Rows DEF Control
  <2>3. order' \in Orders
    BY <1>2, OrderMore DEF Control
  <2>4. spent' \in Spending
    BY <1>2, SpendStep DEF Control
  <2>5. QED BY <1>2, <2>1, <2>2, <2>3, <2>4 DEF Control, accounts
<1>3. QED BY <1>1, <1>2 DEF User

LEMMA CancelTypes ==
  ASSUME Typed, NEW j \in Jobs, NEW scope \in Scopes, Cancel(j, scope)
  PROVE  Typed'
<1> USE DEF Typed
<1>1. order' \in Orders
  BY OrderLess DEF Cancel
<1>2. prep' \in Preps
  BY KilledPrep DEF Cancel, Preps
<1>3. actor' \in Actors
  BY KilledActor DEF Cancel, Actors
<1>4. QED BY <1>1, <1>2, <1>3 DEF Cancel, database, accounts

LEMMA ClaimTypes ==
  ASSUME Typed, NEW j \in Jobs, Claim(j)
  PROVE  Typed'
<1> USE DEF Typed
<1>1. prep' \in Preps
  BY DEF Claim, Preps, Stage, PrepState, NoPrep, Places
<1>2. slots' \subseteq Jobs /\ last' \in Owners \union {"none"} /\ found' \subseteq Jobs
  BY Constants DEF Claim
<1>3. QED BY <1>1, <1>2 DEF Claim, database, accounts

LEMMA QueryTypes ==
  ASSUME Typed, Query
  PROVE  Typed'
BY DEF Typed, Query, database, accounts

\* A preparation goes on with another place.
LEMMA GotoStep ==
  ASSUME prep \in Preps, NEW j \in Jobs, NEW place \in Places \ {"block"}, Goto(j, place)
  PROVE  prep' \in Preps
<1>1. prep[j] \in Stage
  BY DEF Preps
<1>2. [prep[j] EXCEPT !.pc = place] \in Stage
  BY <1>1 DEF Stage, PrepState
<1>3. prep' = [prep EXCEPT ![j] = [prep[j] EXCEPT !.pc = place]]
  BY DEF Goto, Preps
<1>4. QED BY <1>2, <1>3, PrepStep

LEMMA GiveUpStep ==
  ASSUME prep \in Preps, NEW j \in Jobs, GiveUp(j)
  PROVE  prep' \in Preps
<1>1. CASE prep[j].dead
  BY <1>1, GotoStep DEF GiveUp, Places
<1>2. CASE ~prep[j].dead
  <2>1. PICK verdict \in {"blocked", "waiting_account"} :
          prep' = [prep EXCEPT ![j].pc = "block", ![j].verdict = verdict, ![j].left = prep[j].todo]
    BY <1>2 DEF GiveUp
  <2>2. prep' = [prep EXCEPT ![j] = [prep[j] EXCEPT !.pc = "block", !.verdict = verdict, !.left = prep[j].todo]]
    BY <2>1 DEF Preps
  <2>3. [prep[j] EXCEPT !.pc = "block", !.verdict = verdict, !.left = prep[j].todo] \in Stage
    BY DEF Preps, Stage, PrepState, Places
  <2>4. QED BY <2>2, <2>3 DEF Preps
<1>3. QED BY <1>1, <1>2

LEMMA LaunchStep ==
  ASSUME actor \in Actors, NEW j \in Jobs, NEW k \in Kinds, Launch(j, k)
  PROVE  /\ actor' \in Actors
         /\ \A i \in Jobs, h \in Kinds :
              \/ actor'[i][h] = actor[i][h]
              \/ i = j /\ h = k /\ actor[j][k].pc = "none" /\ actor'[j][k].pc = "begin"
<1>1. CASE actor[j][k].pc # "none"
  BY <1>1 DEF Launch
<1>2. CASE actor[j][k].pc = "none"
  <2> DEFINE next == [NoActor EXCEPT !.pc = "begin", !.dead = up # "on"]
  <2>1. next \in Work /\ next.pc = "begin"
    BY DEF Work, ActorState, NoActor
  <2>2. actor' = [actor EXCEPT ![j][k] = next]
    BY <1>2 DEF Launch
  <2> HIDE DEF next
  <2>3. /\ actor' \in Actors /\ actor'[j][k] = next
        /\ \A i \in Jobs, h \in Kinds : ~(i = j /\ h = k) => actor'[i][h] = actor[i][h]
    BY <2>1, <2>2 DEF Actors
  <2>4. QED BY <1>2, <2>1, <2>3
<1>3. QED BY <1>1, <1>2

LEMMA PreparationTypes ==
  ASSUME Typed, NEW j \in Jobs, Preparation(j)
  PROVE  Typed'
<1> USE DEF Typed
<1>1. CASE MarkRunning(j)
  <2>1. prep' \in Preps
    BY <1>1, GotoStep DEF MarkRunning, Places
  <2>2. job' \in [Jobs -> JobStatuses]
    BY <1>1 DEF MarkRunning, JobStatuses, Active
  <2>3. QED BY <1>1, <2>1, <2>2 DEF MarkRunning, prepUnchanged, accounts
<1>2. CASE Get(j)
  <2>1. prep' \in Preps
    <3>1. CASE prep[j].dead
      BY <1>2, <3>1, GotoStep DEF Get, Places
    <3>2. CASE ~prep[j].dead
      <4> DEFINE todo == {k \in Kinds : mod[j][k].status = "queued"}
                 left == todo \intersect Media
                 listed == mod[j]["collector"].status # "absent"
      <4>1. todo \subseteq Kinds /\ left \subseteq Kinds /\ listed \in BOOLEAN /\ prep[j] \in Stage
        BY DEF Preps
      <4>2. prep' = [prep EXCEPT ![j].pc = "discover", ![j].todo = todo, ![j].left = left, ![j].listed = listed]
        BY <1>2, <3>2 DEF Get
      <4>3. prep' = [prep EXCEPT ![j] =
                       [prep[j] EXCEPT !.pc = "discover", !.todo = todo, !.left = left, !.listed = listed]]
        BY <4>2 DEF Preps
      <4> HIDE DEF todo, left, listed
      <4>4. [prep[j] EXCEPT !.pc = "discover", !.todo = todo, !.left = left, !.listed = listed] \in Stage
        BY <4>1 DEF Stage, PrepState, Places
      <4>5. QED BY <4>3, <4>4, PrepStep
    <3>3. QED BY <3>1, <3>2
  <2>2. QED BY <1>2, <2>1 DEF Get, prepUnchanged, accounts
<1>3. CASE Discover(j)
  <2>1. prep' \in Preps
    BY <1>3, GotoStep, GiveUpStep DEF Discover, Places
  <2>2. QED BY <1>3, <2>1 DEF Discover, prepUnchanged, accounts
<1>4. CASE LaunchMedia(j)
  <2>1. prep' \in Preps /\ actor' \in Actors /\ mod' \in Table
    <3>1. ASSUME NEW k \in prep[j].left, prep' = [prep EXCEPT ![j].left = @ \ {k}],
                 \/ Launch(j, k) /\ UNCHANGED mod
                 \/ ~prep[j].dead /\ Module(j, k, "blocked") /\ UNCHANGED actor
          PROVE  prep' \in Preps /\ actor' \in Actors /\ mod' \in Table
      <4>1. k \in Kinds /\ "blocked" \in ModuleStatuses
        BY <3>1 DEF Preps, Stage, PrepState, ModuleStatuses, Results
      <4>2. prep' \in Preps
        BY <3>1 DEF Preps, Stage, PrepState
      <4>3. CASE Launch(j, k) /\ UNCHANGED mod
        BY <4>1, <4>2, <4>3, LaunchStep
      <4>4. CASE Module(j, k, "blocked") /\ UNCHANGED actor
        BY <4>1, <4>2, <4>4, ModuleStep
      <4>5. QED BY <3>1, <4>3, <4>4
    <3>2. ASSUME Goto(j, IF prep[j].todo \subseteq Media THEN "leave" ELSE "exercises"), UNCHANGED <<mod, actor>>
          PROVE  prep' \in Preps /\ actor' \in Actors /\ mod' \in Table
      <4>1. (IF prep[j].todo \subseteq Media THEN "leave" ELSE "exercises") \in Places
        BY DEF Places
      <4>2. QED BY <3>2, <4>1, GotoStep
    <3>3. QED BY <1>4, <3>1, <3>2 DEF LaunchMedia
  <2>2. QED BY <1>4, <2>1 DEF LaunchMedia, prepUnchanged, accounts
<1>5. CASE Exercises(j)
  <2>1. prep' \in Preps
    <3>1. CASE prep[j].dead \/ ~primary[OwnerOf[j]]
      BY <1>5, <3>1, GiveUpStep DEF Exercises
    <3>2. CASE ~(prep[j].dead \/ ~primary[OwnerOf[j]])
      <4>1. \E place \in {"homework", "helper", "collector"} : Goto(j, place)
        BY <1>5, <3>2 DEF Exercises
      <4>2. QED BY <4>1, GotoStep DEF Places
    <3>3. QED BY <3>1, <3>2
  <2>2. QED BY <1>5, <2>1 DEF Exercises, prepUnchanged, accounts
<1>6. CASE AddCollector(j)
  <2>1. prep' \in Preps
    BY <1>6, GotoStep DEF AddCollector, Places
  <2>2. mod' \in Table
    BY <1>6, ModuleStep, Constants DEF AddCollector, ModuleStatuses
  <2>3. QED BY <1>6, <2>1, <2>2 DEF AddCollector, prepUnchanged, accounts
<1>7. CASE FindHelper(j)
  <2>1. prep' \in Preps
    BY <1>7, GotoStep DEF FindHelper, Places
  <2>2. mod' \in Table /\ actor' \in Actors
    <3>1. ASSUME NEW status \in {"waiting_account", "blocked", "waiting_enrollment"}, Module(j, "collector", status)
          PROVE  mod' \in Table
      BY <3>1, ModuleStep, Constants DEF ModuleStatuses, Waiting, Results
    <3>2. ASSUME Launch(j, "collector") PROVE actor' \in Actors
      BY <3>2, LaunchStep, Constants
    <3>3. QED BY <1>7, <3>1, <3>2 DEF FindHelper
  <2>3. QED BY <1>7, <2>1, <2>2 DEF FindHelper, prepUnchanged, accounts
<1>8. CASE LaunchHomework(j)
  <2>1. prep' \in Preps
    BY <1>8, GotoStep DEF LaunchHomework, Places
  <2>2. actor' \in Actors
    BY <1>8, LaunchStep, Constants DEF LaunchHomework
  <2>3. QED BY <1>8, <2>1, <2>2 DEF LaunchHomework, prepUnchanged, accounts
<1>9. CASE Block(j)
  <2>1. prep[j] \in Stage /\ At(j, "block") /\ prep[j].verdict \in ModuleStatuses
    BY <1>9 DEF Block, At, Preps, Stage, PrepState, ModuleStatuses, Results
  <2>2. prep' \in Preps /\ mod' \in Table
    <3>1. ASSUME NEW k \in prep[j].left, IF prep[j].dead THEN UNCHANGED mod ELSE Module(j, k, prep[j].verdict),
                 prep' = [prep EXCEPT ![j].left = @ \ {k}]
          PROVE  prep' \in Preps /\ mod' \in Table
      <4>1. k \in Kinds
        BY <3>1, <2>1 DEF Stage, PrepState
      <4>2. prep' \in Preps
        BY <3>1 DEF Preps, Stage, PrepState
      <4>3. mod' \in Table
        BY <2>1, <3>1, <4>1, ModuleStep
      <4>4. QED BY <4>2, <4>3
    <3>2. ASSUME Goto(j, "leave"), UNCHANGED mod PROVE prep' \in Preps /\ mod' \in Table
      BY <3>2, GotoStep DEF Places
    <3>3. QED BY <1>9, <3>1, <3>2 DEF Block
  <2>3. QED BY <1>9, <2>2 DEF Block, prepUnchanged, accounts
<1>10. CASE EndPrepare(j)
  <2>1. prep' \in Preps
    BY <1>10 DEF EndPrepare, Preps, Stage, PrepState, NoPrep, Places
  <2>2. settling' \in Counts
    BY <1>10, CountStep DEF EndPrepare
  <2>3. QED BY <1>10, <2>1, <2>2 DEF EndPrepare, database, accounts
<1>11. QED BY <1>1, <1>2, <1>3, <1>4, <1>5, <1>6, <1>7, <1>8, <1>9, <1>10 DEF Preparation

\* The same run of the same worker.
SameRun(j, k) ==
  /\ actor'[j][k].dead = actor[j][k].dead /\ actor'[j][k].gen = actor[j][k].gen
  /\ actor'[j][k].again = actor[j][k].again

\* A worker goes on at another place, or ends with a result.
LEMMA EnterStep ==
  ASSUME actor \in Actors, NEW j \in Jobs, NEW k \in Kinds, NEW place, Enter(j, k, place),
         place \in {"begin", "run", "requeue", "rediscover", "leave"}
  PROVE  /\ actor' \in Actors /\ actor'[j][k].pc = place /\ SameRun(j, k)
         /\ actor'[j][k].result = actor[j][k].result
         /\ \A i \in Jobs, h \in Kinds : ~(i = j /\ h = k) => actor'[i][h] = actor[i][h]
<1> DEFINE next == [actor[j][k] EXCEPT !.pc = place]
<1>1. actor[j][k] \in Work
  BY DEF Actors
<1>2. /\ next \in Work /\ next.pc = place /\ next.dead = actor[j][k].dead /\ next.gen = actor[j][k].gen
      /\ next.again = actor[j][k].again /\ next.result = actor[j][k].result
  BY <1>1 DEF Work, ActorState
<1>3. actor' = [actor EXCEPT ![j][k] = next]
  BY DEF Enter, Actors
<1> HIDE DEF next
<1>4. /\ actor' \in Actors /\ actor'[j][k] = next
      /\ \A i \in Jobs, h \in Kinds : ~(i = j /\ h = k) => actor'[i][h] = actor[i][h]
  BY <1>2, <1>3 DEF Actors
<1>5. QED BY <1>2, <1>4 DEF SameRun

LEMMA EndStep ==
  ASSUME actor \in Actors, NEW j \in Jobs, NEW k \in Kinds, NEW result \in Results, End(j, k, result)
  PROVE  /\ actor' \in Actors /\ actor'[j][k].pc = "finish" /\ SameRun(j, k)
         /\ \A i \in Jobs, h \in Kinds : ~(i = j /\ h = k) => actor'[i][h] = actor[i][h]
<1> DEFINE next == [actor[j][k] EXCEPT !.pc = "finish", !.result = result]
<1>1. actor[j][k] \in Work /\ "none" \notin Results
  BY DEF Actors, Results
<1>2. /\ next \in Work /\ next.pc = "finish" /\ next.dead = actor[j][k].dead /\ next.gen = actor[j][k].gen
      /\ next.again = actor[j][k].again
  BY <1>1 DEF Work, ActorState
<1>3. actor' = [actor EXCEPT ![j][k] = next]
  BY DEF End, Actors
<1> HIDE DEF next
<1>4. /\ actor' \in Actors /\ actor'[j][k] = next
      /\ \A i \in Jobs, h \in Kinds : ~(i = j /\ h = k) => actor'[i][h] = actor[i][h]
  BY <1>2, <1>3 DEF Actors
<1>5. QED BY <1>2, <1>4 DEF SameRun

LEMMA EndingsAreResults == \A j \in Jobs, k \in Kinds : Endings(j, k) \subseteq Results
BY DEF Endings, Results

\* A module's row after BeginModule, and after a crash.
LEMMA RowBegun ==
  ASSUME mod \in Table, NEW j \in Jobs, NEW k \in Kinds,
         mod' = [mod EXCEPT ![j][k].status = "running", ![j][k].gen = @ + 1]
  PROVE  /\ mod' \in Table
         /\ \A i \in Jobs, h \in Kinds : ~(i = j /\ h = k) => mod'[i][h] = mod[i][h]
         /\ mod'[j][k].status = "running" /\ mod'[j][k].gen = mod[j][k].gen + 1
         /\ mod'[j][k].restarts = mod[j][k].restarts
<1> DEFINE next == Raised(mod[j][k], "running")
<1>1. mod[j][k] \in Row
  BY DEF Table
<1>2. /\ next \in Row /\ next.status = "running"
      /\ next.gen = mod[j][k].gen + 1 /\ next.restarts = mod[j][k].restarts
  BY <1>1, RowRaised DEF ModuleStatuses
<1>3. mod' = [mod EXCEPT ![j][k] = next]
  BY DEF Raised, Table
<1> HIDE DEF next
<1>4. /\ mod' \in Table /\ mod'[j][k] = next
      /\ \A i \in Jobs, h \in Kinds : ~(i = j /\ h = k) => mod'[i][h] = mod[i][h]
  BY ONLY <1>2, <1>3, mod \in Table, j \in Jobs, k \in Kinds DEF Table
<1>5. QED BY <1>2, <1>4

LEMMA RowRequeued ==
  ASSUME mod \in Table, NEW j \in Jobs, NEW k \in Kinds, mod[j][k].restarts < 1,
         mod' = [mod EXCEPT ![j][k].status = "queued", ![j][k].restarts = @ + 1]
  PROVE  /\ mod' \in Table
         /\ \A i \in Jobs, h \in Kinds : ~(i = j /\ h = k) => mod'[i][h] = mod[i][h]
         /\ mod'[j][k].status = "queued" /\ mod'[j][k].gen = mod[j][k].gen
         /\ mod[j][k].restarts = 0 /\ mod'[j][k].restarts = 1
<1> DEFINE next == [status |-> "queued", gen |-> mod[j][k].gen, restarts |-> 1]
<1>1. mod[j][k] \in Row
  BY DEF Table
<1>2. mod[j][k].restarts = 0
  BY <1>1 DEF Row
<1>3. next \in Row
  BY <1>1 DEF Row, ModuleStatuses
<1>4. mod' = [mod EXCEPT ![j][k] = next]
  BY <1>1, <1>2 DEF Row, Table
<1>5. /\ next.status = "queued" /\ next.gen = mod[j][k].gen /\ next.restarts = 1
  OBVIOUS
<1> HIDE DEF next
<1>6. /\ mod' \in Table /\ mod'[j][k] = next
      /\ \A i \in Jobs, h \in Kinds : ~(i = j /\ h = k) => mod'[i][h] = mod[i][h]
  BY ONLY <1>3, <1>4, mod \in Table, j \in Jobs, k \in Kinds DEF Table
<1>7. QED BY <1>2, <1>5, <1>6

\* A status that FinishModule or a failed second attempt writes.
LEMMA ActorTypes ==
  ASSUME Typed, NEW j \in Jobs, NEW k \in Kinds, Actor(j, k)
  PROVE  Typed'
<1> USE DEF Typed
<1>1. CASE Begin(j, k)
  <2>1. ASSUME mod' = [mod EXCEPT ![j][k].status = "running", ![j][k].gen = @ + 1],
               actor' = [actor EXCEPT ![j][k].pc = "run", ![j][k].gen = mod[j][k].gen + 1]
        PROVE  mod' \in Table /\ actor' \in Actors
    <3> DEFINE gen == mod[j][k].gen + 1
    <3>0. actor[j][k] \in Work
      BY DEF Actors
    <3>1. mod' \in Table
      BY <2>1, RowBegun
    <3>2. gen \in Nat
      BY DEF Table, Row
    <3>3. actor' = [actor EXCEPT ![j][k] = [actor[j][k] EXCEPT !.pc = "run", !.gen = gen]]
      BY <2>1 DEF Actors
    <3> HIDE DEF gen
    <3>4. [actor[j][k] EXCEPT !.pc = "run", !.gen = gen] \in Work
      BY ONLY <3>0, <3>2 DEF Work, ActorState
    <3>5. actor' \in Actors
      BY ONLY <3>3, <3>4, actor \in Actors, j \in Jobs, k \in Kinds DEF Actors
    <3>6. QED BY <3>1, <3>5
  <2>2. ASSUME Enter(j, k, "leave"), UNCHANGED mod PROVE mod' \in Table /\ actor' \in Actors
    BY <2>2, EnterStep
  <2>3. mod' \in Table /\ actor' \in Actors
    BY <1>1, <2>1, <2>2 DEF Begin
  <2>4. QED BY <1>1, <2>3 DEF Begin, actorUnchanged, accounts
<1>2. CASE RunEnds(j, k)
  <2>1. actor' \in Actors
    BY <1>2, EndStep, EndingsAreResults DEF RunEnds
  <2>2. lacks' \in [Jobs -> BOOLEAN]
    BY <1>2 DEF RunEnds
  <2>3. QED BY <1>2, <2>1, <2>2 DEF RunEnds, actorUnchanged, accounts
<1>3. CASE RunRefused(j, k)
  <2>1. actor' \in Actors
    BY <1>3, EndStep DEF RunRefused, Results
  <2>2. QED BY <1>3, <2>1 DEF RunRefused, actorUnchanged, accounts, database
<1>4. CASE RunCancelled(j, k)
  <2>1. actor' \in Actors
    BY <1>4, EnterStep DEF RunCancelled
  <2>2. QED BY <1>4, <2>1 DEF RunCancelled, actorUnchanged, accounts, database
<1>5. CASE Requeue(j, k)
  <2>1. actor' \in Actors
    BY <1>5, EnterStep DEF Requeue
  <2>2. mod' \in Table
    BY <1>5, RowRequeued DEF Requeue
  <2>3. QED BY <1>5, <2>1, <2>2 DEF Requeue, actorUnchanged, accounts
<1>6. CASE Rediscover(j, k)
  <2>1. ASSUME actor' = [actor EXCEPT ![j][k].pc = "begin", ![j][k].again = TRUE] PROVE actor' \in Actors
    <3>0. actor[j][k] \in Work
      BY DEF Actors
    <3>1. actor' = [actor EXCEPT ![j][k] = [actor[j][k] EXCEPT !.pc = "begin", !.again = TRUE]]
      BY <2>1 DEF Actors
    <3>2. [actor[j][k] EXCEPT !.pc = "begin", !.again = TRUE] \in Work
      BY ONLY <3>0 DEF Work, ActorState
    <3>3. QED BY ONLY <3>1, <3>2, actor \in Actors, j \in Jobs, k \in Kinds DEF Actors
  <2>2. actor' \in Actors
    BY <1>6, <2>1, EnterStep DEF Rediscover
  <2>3. mod' \in Table
    BY <1>6, ModuleStep DEF Rediscover, ModuleStatuses, Results
  <2>4. QED BY <1>6, <2>2, <2>3 DEF Rediscover, actorUnchanged, accounts
<1>7. CASE Finish(j, k)
  <2>1. actor' \in Actors
    BY <1>7, EnterStep DEF Finish
  <2>2. actor[j][k].result \in ModuleStatuses
    BY <1>7 DEF Finish, Being, Actors, Work, ActorState, ModuleStatuses
  <2>3. mod' \in Table
    BY <1>7, <2>2, RowStatus DEF Finish
  <2>4. QED BY <1>7, <2>1, <2>3 DEF Finish, actorUnchanged, accounts
<1>8. CASE Leave(j, k)
  <2>1. NoActor \in Work
    BY DEF NoActor, Work, ActorState
  <2>2. actor' \in Actors
    BY <1>8, <2>1 DEF Leave, Actors
  <2>3. settling' \in Counts
    BY <1>8, CountStep DEF Leave
  <2>4. QED BY <1>8, <2>2, <2>3 DEF Leave, accounts, database
<1>9. QED BY <1>1, <1>2, <1>3, <1>4, <1>5, <1>6, <1>7, <1>8 DEF Actor

LEMMA MishapTypes ==
  ASSUME Typed, NEW j \in Jobs, Mishap(j)
  PROVE  Typed'
<1> USE DEF Typed
<1>1. CASE DiscoverFails(j)
  <2>1. prep' \in Preps
    BY <1>1, GiveUpStep DEF DiscoverFails
  <2>2. QED BY <1>1, <2>1 DEF DiscoverFails, prepUnchanged, accounts
<1>2. CASE Enroll(j)
  <2>1. mod' \in Table
    BY <1>2, ModuleStep, Constants DEF Enroll, ModuleStatuses
  <2>2. spent' \in Spending
    BY <1>2, SpendStep DEF Enroll
  <2>3. QED BY <1>2, <2>1, <2>2 DEF Enroll, accounts
<1>3. ASSUME NEW k \in Kinds, RunFails(j, k) PROVE Typed'
  <2>1. actor' \in Actors
    BY <1>3, EndStep DEF RunFails, Results
  <2>2. QED BY <1>3, <2>1 DEF RunFails, actorUnchanged, accounts, database
<1>4. ASSUME NEW k \in Kinds, RunCrashes(j, k) PROVE Typed'
  <2>1. actor' \in Actors
    BY <1>4, EndStep, EnterStep DEF RunCrashes, Results
  <2>2. spent' \in Spending
    BY <1>4, SpendStep DEF RunCrashes
  <2>3. QED BY <1>4, <2>1, <2>2 DEF RunCrashes, actorUnchanged, accounts, database
<1>5. QED BY <1>1, <1>2, <1>3, <1>4 DEF Mishap

LEMMA EngineTypes ==
  ASSUME Typed, NEW j \in Jobs, Settle(j) \/ Aggregate(j)
  PROVE  Typed'
<1> USE DEF Typed
<1>1. CASE Settle(j)
  <2>1. settling' \in Counts /\ tallying' \in Counts /\ slots' \subseteq Jobs
    BY <1>1, CountStep DEF Settle
  <2>2. QED BY <1>1, <2>1 DEF Settle, accounts, database
<1>2. CASE Aggregate(j)
  <2>1. tallying' \in Counts
    BY <1>2, CountStep DEF Aggregate
  <2>2. job' \in [Jobs -> JobStatuses]
    BY <1>2 DEF Aggregate, Summary, JobStatuses, Active
  <2>3. QED BY <1>2, <2>1, <2>2 DEF Aggregate, accounts
<1>3. QED BY <1>1, <1>2

LEMMA RecoverTypes ==
  ASSUME Typed, Recover
  PROVE  job' \in [Jobs -> JobStatuses] /\ mod' \in Table /\ lacks' \in [Jobs -> BOOLEAN]
BY Rows DEF Typed, Recover, JobStatuses, Active, ModuleStatuses

LEMMA NewsTypes ==
  ASSUME Typed, NEW c \in Changes, News(c)
  PROVE  Typed'
<1> USE DEF Typed
<1>1. CASE CancelFormal(c)
  <2>1. news' \in AllNews
    BY <1>1 DEF CancelFormal, AllNews, NewsState, Steps
  <2>2. prep' \in Preps
    BY <1>1, KilledPrep DEF CancelFormal, Preps
  <2>3. actor' \in Actors
    BY <1>1, KilledActor DEF CancelFormal, Actors
  <2>4. QED BY <1>1, <2>1, <2>2, <2>3 DEF CancelFormal, newsUnchanged, accounts
<1>2. CASE SuspendFormal(c)
  <2>1. news' \in AllNews
    BY <1>2 DEF SuspendFormal, AllNews, NewsState, Steps, NoNews
  <2>2. mod' \in Table
    BY <1>2, Rows DEF SuspendFormal, ModuleStatuses, Waiting, Results
  <2>3. QED BY <1>2, <2>1, <2>2 DEF SuspendFormal, newsUnchanged, accounts
<1>3. CASE RevokeCollectors(c)
  <2>1. news' \in AllNews
    <3> DEFINE affected == IF news[c].stale THEN {j \in Jobs : actor[j]["collector"].pc # "none"} ELSE {}
    <3>1. affected \subseteq Jobs
      OBVIOUS
    <3>2. news' = [news EXCEPT ![c].step = "collectors", ![c].changed = affected]
      BY <1>3 DEF RevokeCollectors
    <3> HIDE DEF affected
    <3>3. news[c] \in NewsState
      BY DEF AllNews
    <3>4. [news[c] EXCEPT !.step = "collectors", !.changed = affected] \in NewsState
      BY ONLY <3>1, <3>3 DEF NewsState, Steps
    <3>5. news' = [news EXCEPT ![c] = [news[c] EXCEPT !.step = "collectors", !.changed = affected]]
      BY <3>2 DEF AllNews
    <3>6. QED BY <3>4, <3>5 DEF AllNews
  <2>2. actor' \in Actors
    BY <1>3, KilledActor, Constants DEF RevokeCollectors, Actors
  <2>3. QED BY <1>3, <2>1, <2>2 DEF RevokeCollectors, newsUnchanged, accounts
<1>4. CASE QueueCollectors(c)
  <2>1. news' \in AllNews
    BY <1>4 DEF QueueCollectors, AllNews, NewsState, Steps
  <2>2. mod' \in Table
    BY <1>4, Rows DEF QueueCollectors, ModuleStatuses
  <2>3. QED BY <1>4, <2>1, <2>2 DEF QueueCollectors, newsUnchanged, accounts
<1>5. CASE QueueHomework(c)
  <2>1. news' \in AllNews
    BY <1>5 DEF QueueHomework, AllNews, NewsState, Steps
  <2>2. \A j \in Jobs : [mod[j]["homework"] EXCEPT !.status = "queued"] \in Row
    <3>1. \A row \in Row : [row EXCEPT !.status = "queued"] \in Row
      BY DEF Row, ModuleStatuses
    <3>2. QED BY <3>1, Constants DEF Table
  <2>3. mod' \in Table
    BY <1>5, <2>2, Constants DEF QueueHomework, Table
  <2>4. QED BY <1>5, <2>1, <2>3 DEF QueueHomework, newsUnchanged, accounts
<1>6. CASE QueueJobs(c)
  <2>1. news' \in AllNews /\ job' \in [Jobs -> JobStatuses]
    BY <1>6 DEF QueueJobs, AllNews, NewsState, Steps, NoNews, JobStatuses, Active
  <2>2. QED BY <1>6, <2>1 DEF QueueJobs, newsUnchanged, accounts
<1>7. QED BY <1>1, <1>2, <1>3, <1>4, <1>5, <1>6 DEF News

LEMMA ProcessTypes ==
  ASSUME Typed, Process
  PROVE  Typed'
<1> USE DEF Typed
<1>1. CASE Boot
  BY <1>1, RecoverTypes DEF Boot, accounts, memory
<1>2. CASE Cease
  <2>1. prep' \in Preps
    BY <1>2, KilledPrep DEF Cease, Preps
  <2>2. actor' \in Actors
    BY <1>2, KilledActor DEF Cease, Actors
  <2>3. spent' \in Spending
    BY <1>2, SpendStep DEF Cease
  <2>4. QED BY <1>2, <2>1, <2>2, <2>3 DEF Cease, accounts, database
<1>3. CASE Close
  BY <1>3, RecoverTypes DEF Close, accounts
<1>4. CASE Crash
  <2>1. NoPrep \in Stage /\ NoActor \in Work
    BY DEF NoPrep, Stage, PrepState, Places, NoActor, Work, ActorState
  <2>2. prep' \in Preps /\ actor' \in Actors
    BY <1>4, <2>1 DEF Crash, Preps, Actors
  <2>3. news' \in AllNews /\ order' \in Orders
    BY <1>4 DEF Crash, AllNews, NewsState, Steps, NoNews, Orders
  <2>4. settling' \in Counts /\ tallying' \in Counts
    BY <1>4 DEF Crash, Counts
  <2>5. spent' \in Spending
    BY <1>4, SpendStep DEF Crash
  <2>6. QED BY <1>4, <2>2, <2>3, <2>4, <2>5 DEF Crash, accounts, database
<1>5. QED BY <1>1, <1>2, <1>3, <1>4 DEF Process

LEMMA ChangeTypes ==
  ASSUME Typed, NEW c \in Changes, Change(c)
  PROVE  Typed'
<1> USE DEF Typed
<1>1. CASE HelperChanges(c)
  <2>1. helper' \in BOOLEAN /\ news' \in AllNews
    <3>1. \A stale \in BOOLEAN : [NoNews EXCEPT !.step = "revoke", !.stale = stale] \in NewsState
      BY DEF NewsState, Steps, NoNews
    <3>2. QED BY <1>1, <3>1 DEF HelperChanges, AllNews
  <2>2. spent' \in Spending
    BY <1>1, SpendStep DEF HelperChanges
  <2>3. QED BY <1>1, <2>1, <2>2 DEF HelperChanges, database
<1>2. ASSUME NEW o \in Owners, PrimaryChanges(c, o) PROVE Typed'
  <2>1. primary' \in [Owners -> BOOLEAN] /\ news' \in AllNews
    <3>1. [NoNews EXCEPT !.step = "cancel", !.owner = o] \in NewsState
      BY DEF NewsState, Steps, NoNews
    <3>2. QED BY <1>2, <3>1 DEF PrimaryChanges, AllNews
  <2>2. spent' \in Spending
    BY <1>2, SpendStep DEF PrimaryChanges
  <2>3. QED BY <1>2, <2>1, <2>2 DEF PrimaryChanges, database
<1>3. QED BY <1>1, <1>2 DEF Change

\* Whatever happens next, types are kept.
LEMMA TypesKept ==
  ASSUME Typed, [Next]_vars
  PROVE  Typed'
<1>1. ASSUME Next PROVE Typed'
  BY <1>1, UserTypes, CancelTypes, QueryTypes, ClaimTypes, PreparationTypes, EngineTypes, MishapTypes, ActorTypes,
     NewsTypes, ProcessTypes, ChangeTypes DEF Next, Dispatch
<1>2. ASSUME UNCHANGED vars PROVE Typed'
  BY <1>2 DEF Typed, vars, database, accounts, memory
<1>3. QED BY <1>1, <1>2

-----------------------------------------------------------------------------
(* Slots.                                                                   *)

\* Every slot belongs to a job that works, or that is about to give it up.
SlotInv == IsFiniteSet(slots) /\ SlotsRespected /\ SlotsReturned

\* Nothing begins or ends.
Steady == slots' = slots /\ settling' = settling /\ \A i \in Jobs : Busy(i)' <=> Busy(i)

LEMMA SteadySlots ==
  ASSUME Typed, SlotInv, Steady
  PROVE  SlotInv'
<1>1. \A o : OwnSlots(o)' = OwnSlots(o)
  BY DEF OwnSlots, Steady
<1>2. SlotsRespected'
  BY <1>1 DEF SlotInv, SlotsRespected, Steady
<1>3. SlotsReturned'
  BY DEF SlotInv, SlotsReturned, Steady, Typed
<1>4. QED BY <1>2, <1>3 DEF SlotInv, Steady

\* Something of one job ends, and counts as settling.
LEMMA EndingSlots ==
  ASSUME Typed, SlotInv, NEW j \in Jobs, slots' = slots, settling' = [settling EXCEPT ![j] = @ + 1],
         \A i \in Jobs : i # j => (Busy(i)' <=> Busy(i)), Busy(j)
  PROVE  SlotInv'
<1>1. \A o : OwnSlots(o)' = OwnSlots(o)
  BY DEF OwnSlots
<1>2. SlotsRespected'
  BY <1>1 DEF SlotInv, SlotsRespected
<1>3. \A i \in Jobs : settling'[i] >= settling[i] /\ settling[i] \in Nat /\ settling'[j] > 0
  BY DEF Typed, Counts
<1>4. SlotsReturned'
  BY <1>3 DEF SlotInv, SlotsReturned, Typed
<1>5. QED BY <1>2, <1>4 DEF SlotInv

\* A part of a job that was idle has been begun or not: nobody is idle who was not.
LEMMA SameBusy ==
  ASSUME \A i \in Jobs : prep'[i].pc = "none" <=> prep[i].pc = "none",
         \A i \in Jobs, h \in Kinds : actor'[i][h].pc = "none" <=> actor[i][h].pc = "none"
  PROVE  \A i \in Jobs : Busy(i)' <=> Busy(i)
BY DEF Busy

LEMMA PreparationBusy ==
  ASSUME Typed, NEW j \in Jobs, prep[j].pc # "none", prep'[j].pc # "none",
         \A i \in Jobs \ {j} : prep'[i] = prep[i] /\ \A h \in Kinds : actor'[i][h] = actor[i][h]
  PROVE  \A i \in Jobs : Busy(i)' <=> Busy(i)
BY DEF Busy

LEMMA GotoPlace ==
  ASSUME prep \in Preps, NEW j \in Jobs, NEW place, Goto(j, place)
  PROVE  prep'[j].pc = place /\ \A i \in Jobs \ {j} : prep'[i] = prep[i]
BY DEF Goto, Preps, Stage, PrepState

\* A preparation stays one until it ends, and touches its own job only.
LEMMA PreparationFrame ==
  ASSUME Typed, NEW j \in Jobs, Preparation(j) \/ DiscoverFails(j), ~EndPrepare(j)
  PROVE  /\ prep[j].pc # "none" /\ prep'[j].pc # "none"
         /\ \A i \in Jobs \ {j} : prep'[i] = prep[i] /\ \A h \in Kinds : actor'[i][h] = actor[i][h]
         /\ \A h \in Kinds : actor'[j][h] = actor[j][h] \/ (actor[j][h].pc = "none" /\ actor'[j][h].pc = "begin")
         /\ UNCHANGED <<slots, settling, tallying, order, news, up, spent>>
<1> DEFINE Place == prep[j].pc # "none" /\ prep'[j].pc # "none" /\ \A i \in Jobs \ {j} : prep'[i] = prep[i]
           Actor_ == /\ \A i \in Jobs \ {j} : \A h \in Kinds : actor'[i][h] = actor[i][h]
                     /\ \A h \in Kinds : \/ actor'[j][h] = actor[j][h]
                                         \/ actor[j][h].pc = "none" /\ actor'[j][h].pc = "begin"
           Rest == UNCHANGED <<slots, settling, tallying, order, news, up, spent>>
<1> SUFFICES Place /\ Actor_ /\ Rest
  OBVIOUS
<1>0. /\ prep \in Preps /\ actor \in Actors /\ prep[j] \in Stage
  BY DEF Typed, Preps
<1>1. ASSUME GiveUp(j), prep[j].pc # "none" PROVE Place
  <2>1. CASE prep[j].dead
    BY <1>0, <1>1, <2>1, GotoPlace DEF GiveUp
  <2>2. CASE ~prep[j].dead
    BY <1>0, <1>1, <2>2 DEF GiveUp, Preps, Stage, PrepState
  <2>3. QED BY <2>1, <2>2
<1>2. ASSUME NEW k \in Kinds, Launch(j, k) PROVE Actor_
  BY <1>0, <1>2, LaunchStep
<1>3. ASSUME UNCHANGED actor PROVE Actor_
  BY <1>3
<1> USE DEF At, prepUnchanged
<1>4. CASE MarkRunning(j)
  BY <1>0, <1>3, <1>4, GotoPlace DEF MarkRunning
<1>5. CASE Get(j)
  <2>1. Place
    <3>1. CASE prep[j].dead
      BY <1>0, <1>5, <3>1, GotoPlace DEF Get
    <3>2. CASE ~prep[j].dead
      <4> DEFINE todo == {k \in Kinds : mod[j][k].status = "queued"}
                 left == todo \intersect Media
                 listed == mod[j]["collector"].status # "absent"
      <4>1. prep' = [prep EXCEPT ![j].pc = "discover", ![j].todo = todo, ![j].left = left, ![j].listed = listed]
        BY <1>5, <3>2 DEF Get
      <4>2. prep[j].pc = "get"
        BY <1>5 DEF Get
      <4> HIDE DEF todo, left, listed
      <4>3. prep' = [prep EXCEPT ![j] =
                       [prep[j] EXCEPT !.pc = "discover", !.todo = todo, !.left = left, !.listed = listed]]
        BY <4>1, <1>0 DEF Preps
      <4>4. [prep[j] EXCEPT !.pc = "discover", !.todo = todo, !.left = left, !.listed = listed].pc = "discover"
        BY <1>0 DEF Stage, PrepState
      <4>5. QED BY <1>0, <4>2, <4>3, <4>4 DEF Preps
    <3>3. QED BY <3>1, <3>2
  <2>2. QED BY <1>3, <1>5, <2>1 DEF Get
<1>6. CASE Discover(j)
  BY <1>0, <1>1, <1>3, <1>6, GotoPlace DEF Discover
<1>7. CASE LaunchMedia(j)
  <2>1. ASSUME NEW k \in prep[j].left, Launch(j, k) \/ UNCHANGED actor, prep' = [prep EXCEPT ![j].left = @ \ {k}]
        PROVE  Place /\ Actor_
    <3>1. k \in Kinds
      BY <1>0 DEF Stage, PrepState
    <3>2. Place
      BY <1>0, <1>7, <2>1 DEF LaunchMedia, Preps, Stage, PrepState
    <3>3. QED BY <1>2, <1>3, <2>1, <3>1, <3>2
  <2>2. ASSUME Goto(j, IF prep[j].todo \subseteq Media THEN "leave" ELSE "exercises"), UNCHANGED actor
        PROVE  Place /\ Actor_
    BY <1>0, <1>3, <1>7, <2>2, GotoPlace DEF LaunchMedia
  <2>3. QED BY <1>7, <2>1, <2>2 DEF LaunchMedia
<1>8. CASE Exercises(j)
  <2>1. Place
    BY <1>0, <1>1, <1>8, GotoPlace DEF Exercises
  <2>2. QED BY <1>3, <1>8, <2>1 DEF Exercises
<1>9. CASE AddCollector(j)
  BY <1>0, <1>3, <1>9, GotoPlace DEF AddCollector
<1>10. CASE FindHelper(j)
  <2>1. Place /\ Rest
    BY <1>0, <1>10, GotoPlace DEF FindHelper
  <2>2. Actor_
    BY <1>2, <1>3, <1>10, Constants DEF FindHelper
  <2>3. QED BY <2>1, <2>2
<1>11. CASE LaunchHomework(j)
  <2>1. Place /\ Rest
    BY <1>0, <1>11, GotoPlace DEF LaunchHomework
  <2>2. Actor_
    BY <1>2, <1>3, <1>11, Constants DEF LaunchHomework
  <2>3. QED BY <2>1, <2>2
<1>12. CASE Block(j)
  <2>1. Place
    <3>1. ASSUME NEW k \in prep[j].left, prep' = [prep EXCEPT ![j].left = @ \ {k}] PROVE Place
      BY <1>0, <1>12, <3>1 DEF Block, Preps, Stage, PrepState
    <3>2. ASSUME Goto(j, "leave") PROVE Place
      BY <1>0, <1>12, <3>2, GotoPlace DEF Block
    <3>3. QED BY <1>12, <3>1, <3>2 DEF Block
  <2>2. QED BY <1>3, <1>12, <2>1 DEF Block
<1>13. CASE DiscoverFails(j)
  BY <1>1, <1>3, <1>13 DEF DiscoverFails
<1>14. QED BY <1>4, <1>5, <1>6, <1>7, <1>8, <1>9, <1>10, <1>11, <1>12, <1>13 DEF Preparation

\* A worker goes on, and no other does.
LEMMA ActorFrame ==
  ASSUME Typed, NEW j \in Jobs, NEW k \in Kinds, Actor(j, k) \/ RunFails(j, k) \/ RunCrashes(j, k), ~Leave(j, k)
  PROVE  /\ actor[j][k].pc # "none" /\ actor'[j][k].pc # "none"
         /\ \A i \in Jobs, h \in Kinds : ~(i = j /\ h = k) => actor'[i][h] = actor[i][h]
         /\ UNCHANGED <<up, slots, last, prep, order, news, settling, tallying>>
<1> DEFINE Frame == /\ actor'[j][k].pc # "none"
                    /\ \A i \in Jobs, h \in Kinds : ~(i = j /\ h = k) => actor'[i][h] = actor[i][h]
           Rest == UNCHANGED <<up, slots, last, prep, order, news, settling, tallying>>
<1>1. actor \in Actors /\ actor[j][k] \in Work
  BY DEF Typed, Actors
<1>2. ASSUME NEW place \in {"begin", "run", "requeue", "rediscover", "leave"}, Enter(j, k, place) PROVE Frame
  BY <1>1, <1>2, EnterStep
<1>3. ASSUME NEW result \in Results, End(j, k, result) PROVE Frame
  BY <1>1, <1>3, EndStep
<1>4. actor[j][k].pc # "none" /\ Rest
  BY DEF Actor, Begin, RunEnds, RunFails, RunRefused, RunCrashes, RunCancelled, Requeue, Rediscover, Finish, Leave,
         Being, actorUnchanged
<1> SUFFICES Frame
  BY <1>4
<1>5. ASSUME actor' = [actor EXCEPT ![j][k].pc = "run", ![j][k].gen = mod[j][k].gen + 1] PROVE Frame
  <2> DEFINE gen == mod[j][k].gen + 1
  <2>1. actor' = [actor EXCEPT ![j][k].pc = "run", ![j][k].gen = gen]
    BY <1>5
  <2> HIDE DEF gen
  <2>2. QED BY ONLY <1>1, <2>1, j \in Jobs, k \in Kinds DEF Actors, Work, ActorState
<1>6. ASSUME actor' = [actor EXCEPT ![j][k].pc = "begin", ![j][k].again = TRUE] PROVE Frame
  BY ONLY <1>1, <1>6, j \in Jobs, k \in Kinds DEF Actors, Work, ActorState
<1> HIDE DEF Frame
<1>7. CASE Begin(j, k)
  BY <1>2, <1>5, <1>7 DEF Begin
<1>8. CASE RunEnds(j, k)
  BY <1>3, <1>8, EndingsAreResults DEF RunEnds
<1>9. CASE RunFails(j, k) \/ RunRefused(j, k)
  BY <1>3, <1>9 DEF RunFails, RunRefused, Results
<1>10. CASE RunCrashes(j, k)
  BY <1>2, <1>3, <1>10 DEF RunCrashes, Results
<1>11. CASE RunCancelled(j, k) \/ Requeue(j, k) \/ Finish(j, k)
  BY <1>2, <1>11 DEF RunCancelled, Requeue, Finish
<1>12. CASE Rediscover(j, k)
  BY <1>2, <1>6, <1>12 DEF Rediscover
<1>13. QED BY <1>7, <1>8, <1>9, <1>10, <1>11, <1>12 DEF Actor

Cancelling ==
  \/ \E j \in Jobs, scope \in Scopes : Cancel(j, scope)
  \/ \E c \in Changes : CancelFormal(c) \/ RevokeCollectors(c)
  \/ Cease

\* Cancellations end nothing by themselves.
LEMMA CancelledBusy ==
  ASSUME Typed, Cancelling
  PROVE  /\ \A i \in Jobs : prep'[i] \in {prep[i], Killed(prep[i])}
         /\ \A i \in Jobs, h \in Kinds : actor'[i][h] \in {actor[i][h], Killed(actor[i][h])}
         /\ \A i \in Jobs : Busy(i)' <=> Busy(i)
         /\ UNCHANGED <<slots, settling, tallying>>
<1>1. \A i \in Jobs : prep[i] \in Stage /\ \A h \in Kinds : actor[i][h] \in Work
  BY DEF Typed, Preps, Actors
<1>2. /\ \A i \in Jobs : prep'[i] \in {prep[i], Killed(prep[i])}
      /\ \A i \in Jobs, h \in Kinds : actor'[i][h] \in {actor[i][h], Killed(actor[i][h])}
      /\ UNCHANGED <<slots, settling, tallying>>
  <2>1. ASSUME NEW j \in Jobs, NEW scope \in Scopes, Cancel(j, scope)
        PROVE  /\ \A i \in Jobs : prep'[i] \in {prep[i], Killed(prep[i])}
               /\ \A i \in Jobs, h \in Kinds : actor'[i][h] \in {actor[i][h], Killed(actor[i][h])}
               /\ UNCHANGED <<slots, settling, tallying>>
    BY <2>1 DEF Cancel, Typed, Preps, Actors
  <2>2. ASSUME NEW c \in Changes, CancelFormal(c)
        PROVE  /\ \A i \in Jobs : prep'[i] \in {prep[i], Killed(prep[i])}
               /\ \A i \in Jobs, h \in Kinds : actor'[i][h] \in {actor[i][h], Killed(actor[i][h])}
               /\ UNCHANGED <<slots, settling, tallying>>
    BY <2>2 DEF CancelFormal, newsUnchanged, Typed, Preps, Actors
  <2>3. ASSUME NEW c \in Changes, RevokeCollectors(c)
        PROVE  /\ \A i \in Jobs : prep'[i] \in {prep[i], Killed(prep[i])}
               /\ \A i \in Jobs, h \in Kinds : actor'[i][h] \in {actor[i][h], Killed(actor[i][h])}
               /\ UNCHANGED <<slots, settling, tallying>>
    BY <2>3, Constants DEF RevokeCollectors, newsUnchanged, Typed, Preps, Actors
  <2>4. CASE Cease
    BY <2>4 DEF Cease, Typed, Preps, Actors
  <2>5. QED BY <2>1, <2>2, <2>3, <2>4 DEF Cancelling
<1>3. \A i \in Jobs : prep'[i].pc = prep[i].pc /\ \A h \in Kinds : actor'[i][h].pc = actor[i][h].pc
  BY <1>1, <1>2, KilledPrep, KilledActor
<1>4. QED BY <1>2, <1>3, SameBusy

LEMMA SameSteady ==
  ASSUME UNCHANGED <<slots, settling, prep, actor>>
  PROVE  Steady
BY DEF Steady, Busy

LEMMA NoneInNone == NoPrep.pc = "none" /\ NoActor.pc = "none"
BY DEF NoPrep, NoActor

LEMMA ClaimSlots ==
  ASSUME Typed, SlotInv, NEW j \in Jobs, Claim(j)
  PROVE  SlotInv'
<1> DEFINE o == OwnerOf[j]
<1>1. /\ slots' = slots \union {j} /\ settling' = settling
      /\ j \in slots \/ (Cardinality(slots) < GlobalLimit /\ Cardinality(OwnSlots(o)) < UserLimit)
  BY DEF Claim, Free
<1>2. \A i \in Jobs : Busy(i)' <=> Busy(i) \/ i = j
  <2>1. prep'[j].pc = "mark" /\ \A i \in Jobs \ {j} : prep'[i] = prep[i]
    BY DEF Claim, Typed, Preps, NoPrep
  <2>2. UNCHANGED actor
    BY DEF Claim
  <2>3. QED BY <2>1, <2>2 DEF Busy
<1>3. IsFiniteSet(slots) /\ IsFiniteSet(slots')
  BY <1>1, FS_AddElement DEF SlotInv
<1>4. \A p \in Owners : IsFiniteSet(OwnSlots(p)) /\ IsFiniteSet(OwnSlots(p)')
  <2>1. \A p \in Owners : OwnSlots(p) \subseteq slots /\ OwnSlots(p)' \subseteq slots'
    BY DEF OwnSlots
  <2>2. QED BY <1>3, <2>1, FS_Subset
<1>5. CASE j \in slots
  <2>1. slots' = slots
    BY <1>1, <1>5
  <2>2. \A p : OwnSlots(p)' = OwnSlots(p)
    BY <2>1 DEF OwnSlots
  <2>3. SlotsRespected'
    BY <1>2, <1>5, <2>1, <2>2 DEF SlotInv, SlotsRespected
  <2>4. SlotsReturned'
    BY <1>1, <1>2, <2>1 DEF SlotInv, SlotsReturned, Typed
  <2>5. QED BY <1>3, <2>3, <2>4 DEF SlotInv
<1>6. CASE j \notin slots
  <2>1. Cardinality(slots') = Cardinality(slots) + 1 /\ Cardinality(slots) \in Nat
    BY <1>1, <1>3, <1>6, FS_AddElement, FS_CardinalityType
  <2>2. Cardinality(slots') <= GlobalLimit
    BY <1>1, <1>6, <2>1, Constants
  <2>3. ASSUME NEW p \in Owners PROVE Cardinality(OwnSlots(p)') <= UserLimit
    <3>1. CASE p = o
      <4>1. OwnSlots(p)' = OwnSlots(p) \union {j} /\ j \notin OwnSlots(p)
        BY <1>1, <1>6, <3>1 DEF OwnSlots
      <4>2. Cardinality(OwnSlots(p)') = Cardinality(OwnSlots(p)) + 1 /\ Cardinality(OwnSlots(p)) \in Nat
        BY <1>4, <4>1, FS_AddElement, FS_CardinalityType
      <4>3. QED BY <1>1, <1>6, <3>1, <4>2, Constants
    <3>2. CASE p # o
      <4>1. OwnSlots(p)' = OwnSlots(p)
        BY <1>1, <3>2 DEF OwnSlots
      <4>2. QED BY <4>1 DEF SlotInv, SlotsRespected
    <3>3. QED BY <3>1, <3>2
  <2>4. SlotsRespected'
    BY <1>1, <1>2, <2>2, <2>3 DEF SlotInv, SlotsRespected
  <2>5. SlotsReturned'
    BY <1>1, <1>2 DEF SlotInv, SlotsReturned, Typed
  <2>6. QED BY <1>3, <2>4, <2>5 DEF SlotInv
<1>7. QED BY <1>5, <1>6

LEMMA SettleSlots ==
  ASSUME Typed, SlotInv, NEW j \in Jobs, Settle(j)
  PROVE  SlotInv'
<1>1. \A i \in Jobs : Busy(i)' <=> Busy(i)
  BY DEF Settle, Busy
<1>2. \A i \in Jobs \ {j} : settling'[i] = settling[i]
  BY DEF Settle, Typed, Counts
<1>3. CASE Busy(j)
  <2>1. slots' = slots
    BY <1>3 DEF Settle
  <2>2. \A p : OwnSlots(p)' = OwnSlots(p)
    BY <2>1 DEF OwnSlots
  <2>3. SlotsRespected'
    BY <1>1, <2>1, <2>2 DEF SlotInv, SlotsRespected
  <2>4. SlotsReturned'
    BY <1>1, <1>2, <1>3, <2>1 DEF SlotInv, SlotsReturned, Typed
  <2>5. QED BY <2>1, <2>3, <2>4 DEF SlotInv
<1>4. CASE ~Busy(j)
  <2>1. slots' = slots \ {j}
    BY <1>4 DEF Settle
  <2>2. IsFiniteSet(slots') /\ Cardinality(slots') <= Cardinality(slots)
        /\ Cardinality(slots) \in Nat /\ Cardinality(slots') \in Nat
    BY <2>1, FS_Subset, FS_CardinalityType DEF SlotInv
  <2>3. ASSUME NEW p \in Owners PROVE Cardinality(OwnSlots(p)') <= UserLimit
    <3>1. OwnSlots(p)' \subseteq OwnSlots(p) /\ OwnSlots(p) \subseteq slots
      BY <2>1 DEF OwnSlots
    <3>2. IsFiniteSet(OwnSlots(p))
      BY <3>1, FS_Subset DEF SlotInv
    <3>3. Cardinality(OwnSlots(p)') <= Cardinality(OwnSlots(p)) /\ IsFiniteSet(OwnSlots(p)')
      BY <3>1, <3>2, FS_Subset
    <3>4. Cardinality(OwnSlots(p)') \in Nat /\ Cardinality(OwnSlots(p)) \in Nat
      BY <3>2, <3>3, FS_CardinalityType
    <3>5. Cardinality(OwnSlots(p)) <= UserLimit
      BY DEF SlotInv, SlotsRespected
    <3>6. QED BY <3>3, <3>4, <3>5, Constants
  <2>4. Cardinality(slots') <= GlobalLimit
    <3>1. Cardinality(slots) <= GlobalLimit
      BY DEF SlotInv, SlotsRespected
    <3>2. QED BY <2>2, <3>1, Constants
  <2>5. SlotsRespected'
    <3>1. \A i \in Jobs : Busy(i)' => i \in slots'
      BY <1>1, <1>4, <2>1 DEF SlotInv, SlotsRespected
    <3>2. QED BY <2>3, <2>4, <3>1 DEF SlotsRespected
  <2>6. SlotsReturned'
    BY <1>1, <1>2, <2>1 DEF SlotInv, SlotsReturned, Typed
  <2>7. QED BY <2>2, <2>5, <2>6 DEF SlotInv
<1>5. QED BY <1>3, <1>4

LEMMA EmptySlots ==
  ASSUME slots' = {}, \A i \in Jobs : ~Busy(i)'
  PROVE  SlotInv'
<1>1. \A p : OwnSlots(p)' = {}
  BY DEF OwnSlots
<1>2. GlobalLimit \in Nat /\ UserLimit \in Nat
  BY Constants
<1>3. IsFiniteSet({}) /\ Cardinality({}) = 0
  BY FS_EmptySet
<1>4. SlotsRespected'
  BY <1>1, <1>2, <1>3 DEF SlotsRespected
<1>5. QED BY <1>3, <1>4 DEF SlotInv, SlotsReturned

LEMMA SlotsKept ==
  ASSUME Typed, SlotInv, [Next]_vars
  PROVE  SlotInv'
<1>1. ASSUME NEW j \in Jobs, User(j) \/ Aggregate(j) \/ Enroll(j) PROVE SlotInv'
  BY <1>1, SameSteady, SteadySlots DEF User, Start, Control, memory, Aggregate, Enroll
<1>2. ASSUME \/ Boot \/ Query
             \/ \E c \in Changes : Change(c) \/ SuspendFormal(c) \/ QueueCollectors(c) \/ QueueHomework(c) \/ QueueJobs(c)
      PROVE  SlotInv'
  BY <1>2, SameSteady, SteadySlots
  DEF Change, HelperChanges, PrimaryChanges, Boot, Query, memory, SuspendFormal, QueueCollectors, QueueHomework, QueueJobs,
      newsUnchanged
<1>3. ASSUME Cancelling PROVE SlotInv'
  BY <1>3, CancelledBusy, SteadySlots DEF Steady
<1>4. ASSUME NEW j \in Jobs, Preparation(j) \/ DiscoverFails(j), ~EndPrepare(j) PROVE SlotInv'
  BY <1>4, PreparationFrame, PreparationBusy, SteadySlots DEF Steady
<1>5. ASSUME NEW j \in Jobs, EndPrepare(j) PROVE SlotInv'
  <2>1. Busy(j) /\ slots' = slots /\ settling' = [settling EXCEPT ![j] = @ + 1]
    BY <1>5 DEF EndPrepare, At, Busy
  <2>2. \A i \in Jobs : i # j => (Busy(i)' <=> Busy(i))
    BY <1>5 DEF EndPrepare, Busy, Typed, Preps
  <2>3. QED BY <2>1, <2>2, EndingSlots
<1>6. ASSUME NEW j \in Jobs, NEW k \in Kinds, Actor(j, k) \/ RunFails(j, k) \/ RunCrashes(j, k), ~Leave(j, k)
      PROVE  SlotInv'
  <2>1. /\ actor[j][k].pc # "none" /\ actor'[j][k].pc # "none"
        /\ \A i \in Jobs, h \in Kinds : ~(i = j /\ h = k) => actor'[i][h] = actor[i][h]
        /\ UNCHANGED <<up, slots, last, prep, order, news, settling, tallying>>
    BY <1>6, ActorFrame
  <2>2. \A i \in Jobs, h \in Kinds : actor'[i][h].pc = "none" <=> actor[i][h].pc = "none"
    BY <2>1
  <2>3. QED BY <2>1, <2>2, SameBusy, SteadySlots DEF Steady
<1>7. ASSUME NEW j \in Jobs, NEW k \in Kinds, Leave(j, k) PROVE SlotInv'
  <2>1. Busy(j) /\ slots' = slots /\ settling' = [settling EXCEPT ![j] = @ + 1]
    BY <1>7 DEF Leave, Being, Busy
  <2>2. \A i \in Jobs : i # j => (Busy(i)' <=> Busy(i))
    BY <1>7 DEF Leave, Busy, Typed, Actors
  <2>3. QED BY <2>1, <2>2, EndingSlots
<1>8. ASSUME Close \/ Crash PROVE SlotInv'
  BY <1>8, EmptySlots, NoneInNone DEF Close, Crash, Busy
<1>9. ASSUME UNCHANGED vars PROVE SlotInv'
  BY <1>9, SameSteady, SteadySlots DEF vars, memory
<1>10. ASSUME Next PROVE SlotInv'
  BY <1>10, <1>1, <1>2, <1>3, <1>4, <1>5, <1>6, <1>7, <1>8, ClaimSlots, SettleSlots
  DEF Next, News, Dispatch, Process, Mishap, Cancelling
<1>11. QED BY <1>9, <1>10

-----------------------------------------------------------------------------
(* Generations: what a user has decided, and the workers of before.         *)

AtWork == {"run", "finish", "requeue"}

\* A worker has the generation of its module or an older one, an older one if
\* the module is held; then it is cancelled or about to be.
GenInv ==
  \A j \in Jobs, k \in Kinds : actor[j][k].pc \in AtWork =>
    /\ actor[j][k].gen <= mod[j][k].gen
    /\ mod[j][k].status \in Held => actor[j][k].gen < mod[j][k].gen

\* Only a user's request changes the status of a held module, or holds one; it
\* raises the generation and goes on to cancel the worker.
RowStep(j, k) ==
  /\ mod'[j][k].gen >= mod[j][k].gen
  /\ \/ mod'[j][k].status = mod[j][k].status
     \/ mod'[j][k].status \notin Held /\ mod[j][k].status \notin Held
     \/ mod'[j][k].gen > mod[j][k].gen /\ \E scope \in Naming(k) : order'[j][scope] > order[j][scope]

\* A worker goes on with its generation, or begins with that of its module.
WorkerStep(j, k) ==
  \/ actor'[j][k].pc \notin AtWork
  \/ actor[j][k].pc \in AtWork /\ actor'[j][k].gen = actor[j][k].gen /\ (actor[j][k].dead => actor'[j][k].dead)
  \/ actor'[j][k].gen = mod'[j][k].gen /\ mod'[j][k].status = "running"

\* An order ends with the cancellation of who it names.
OrderStep(j, k) ==
  \/ \A scope \in Naming(k) : order'[j][scope] >= order[j][scope]
  \/ actor'[j][k].pc \notin AtWork \/ actor'[j][k].dead

Careful(j, k) == RowStep(j, k) /\ WorkerStep(j, k) /\ OrderStep(j, k)

LEMMA OrderCounts ==
  ASSUME order \in Orders
  PROVE  \A j \in Jobs, k \in Kinds : \A scope \in Naming(k) : order[j][scope] \in Nat /\ order[j][scope] >= order[j][scope]
<1>1. \A k \in Kinds : Naming(k) \subseteq Scopes
  BY DEF Naming
<1>2. QED BY <1>1 DEF Orders

\* Whom a request is about to cancel is so still, or cancelled.
LEMMA StillOrdered ==
  ASSUME Typed, Typed', NEW j \in Jobs, NEW k \in Kinds, OrderStep(j, k), Ordered(j, k)
  PROVE  Ordered(j, k)' \/ actor'[j][k].pc \notin AtWork \/ actor'[j][k].dead
<1>1. PICK scope \in Naming(k) : order[j][scope] > 0
  BY DEF Ordered
<1>2. order[j][scope] \in Nat /\ order'[j][scope] \in Nat
  BY OrderCounts DEF Typed, Orders, Naming
<1>3. Naming(k)' = Naming(k)
  BY DEF Naming
<1>4. QED BY <1>1, <1>2, <1>3 DEF OrderStep, Ordered

LEMMA CarefulKeeps ==
  ASSUME Typed, Typed', GenInv, HeldHasNoWorker, \A j \in Jobs, k \in Kinds : Careful(j, k)
  PROVE  GenInv' /\ HeldHasNoWorker'
<1>1. ASSUME NEW j \in Jobs, NEW k \in Kinds, actor'[j][k].pc \in AtWork
      PROVE  /\ actor'[j][k].gen <= mod'[j][k].gen
             /\ mod'[j][k].status \in Held =>
                  actor'[j][k].gen < mod'[j][k].gen /\ (~actor'[j][k].dead => Ordered(j, k)')
  <2>1. /\ mod[j][k].gen \in Nat /\ mod'[j][k].gen \in Nat /\ actor[j][k].gen \in Nat /\ actor'[j][k].gen \in Nat
        /\ "running" \notin Held
    BY DEF Typed, Table, Row, Actors, Work, ActorState, Held
  <2>2. CASE actor'[j][k].gen = mod'[j][k].gen /\ mod'[j][k].status = "running"
    BY <2>1, <2>2
  <2>3. CASE actor[j][k].pc \in AtWork /\ actor'[j][k].gen = actor[j][k].gen /\ (actor[j][k].dead => actor'[j][k].dead)
    <3>1. /\ actor[j][k].gen <= mod[j][k].gen
          /\ mod[j][k].status \in Held => actor[j][k].gen < mod[j][k].gen
          /\ mod[j][k].status \in Held /\ ~actor[j][k].dead => Ordered(j, k)
      BY <2>3 DEF GenInv, HeldHasNoWorker, Working, AtWork
    <3>2. mod'[j][k].gen >= mod[j][k].gen
      BY DEF Careful, RowStep
    <3>3. actor'[j][k].gen <= mod'[j][k].gen
      BY <2>1, <2>3, <3>1, <3>2
    <3>4. CASE mod'[j][k].status = mod[j][k].status
      <4>1. mod'[j][k].status \in Held => actor'[j][k].gen < mod'[j][k].gen
        BY <2>1, <2>3, <3>1, <3>2, <3>4
      <4>2. mod'[j][k].status \in Held /\ ~actor'[j][k].dead => Ordered(j, k)'
        BY <1>1, <2>3, <3>1, <3>4, StillOrdered DEF Careful
      <4>3. QED BY <3>3, <4>1, <4>2
    <3>5. CASE mod'[j][k].status \notin Held
      BY <3>3, <3>5
    <3>6. CASE mod'[j][k].gen > mod[j][k].gen /\ \E scope \in Naming(k) : order'[j][scope] > order[j][scope]
      <4>1. PICK scope \in Naming(k) : order'[j][scope] > order[j][scope]
        BY <3>6
      <4>2. order[j][scope] \in Nat /\ order'[j][scope] \in Nat /\ Naming(k)' = Naming(k)
        BY OrderCounts DEF Typed, Orders, Naming
      <4>3. Ordered(j, k)'
        BY <4>1, <4>2 DEF Ordered
      <4>4. QED BY <2>1, <2>3, <3>1, <3>3, <3>6, <4>3
    <3>7. QED BY <3>4, <3>5, <3>6 DEF Careful, RowStep
  <2>4. QED BY <1>1, <2>2, <2>3 DEF Careful, WorkerStep
<1>2. QED BY <1>1 DEF GenInv, HeldHasNoWorker, Working, AtWork

\* Rows stay.
LEMMA RowsKept ==
  ASSUME Typed, UNCHANGED mod
  PROVE  \A j \in Jobs, k \in Kinds : RowStep(j, k)
BY DEF RowStep, Typed, Table, Row

\* Workers and orders stay.
LEMMA WorkersKept ==
  ASSUME Typed, UNCHANGED <<actor, order>>
  PROVE  \A j \in Jobs, k \in Kinds : WorkerStep(j, k) /\ OrderStep(j, k)
BY OrderCounts DEF WorkerStep, OrderStep, Typed

\* Rows that are not held are moved, to a status that is not held either.
LEMMA MovedRows ==
  ASSUME Typed, NEW rows, NEW status \in ModuleStatuses \ Held, mod' = Moved(rows, status),
         \A j \in Jobs, k \in Kinds : k \in rows[j] => mod[j][k].status \notin Held
  PROVE  \A j \in Jobs, k \in Kinds : RowStep(j, k)
<1>1. ASSUME NEW j \in Jobs, NEW k \in Kinds PROVE RowStep(j, k)
  <2>1. mod[j][k].gen \in Nat
    BY DEF Typed, Table, Row
  <2>2. CASE k \in rows[j]
    <3>1. mod'[j][k].status = status /\ mod'[j][k].gen = mod[j][k].gen + 1
      BY <2>2, Rows DEF Typed
    <3>2. QED BY <2>1, <2>2, <3>1 DEF RowStep
  <2>3. CASE k \notin rows[j]
    <3>1. mod'[j][k] = mod[j][k]
      BY <2>3, Rows DEF Typed
    <3>2. QED BY <2>1, <3>1 DEF RowStep
  <2>4. QED BY <2>2, <2>3
<1>2. QED BY <1>1

\* A report that is not fenced leaves held modules alone.
LEMMA ReportedRows ==
  ASSUME Typed, NEW j \in Jobs, NEW k \in Kinds, NEW status \in ModuleStatuses \ Held, Module(j, k, status)
  PROVE  \A i \in Jobs, h \in Kinds : RowStep(i, h)
BY ModuleStep DEF RowStep, Typed, Table, Row

LEMMA Statuses ==
  /\ Held = {"paused", "stopped"} /\ Held \subseteq ModuleStatuses
  /\ {"queued", "running", "waiting_account", "waiting_enrollment", "waiting_answers", "blocked", "absent"}
       \subseteq ModuleStatuses \ Held
  /\ Results \subseteq ModuleStatuses \ Held
BY DEF ModuleStatuses, Held, Waiting, Results

LEMMA UserCareful ==
  ASSUME Typed, NEW j \in Jobs, User(j)
  PROVE  \A i \in Jobs, h \in Kinds : Careful(i, h)
<1>1. ASSUME NEW kinds \in Starts, Start(j, kinds) PROVE \A i \in Jobs, h \in Kinds : Careful(i, h)
  <2>1. ASSUME NEW i \in Jobs, NEW h \in Kinds PROVE RowStep(i, h)
    <3>1. mod[i][h] \in Row /\ mod[i][h].gen \in Nat
      BY DEF Typed, Table, Row
    <3>2. \/ mod'[i][h] = mod[i][h]
          \/ mod[i][h].status = "absent" /\ mod'[i][h] = [mod[i][h] EXCEPT !.status = "queued"]
      BY <1>1 DEF Start, Typed, Table
    <3>3. [mod[i][h] EXCEPT !.status = "queued"].status = "queued"
          /\ [mod[i][h] EXCEPT !.status = "queued"].gen = mod[i][h].gen
      BY <3>1 DEF Row
    <3>4. CASE mod'[i][h] = mod[i][h]
      BY <3>1, <3>4 DEF RowStep
    <3>5. CASE mod[i][h].status = "absent" /\ mod'[i][h] = [mod[i][h] EXCEPT !.status = "queued"]
      <4>1. mod'[i][h].status = "queued" /\ mod'[i][h].gen = mod[i][h].gen
        BY <3>3, <3>5
      <4>2. "queued" \notin Held /\ "absent" \notin Held
        BY DEF Held
      <4>3. QED BY <3>1, <3>5, <4>1, <4>2 DEF RowStep
    <3>6. QED BY <3>2, <3>4, <3>5
  <2>2. QED BY <1>1, <2>1, WorkersKept DEF Start, memory, Careful
<1>2. ASSUME NEW status \in Held \union {"queued"}, NEW scope \in Scopes, Control(j, status, scope)
      PROVE  \A i \in Jobs, h \in Kinds : Careful(i, h)
  <2> DEFINE named == {k \in Kinds : /\ scope \in {"all", k}
                                     /\ mod[j][k].status # "absent"
                                     /\ status = "queued" => mod[j][k].status # "done"}
             rows == [i \in Jobs |-> IF i = j THEN named ELSE {}]
  <2>1. mod' = Moved(rows, status) /\ order' = [order EXCEPT ![j][scope] = @ + 1] /\ UNCHANGED actor
    BY <1>2 DEF Control
  <2>2. status \in ModuleStatuses
    BY Statuses
  <2>3. ASSUME NEW i \in Jobs, NEW h \in Kinds PROVE Careful(i, h)
    <3>1. mod[i][h].gen \in Nat
      BY DEF Typed, Table, Row
    <3>2. /\ order'[j][scope] > order[j][scope]
          /\ \A g \in Jobs, other \in Scopes : order'[g][other] >= order[g][other]
      <4>1. \A g \in Jobs, other \in Scopes : order[g][other] \in Nat
        BY DEF Typed, Orders
      <4>2. /\ order'[j][scope] > order[j][scope] /\ order' \in Orders
            /\ \A g \in Jobs, other \in Scopes : ~(g = j /\ other = scope) => order'[g][other] = order[g][other]
        BY <2>1, OrderMore DEF Typed
      <4>3. QED BY <4>1, <4>2 DEF Orders
    <3>3. CASE h \in rows[i]
      <4>1. i = j /\ scope \in Naming(h)
        BY <3>3 DEF Naming
      <4> HIDE DEF rows
      <4>2. mod'[i][h].gen = mod[i][h].gen + 1
        BY <2>1, <2>2, <3>3, Rows DEF Typed
      <4>3. RowStep(i, h)
        BY <2>1, <3>1, <3>2, <4>1, <4>2 DEF RowStep
      <4>4. WorkerStep(i, h) /\ OrderStep(i, h)
        BY <2>1, <3>2 DEF WorkerStep, OrderStep, Naming
      <4>5. QED BY <4>3, <4>4 DEF Careful
    <3>4. CASE h \notin rows[i]
      <4> HIDE DEF rows
      <4>1. mod'[i][h] = mod[i][h]
        BY <2>1, <2>2, <3>4, Rows DEF Typed
      <4>2. WorkerStep(i, h) /\ OrderStep(i, h)
        BY <2>1, <3>2 DEF WorkerStep, OrderStep, Naming
      <4>3. QED BY <3>1, <4>1, <4>2 DEF Careful, RowStep
    <3>5. QED BY <3>3, <3>4
  <2>4. QED BY <2>3
<1>3. QED BY <1>1, <1>2 DEF User

LEMMA CancelCareful ==
  ASSUME Typed, Cancelling
  PROVE  \A i \in Jobs, h \in Kinds : Careful(i, h)
<1>1. UNCHANGED mod
  BY DEF Cancelling, Cancel, CancelFormal, RevokeCollectors, Cease, database
<1>2. ASSUME NEW i \in Jobs, NEW h \in Kinds PROVE WorkerStep(i, h)
  <2>1. actor[i][h] \in Work /\ actor'[i][h] \in {actor[i][h], Killed(actor[i][h])}
    BY CancelledBusy DEF Typed, Actors
  <2>2. actor'[i][h].pc = actor[i][h].pc /\ actor'[i][h].gen = actor[i][h].gen /\ (actor[i][h].dead => actor'[i][h].dead)
    BY <2>1, KilledActor
  <2>3. QED BY <2>2 DEF WorkerStep
<1>3. ASSUME NEW i \in Jobs, NEW h \in Kinds PROVE OrderStep(i, h)
  <2>1. ASSUME NEW j \in Jobs, NEW scope \in Scopes, Cancel(j, scope) PROVE OrderStep(i, h)
    <3>1. CASE i = j /\ scope \in {"all", h}
      <4>1. actor'[i][h] = Killed(actor[i][h]) /\ actor[i][h] \in Work
        BY <2>1, <3>1 DEF Cancel, Typed, Actors
      <4>2. QED BY <4>1, KilledActor DEF OrderStep, AtWork
    <3>2. CASE ~(i = j /\ scope \in {"all", h})
      <4>1. \A other \in Naming(h) : order'[i][other] = order[i][other]
        <5>1. /\ order' = [order EXCEPT ![j][scope] = @ - 1] /\ order \in Orders /\ order[j][scope] > 0
              /\ \A other \in Naming(h) : other \in Scopes /\ ~(i = j /\ other = scope)
          BY <2>1, <3>2 DEF Cancel, Typed, Naming
        <5>2. QED BY <5>1, OrderLess
      <4>2. QED BY <4>1, OrderCounts DEF OrderStep, Typed
    <3>3. QED BY <3>1, <3>2
  <2>2. ASSUME NEW c \in Changes, CancelFormal(c) \/ RevokeCollectors(c) PROVE OrderStep(i, h)
    BY <2>2, OrderCounts DEF CancelFormal, RevokeCollectors, newsUnchanged, OrderStep, Typed
  <2>3. CASE Cease
    BY <2>3, OrderCounts DEF Cease, OrderStep, Typed
  <2>4. QED BY <2>1, <2>2, <2>3 DEF Cancelling
<1>4. QED BY <1>1, <1>2, <1>3, RowsKept DEF Careful

LEMMA PreparationCareful ==
  ASSUME Typed, NEW j \in Jobs, Preparation(j) \/ DiscoverFails(j) \/ Enroll(j) \/ Claim(j) \/ Settle(j) \/ Aggregate(j)
  PROVE  \A i \in Jobs, h \in Kinds : Careful(i, h)
<1>1. CASE (Preparation(j) \/ DiscoverFails(j)) /\ ~EndPrepare(j)
  <2>1. \A i \in Jobs, h \in Kinds : RowStep(i, h)
    <3>1. CASE UNCHANGED mod
      BY <3>1, RowsKept
    <3>2. ASSUME NEW k \in Kinds, NEW status \in ModuleStatuses \ Held, Module(j, k, status)
          PROVE  \A i \in Jobs, h \in Kinds : RowStep(i, h)
      BY <3>2, ReportedRows
    <3>3. CASE AddCollector(j)
      BY <3>1, <3>2, <3>3, Constants, Statuses DEF AddCollector
    <3>4. CASE FindHelper(j)
      BY <3>1, <3>2, <3>4, Constants, Statuses DEF FindHelper
    <3>5. CASE Block(j)
      <4>1. prep[j] \in Stage /\ prep[j].left \subseteq Kinds /\ prep[j].verdict \in ModuleStatuses \ Held
        BY <3>5, Statuses DEF Block, At, Typed, Preps, Stage, PrepState
      <4>2. QED BY <3>1, <3>2, <3>5, <4>1 DEF Block
    <3>6. CASE MarkRunning(j) \/ Get(j) \/ Discover(j) \/ Exercises(j) \/ LaunchHomework(j) \/ DiscoverFails(j)
      BY <3>1, <3>6 DEF MarkRunning, Get, Discover, Exercises, LaunchHomework, DiscoverFails
    <3>7. CASE LaunchMedia(j)
      <4>1. prep[j] \in Stage /\ prep[j].left \subseteq Kinds
        BY DEF Typed, Preps, Stage, PrepState
      <4>2. QED BY <3>1, <3>2, <3>7, <4>1, Statuses DEF LaunchMedia
    <3>8. QED BY <1>1, <3>3, <3>4, <3>5, <3>6, <3>7 DEF Preparation
  <2>2. \A i \in Jobs, h \in Kinds : WorkerStep(i, h) /\ OrderStep(i, h)
    BY <1>1, PreparationFrame, OrderCounts DEF WorkerStep, OrderStep, AtWork, Typed
  <2>3. QED BY <2>1, <2>2 DEF Careful
<1>2. CASE EndPrepare(j) \/ Claim(j) \/ Settle(j) \/ Aggregate(j)
  <2>1. UNCHANGED <<mod, actor, order>>
    BY <1>2 DEF EndPrepare, Claim, Settle, Aggregate, database
  <2>2. QED BY <2>1, RowsKept, WorkersKept DEF Careful
<1>3. CASE Enroll(j)
  <2>1. \A i \in Jobs, h \in Kinds : RowStep(i, h)
    BY <1>3, ReportedRows, Constants, Statuses DEF Enroll
  <2>2. QED BY <1>3, <2>1, WorkersKept DEF Enroll, Careful
<1>4. QED BY <1>1, <1>2, <1>3

LEMMA ActorCareful ==
  ASSUME Typed, GenInv, NEW j \in Jobs, NEW k \in Kinds, Actor(j, k) \/ RunFails(j, k) \/ RunCrashes(j, k)
  PROVE  \A i \in Jobs, h \in Kinds : Careful(i, h)
<1>1. ASSUME NEW place \in {"begin", "run", "requeue", "rediscover", "leave"}, Enter(j, k, place),
             place = "requeue" => actor[j][k].pc \in AtWork, place # "run"
      PROVE  WorkerStep(j, k)
  BY <1>1, EnterStep DEF WorkerStep, SameRun, AtWork, Typed
<1>2. ASSUME NEW result \in Results, End(j, k, result), actor[j][k].pc \in AtWork PROVE WorkerStep(j, k)
  BY <1>2, EndStep DEF WorkerStep, SameRun, Typed
<1>3. order' = order
  BY DEF Actor, Begin, RunEnds, RunFails, RunRefused, RunCrashes, RunCancelled, Requeue, Rediscover, Finish, Leave,
         actorUnchanged
<1>4. \A i \in Jobs, h \in Kinds : ~(i = j /\ h = k) => actor'[i][h] = actor[i][h]
  BY ActorFrame DEF Leave, Typed, Actors
<1>5. ASSUME NEW i \in Jobs, NEW h \in Kinds, ~(i = j /\ h = k) PROVE WorkerStep(i, h)
  BY <1>4, <1>5 DEF WorkerStep
<1>6. ASSUME WorkerStep(j, k), \A i \in Jobs, h \in Kinds : RowStep(i, h)
      PROVE  \A i \in Jobs, h \in Kinds : Careful(i, h)
  BY <1>3, <1>5, <1>6, OrderCounts DEF Careful, OrderStep, Typed
<1>7. UNCHANGED mod => \A i \in Jobs, h \in Kinds : RowStep(i, h)
  BY RowsKept
<1>8. CASE Begin(j, k)
  <2>1. CASE Enter(j, k, "leave") /\ UNCHANGED mod
    BY <1>1, <1>6, <1>7, <2>1
  <2>2. CASE ~(Enter(j, k, "leave") /\ UNCHANGED mod)
    <3>1. /\ mod[j][k].status = "queued" /\ mod' = [mod EXCEPT ![j][k].status = "running", ![j][k].gen = @ + 1]
          /\ actor' = [actor EXCEPT ![j][k].pc = "run", ![j][k].gen = mod[j][k].gen + 1]
      BY <1>8, <2>2 DEF Begin
    <3>2. /\ mod'[j][k].status = "running" /\ mod'[j][k].gen = mod[j][k].gen + 1
          /\ \A i \in Jobs, h \in Kinds : ~(i = j /\ h = k) => mod'[i][h] = mod[i][h]
      BY <3>1, RowBegun DEF Typed
    <3>3. actor'[j][k].gen = mod[j][k].gen + 1
      BY <3>1 DEF Typed, Actors, Work, ActorState
    <3>4. \A i \in Jobs, h \in Kinds : mod[i][h].gen \in Nat
      BY DEF Typed, Table, Row
    <3>5. ASSUME NEW i \in Jobs, NEW h \in Kinds PROVE RowStep(i, h)
      <4>1. CASE i = j /\ h = k
        <5>1. mod[j][k].status \notin Held /\ mod'[j][k].status \notin Held
          BY <3>1, <3>2 DEF Held
        <5>2. mod'[j][k].gen >= mod[j][k].gen
          BY <3>2, <3>4
        <5>3. QED BY <4>1, <5>1, <5>2 DEF RowStep
      <4>2. CASE ~(i = j /\ h = k)
        BY <3>2, <3>4, <4>2 DEF RowStep
      <4>3. QED BY <4>1, <4>2
    <3>6. QED BY <1>6, <3>2, <3>3, <3>5 DEF WorkerStep
  <2>3. QED BY <2>1, <2>2
<1>9. CASE RunEnds(j, k)
  BY <1>2, <1>6, <1>7, <1>9, EndingsAreResults DEF RunEnds, Being, AtWork
<1>10. CASE RunFails(j, k) \/ RunRefused(j, k)
  BY <1>2, <1>6, <1>7, <1>10 DEF RunFails, RunRefused, Being, AtWork, Results, database
<1>11. CASE RunCrashes(j, k)
  BY <1>1, <1>2, <1>6, <1>7, <1>11 DEF RunCrashes, Being, AtWork, Results, database
<1>12. CASE RunCancelled(j, k)
  BY <1>1, <1>6, <1>7, <1>12 DEF RunCancelled, database
<1>13. CASE Requeue(j, k)
  <2>1. WorkerStep(j, k)
    BY <1>1, <1>13 DEF Requeue
  <2>2. CASE UNCHANGED mod
    BY <1>6, <1>7, <2>1, <2>2
  <2>3. CASE ~UNCHANGED mod
    <3>1. /\ mod[j][k].gen = actor[j][k].gen /\ mod[j][k].restarts < 1 /\ actor[j][k].pc \in AtWork
          /\ mod' = [mod EXCEPT ![j][k].status = "queued", ![j][k].restarts = @ + 1]
      BY <1>13, <2>3 DEF Requeue, Being, AtWork
    <3>2. /\ mod'[j][k].status = "queued" /\ mod'[j][k].gen = mod[j][k].gen
          /\ \A i \in Jobs, h \in Kinds : ~(i = j /\ h = k) => mod'[i][h] = mod[i][h]
      BY <3>1, RowRequeued DEF Typed
    <3>3. \A i \in Jobs, h \in Kinds : mod[i][h].gen \in Nat
      BY DEF Typed, Table, Row
    <3>4. mod[j][k].status \notin Held
      BY <3>1, <3>3 DEF GenInv
    <3>5. \A i \in Jobs, h \in Kinds : RowStep(i, h)
      BY <3>2, <3>3, <3>4 DEF RowStep, Held
    <3>6. QED BY <1>6, <2>1, <3>5
  <2>4. QED BY <2>2, <2>3
<1>14. CASE Rediscover(j, k)
  <2>1. WorkerStep(j, k)
    <3>1. ASSUME actor' = [actor EXCEPT ![j][k].pc = "begin", ![j][k].again = TRUE] PROVE WorkerStep(j, k)
      <4>1. actor'[j][k].pc = "begin"
        BY <3>1 DEF Typed, Actors, Work, ActorState
      <4>2. QED BY <4>1 DEF WorkerStep, AtWork
    <3>2. QED BY <1>1, <1>14, <3>1 DEF Rediscover
  <2>2. \A i \in Jobs, h \in Kinds : RowStep(i, h)
    BY <1>7, <1>14, ReportedRows, Statuses DEF Rediscover
  <2>3. QED BY <1>6, <2>1, <2>2
<1>15. CASE Finish(j, k)
  <2>1. WorkerStep(j, k)
    BY <1>1, <1>15 DEF Finish
  <2>2. CASE UNCHANGED mod
    BY <1>6, <1>7, <2>1, <2>2
  <2>3. CASE ~UNCHANGED mod
    <3>1. mod[j][k].status = "running" /\ mod' = [mod EXCEPT ![j][k].status = actor[j][k].result]
      BY <1>15, <2>3 DEF Finish, Fenced
    <3>2. actor[j][k].result \in Results
      BY <1>15 DEF Finish, Being, Typed, Actors, Work, ActorState
    <3>3. /\ mod'[j][k].status \in Results /\ mod'[j][k].gen = mod[j][k].gen
          /\ \A i \in Jobs, h \in Kinds : ~(i = j /\ h = k) => mod'[i][h] = mod[i][h]
      <4> DEFINE result == actor[j][k].result
      <4>1. result \in ModuleStatuses /\ result \in Results /\ mod \in Table
        BY <3>2, Statuses DEF Typed
      <4>2. mod' = [mod EXCEPT ![j][k].status = result]
        BY <3>1
      <4> HIDE DEF result
      <4>3. QED BY <4>1, <4>2, RowStatus
    <3>4. \A i \in Jobs, h \in Kinds : mod[i][h].gen \in Nat
      BY DEF Typed, Table, Row
    <3>5. \A i \in Jobs, h \in Kinds : RowStep(i, h)
      BY <3>1, <3>3, <3>4, Statuses DEF RowStep, Held
    <3>6. QED BY <1>6, <2>1, <3>5
  <2>4. QED BY <2>2, <2>3
<1>16. CASE Leave(j, k)
  <2>1. actor'[j][k].pc = "none" /\ UNCHANGED mod
    BY <1>16, NoneInNone DEF Leave, database, Typed, Actors
  <2>2. WorkerStep(j, k)
    BY <2>1 DEF WorkerStep, AtWork
  <2>3. QED BY <1>6, <1>7, <2>1, <2>2
<1>17. QED BY <1>8, <1>9, <1>10, <1>11, <1>12, <1>13, <1>14, <1>15, <1>16 DEF Actor

LEMMA RecoverRows ==
  ASSUME Typed, Recover
  PROVE  \A i \in Jobs, h \in Kinds : RowStep(i, h)
<1> DEFINE rows == [j \in Jobs |-> {k \in Kinds :
                      /\ job[j] \in Active
                      /\ mod[j][k].status \in {"running", "queued", "waiting_answers"}}]
<1>1. mod' = Moved(rows, "queued")
  BY DEF Recover
<1>2. \A j \in Jobs, k \in Kinds : k \in rows[j] => mod[j][k].status \notin Held
  BY DEF Held
<1> HIDE DEF rows
<1>3. QED BY <1>1, <1>2, MovedRows, Statuses

LEMMA NewsCareful ==
  ASSUME Typed, NEW c \in Changes,
         SuspendFormal(c) \/ QueueCollectors(c) \/ QueueHomework(c) \/ QueueJobs(c) \/ Change(c)
  PROVE  \A i \in Jobs, h \in Kinds : Careful(i, h)
<1>1. CASE SuspendFormal(c)
  <2> DEFINE rows == [j \in Jobs |-> {k \in Kinds \ {"collector"} :
                    /\ OwnerOf[j] = news[c].owner
                    /\ job[j] \in Active
                    /\ mod[j][k].status \in {"running", "queued", "waiting_answers", "waiting_account"}}]
  <2>1. mod' = Moved(rows, "waiting_account")
    BY <1>1 DEF SuspendFormal
  <2>2. \A j \in Jobs, k \in Kinds : k \in rows[j] => mod[j][k].status \notin Held
    BY DEF Held
  <2> HIDE DEF rows
  <2>3. \A i \in Jobs, h \in Kinds : RowStep(i, h)
    BY <2>1, <2>2, MovedRows, Statuses
  <2>4. QED BY <1>1, <2>3, WorkersKept DEF SuspendFormal, newsUnchanged, Careful
<1>2. CASE QueueCollectors(c)
  <2> DEFINE rows == [j \in Jobs |-> {k \in {"collector"} :
                    /\ job[j] \in Active
                    /\ \/ mod[j][k].status \in {"waiting_account", "waiting_enrollment"}
                       \/ j \in news[c].changed /\ mod[j][k].status = "running"}]
  <2>1. mod' = Moved(rows, "queued")
    BY <1>2 DEF QueueCollectors
  <2>2. \A j \in Jobs, k \in Kinds : k \in rows[j] => mod[j][k].status \notin Held
    BY DEF Held
  <2> HIDE DEF rows
  <2>3. \A i \in Jobs, h \in Kinds : RowStep(i, h)
    BY <2>1, <2>2, MovedRows, Statuses
  <2>4. QED BY <1>2, <2>3, WorkersKept DEF QueueCollectors, newsUnchanged, Careful
<1>3. CASE QueueHomework(c)
  <2>1. ASSUME NEW i \in Jobs, NEW h \in Kinds PROVE RowStep(i, h)
    <3>1. mod[i][h] \in Row /\ mod[i][h].gen \in Nat
      BY DEF Typed, Table, Row
    <3>2. \/ mod'[i][h] = mod[i][h]
          \/ mod[i][h].status = "waiting_answers" /\ mod'[i][h] = [mod[i][h] EXCEPT !.status = "queued"]
      BY <1>3, Constants DEF QueueHomework, Typed, Table
    <3>3. [mod[i][h] EXCEPT !.status = "queued"].status = "queued"
          /\ [mod[i][h] EXCEPT !.status = "queued"].gen = mod[i][h].gen
      BY <3>1 DEF Row
    <3>4. CASE mod'[i][h] = mod[i][h]
      BY <3>1, <3>4 DEF RowStep
    <3>5. CASE mod[i][h].status = "waiting_answers" /\ mod'[i][h] = [mod[i][h] EXCEPT !.status = "queued"]
      <4>1. mod'[i][h].status = "queued" /\ mod'[i][h].gen = mod[i][h].gen
        BY <3>3, <3>5
      <4>2. "queued" \notin Held /\ "waiting_answers" \notin Held
        BY DEF Held
      <4>3. QED BY <3>1, <3>5, <4>1, <4>2 DEF RowStep
    <3>6. QED BY <3>2, <3>4, <3>5
  <2>2. QED BY <1>3, <2>1, WorkersKept DEF QueueHomework, newsUnchanged, Careful
<1>4. CASE QueueJobs(c) \/ Change(c)
  BY <1>4, RowsKept, WorkersKept
  DEF QueueJobs, Change, HelperChanges, PrimaryChanges, newsUnchanged, database, Careful
<1>5. QED BY <1>1, <1>2, <1>3, <1>4

LEMMA ProcessCareful ==
  ASSUME Typed, Query \/ Boot \/ Close \/ Crash
  PROVE  \A i \in Jobs, h \in Kinds : Careful(i, h)
<1>1. CASE Query
  BY <1>1, RowsKept, WorkersKept DEF Query, database, Careful
<1>2. CASE Boot \/ Close
  BY <1>2, RecoverRows, WorkersKept DEF Boot, Close, memory, Careful
<1>3. CASE Crash
  <2>1. UNCHANGED mod /\ \A i \in Jobs, h \in Kinds : actor'[i][h].pc = "none"
    BY <1>3, NoneInNone DEF Crash, database
  <2>2. QED BY <2>1, RowsKept DEF Careful, WorkerStep, OrderStep, AtWork
<1>4. QED BY <1>1, <1>2, <1>3

\* Every step is careful with every module.
LEMMA NextCareful ==
  ASSUME Typed, GenInv, [Next]_vars
  PROVE  \A i \in Jobs, h \in Kinds : Careful(i, h)
<1>1. ASSUME UNCHANGED vars PROVE \A i \in Jobs, h \in Kinds : Careful(i, h)
  BY <1>1, RowsKept, WorkersKept DEF vars, database, memory, Careful
<1>2. ASSUME Next PROVE \A i \in Jobs, h \in Kinds : Careful(i, h)
  BY <1>2, UserCareful, CancelCareful, PreparationCareful, ActorCareful, NewsCareful, ProcessCareful
  DEF Next, News, Dispatch, Process, Mishap, Cancelling
<1>3. QED BY <1>1, <1>2

-----------------------------------------------------------------------------
(* What follows, for any constants.                                         *)

EngineInv == Typed /\ SlotInv /\ GenInv /\ HeldHasNoWorker

LEMMA EngineInit == Init => EngineInv
<1> SUFFICES ASSUME Init PROVE EngineInv
  OBVIOUS
<1>1. \A j \in Jobs : prep[j].pc = "none" /\ \A k \in Kinds : actor[j][k].pc = "none"
  BY NoneInNone DEF Init
<1>2. SlotInv
  <2>1. \A j \in Jobs : ~Busy(j)
    BY <1>1 DEF Busy
  <2>2. slots = {} /\ IsFiniteSet({}) /\ Cardinality({}) = 0
    BY FS_EmptySet DEF Init
  <2>3. \A o : OwnSlots(o) = {}
    BY <2>2 DEF OwnSlots
  <2>4. GlobalLimit \in Nat /\ UserLimit \in Nat
    BY Constants
  <2>5. SlotsRespected
    BY <2>1, <2>2, <2>3, <2>4 DEF SlotsRespected
  <2>6. QED BY <2>2, <2>5 DEF SlotInv, SlotsReturned
<1>3. GenInv /\ HeldHasNoWorker
  BY <1>1 DEF GenInv, HeldHasNoWorker, Working, AtWork
<1>4. QED BY <1>2, <1>3, TypeInit DEF EngineInv

LEMMA EngineStep ==
  ASSUME EngineInv, [Next]_vars
  PROVE  EngineInv'
<1>1. Typed'
  BY TypesKept DEF EngineInv
<1>2. SlotInv'
  BY SlotsKept DEF EngineInv
<1>3. GenInv' /\ HeldHasNoWorker'
  BY <1>1, NextCareful, CarefulKeeps DEF EngineInv
<1>4. QED BY <1>1, <1>2, <1>3 DEF EngineInv

\* The inductive invariant of the engine: the slots are those of jobs that work
\* or are about to settle; workers of held modules have an older generation.
THEOREM EngineInductive == Spec => []EngineInv
<1>1. Init => EngineInv
  BY EngineInit
<1>2. EngineInv /\ [Next]_vars => EngineInv'
  BY EngineStep
<1>3. QED BY <1>1, <1>2, PTL DEF Spec

\* Every variable keeps its type; so a module is restarted at most once after
\* a crash (workflow/actors.go, launch).
THEOREM TypeCorrect == Spec => []TypeOK
<1>1. EngineInv => TypeOK
  BY DEF EngineInv, Typed, TypeOK, Table, Row, Preps, Stage, Actors, Work, NewsState, Steps, Counts, Spending,
     AllNews, Orders
<1>2. QED BY <1>1, EngineInductive, PTL

\* Neither limit on concurrent jobs is ever passed, and no job works without a
\* slot (Engine.dispatch, settle).
THEOREM SlotsRespectedTheorem == Spec => []SlotsRespected
<1>1. EngineInv => SlotsRespected
  BY DEF EngineInv, SlotInv
<1>2. QED BY <1>1, EngineInductive, PTL

\* No idle job keeps a slot without somebody about to give it up (settle).
THEOREM SlotsReturnedTheorem == Spec => []SlotsReturned
<1>1. EngineInv => SlotsReturned
  BY DEF EngineInv, SlotInv
<1>2. QED BY <1>1, EngineInductive, PTL

\* A held module's worker is cancelled, or its request is about to cancel it
\* (Engine.Control), however requests, preparations and crashes interleave.
THEOREM HeldHasNoWorkerTheorem == Spec => []HeldHasNoWorker
<1>1. EngineInv => HeldHasNoWorker
  BY DEF EngineInv
<1>2. QED BY <1>1, EngineInductive, PTL

\* Nothing but a user's request changes what a user has paused or stopped
\* (Repository.Module, FinishModule, BeginModule and Recover all spare it).
THEOREM UserDecidesTheorem == Spec => UserDecides
<1>1. EngineInv /\ [Next]_vars =>
        [\A j \in Jobs : \A k \in Kinds :
           mod[j][k].status \in Held /\ mod'[j][k].status # mod[j][k].status
             => \E scope \in Naming(k) : order'[j][scope] > order[j][scope]]_vars
  BY NextCareful DEF EngineInv, Careful, RowStep
<1>2. QED BY <1>1, EngineInductive, PTL DEF Spec, UserDecides

-----------------------------------------------------------------------------
(* How a running module can lose the worker in charge of it.                *)

\* A running module is that of an active job: a request that takes the job out
\* of the active ones names all its modules, and Aggregate sees this one run.
RunActive == \A j \in Jobs, k \in Kinds : mod[j][k].status = "running" => job[j] \in Active

\* If the module runs afterwards, then somebody is in charge of it, or has given
\* it up in this step, or it ran before and is in the same hands.
Watched(j, k) ==
  mod'[j][k].status = "running" /\ up' = "on" =>
    \/ Attended(j, k)' \/ GivenUp(j, k)
    \/ /\ up = "on" /\ mod[j][k].status = "running"
       /\ Attended(j, k) => Attended(j, k)' \/ Relieved(j, k)'
       /\ Relieved(j, k) => Relieved(j, k)'

Safe(j, k) == (mod'[j][k].status = "running" => job'[j] \in Active) /\ Watched(j, k)

\* A module that does not begin to run, in a job that is not put aside.
RowKept(j, k) ==
  mod'[j][k].status = "running" => mod[j][k].status = "running" /\ mod'[j][k].gen = mod[j][k].gen

JobKept(j) == job[j] \in Active => job'[j] \in Active

LEMMA RowsStay ==
  ASSUME UNCHANGED mod
  PROVE  \A j \in Jobs, k \in Kinds : RowKept(j, k)
BY DEF RowKept

\* The worker is left alone.
LEMMA CalmSafe ==
  ASSUME RunActive, UNCHANGED up, NEW j \in Jobs, NEW k \in Kinds, RowKept(j, k), JobKept(j),
         actor'[j][k] = actor[j][k] \/ actor[j][k].pc = "none",
         mod'[j][k].status = "running" /\ Relieved(j, k) => Relieved(j, k)'
  PROVE  Safe(j, k)
<1>1. mod'[j][k].status = "running" => job'[j] \in Active
  BY DEF RowKept, JobKept, RunActive
<1>2. mod'[j][k].status = "running" /\ Attended(j, k) => Attended(j, k)'
  BY DEF RowKept, Attended, Working
<1>3. Watched(j, k)
  BY <1>2 DEF Watched, RowKept
<1>4. QED BY <1>1, <1>3 DEF Safe

\* Rows are moved to a status other than running.
LEMMA MovedKept ==
  ASSUME Typed, NEW rows, NEW status \in ModuleStatuses \ {"running"}, mod' = Moved(rows, status)
  PROVE  \A j \in Jobs, k \in Kinds : RowKept(j, k) /\ (k \in rows[j] => mod'[j][k].status # "running")
BY Rows DEF RowKept, Typed

LEMMA ReportedKept ==
  ASSUME Typed, NEW j \in Jobs, NEW k \in Kinds, NEW status \in ModuleStatuses \ {"running"}, Module(j, k, status)
  PROVE  \A i \in Jobs, h \in Kinds : RowKept(i, h)
BY ModuleStep DEF RowKept, Typed

LEMMA UserSafe ==
  ASSUME Typed, RunActive, NEW j \in Jobs, User(j)
  PROVE  \A i \in Jobs, h \in Kinds : Safe(i, h)
<1>1. ASSUME NEW kinds \in Starts, Start(j, kinds), NEW i \in Jobs, NEW h \in Kinds PROVE Safe(i, h)
  <2>1. RowKept(i, h)
    <3>1. mod[i][h] \in Row
      BY DEF Typed, Table
    <3>2. mod'[i][h] = mod[i][h] \/ mod'[i][h] = [mod[i][h] EXCEPT !.status = "queued"]
      BY <1>1 DEF Start, Typed, Table
    <3>3. [mod[i][h] EXCEPT !.status = "queued"].status = "queued"
      BY <3>1 DEF Row
    <3>4. QED BY <3>2, <3>3 DEF RowKept
  <2>2. JobKept(i)
    BY <1>1 DEF Start, JobKept, Active, Typed
  <2>3. QED BY <1>1, <2>1, <2>2, CalmSafe DEF Start, memory, Relieved
<1>2. ASSUME NEW status \in Held \union {"queued"}, NEW scope \in Scopes, Control(j, status, scope),
             NEW i \in Jobs, NEW h \in Kinds
      PROVE  Safe(i, h)
  <2> DEFINE named == {k \in Kinds : /\ scope \in {"all", k}
                                     /\ mod[j][k].status # "absent"
                                     /\ status = "queued" => mod[j][k].status # "done"}
             rows == [g \in Jobs |-> IF g = j THEN named ELSE {}]
  <2>1. /\ mod' = Moved(rows, status)
        /\ job' = [job EXCEPT ![j] = IF scope = "all" \/ status = "queued" THEN status ELSE @]
        /\ UNCHANGED <<actor, up, news>>
    BY <1>2 DEF Control
  <2>2. status \in ModuleStatuses \ {"running"}
    BY Statuses DEF Held
  <2>3. i = j /\ scope = "all" /\ h \notin rows[i] => mod[i][h].status # "running"
    BY <2>1
  <2> HIDE DEF rows
  <2>4. RowKept(i, h) /\ (h \in rows[i] => mod'[i][h].status # "running")
    BY <2>1, <2>2, MovedKept
  <2>5. CASE mod'[i][h].status # "running"
    BY <2>5 DEF Safe, Watched
  <2>6. CASE mod'[i][h].status = "running"
    <3>1. ~(i = j /\ scope = "all")
      BY <2>3, <2>4, <2>6 DEF RowKept
    <3>2. JobKept(i)
      BY <2>1, <3>1 DEF JobKept, Active, Typed
    <3>3. QED BY <2>1, <2>4, <3>2, CalmSafe DEF Relieved
  <2>7. QED BY <2>5, <2>6
<1>3. QED BY <1>1, <1>2 DEF User

\* A cancelled worker is given up by a request, or relieved by an account change.
LEMMA CancelSafe ==
  ASSUME Typed, RunActive, Cancelling
  PROVE  \A i \in Jobs, h \in Kinds : Safe(i, h)
<1>1. UNCHANGED <<mod, job>>
  BY DEF Cancelling, Cancel, CancelFormal, RevokeCollectors, Cease, database, newsUnchanged
<1> SUFFICES ASSUME NEW i \in Jobs, NEW h \in Kinds PROVE Safe(i, h)
  OBVIOUS
<1>2. RowKept(i, h) /\ JobKept(i) /\ (mod'[i][h].status = "running" => job'[i] \in Active)
  BY <1>1, RowsStay DEF JobKept, RunActive
<1>3. ASSUME NEW j \in Jobs, NEW scope \in Scopes, Cancel(j, scope) PROVE Safe(i, h)
  <2>1. CASE i = j /\ scope \in {"all", h}
    <3>1. scope \in Naming(h) /\ order'[i][scope] < order[i][scope]
      BY <1>3, <2>1, OrderLess DEF Cancel, Naming, Typed
    <3>2. QED BY <1>2, <3>1 DEF Safe, Watched, GivenUp
  <2>2. CASE ~(i = j /\ scope \in {"all", h})
    <3>1. actor'[i][h] = actor[i][h] /\ UNCHANGED <<up, news>>
      BY <1>3, <2>2 DEF Cancel, Typed, Actors
    <3>2. QED BY <1>2, <3>1, CalmSafe DEF Relieved
  <2>3. QED BY <2>1, <2>2
<1>4. ASSUME NEW c \in Changes, CancelFormal(c) PROVE Safe(i, h)
  <2>1. /\ news[c].step = "cancel" /\ news'[c].step = "suspend" /\ news'[c].owner = news[c].owner /\ UNCHANGED up
        /\ \A d \in Changes \ {c} : news'[d] = news[d]
    BY <1>4 DEF CancelFormal, newsUnchanged, Typed, AllNews, NewsState
  <2>2. Relieved(i, h) => Relieved(i, h)'
    BY <2>1 DEF Relieved
  <2>3. CASE OwnerOf[i] = news[c].owner /\ h # "collector"
    <3>1. Relieved(i, h)'
      BY <2>1, <2>3 DEF Relieved
    <3>2. QED BY <1>1, <1>2, <2>1, <3>1 DEF Safe, Watched
  <2>4. CASE ~(OwnerOf[i] = news[c].owner /\ h # "collector")
    <3>1. actor'[i][h] = actor[i][h]
      BY <1>4, <2>4 DEF CancelFormal, Typed, Actors
    <3>2. QED BY <1>2, <2>1, <2>2, <3>1, CalmSafe
  <2>5. QED BY <2>3, <2>4
<1>5. ASSUME NEW c \in Changes, RevokeCollectors(c) PROVE Safe(i, h)
  <2> DEFINE affected == IF news[c].stale THEN {j \in Jobs : actor[j]["collector"].pc # "none"} ELSE {}
  <2>1. /\ news[c].step = "revoke" /\ UNCHANGED up
        /\ news' = [news EXCEPT ![c].step = "collectors", ![c].changed = affected]
        /\ actor' = [j \in Jobs |-> IF j \in affected
                              THEN [actor[j] EXCEPT !["collector"] = Killed(@)] ELSE actor[j]]
    BY <1>5 DEF RevokeCollectors, newsUnchanged
  <2> HIDE DEF affected
  <2>2. /\ news'[c].step = "collectors" /\ news'[c].changed = affected
        /\ \A d \in Changes \ {c} : news'[d] = news[d]
    BY <2>1 DEF Typed, AllNews, NewsState
  <2>3. Relieved(i, h) => Relieved(i, h)'
    BY <2>1, <2>2 DEF Relieved
  <2>4. CASE i \in affected /\ h = "collector"
    <3>1. Relieved(i, h)'
      BY <2>2, <2>4 DEF Relieved
    <3>2. QED BY <1>1, <1>2, <2>1, <3>1 DEF Safe, Watched
  <2>5. CASE ~(i \in affected /\ h = "collector")
    <3>1. actor'[i][h] = actor[i][h]
      BY <2>1, <2>5 DEF Typed, Actors
    <3>2. QED BY <1>2, <2>1, <2>3, <3>1, CalmSafe
  <2>6. QED BY <2>4, <2>5
<1>6. CASE Cease
  BY <1>2, <1>6 DEF Cease, Safe, Watched
<1>7. QED BY <1>3, <1>4, <1>5, <1>6 DEF Cancelling

\* A preparation only reports what is not running, and disturbs no worker.
LEMMA PreparationSafe ==
  ASSUME Typed, RunActive, NEW j \in Jobs, Preparation(j) \/ DiscoverFails(j) \/ Enroll(j) \/ Claim(j)
  PROVE  \A i \in Jobs, h \in Kinds : Safe(i, h)
<1>1. CASE (Preparation(j) \/ DiscoverFails(j)) /\ ~EndPrepare(j)
  <2>1. \A i \in Jobs, h \in Kinds : RowKept(i, h)
    <3>1. CASE UNCHANGED mod
      BY <3>1, RowsStay
    <3>2. ASSUME NEW k \in Kinds, NEW status \in ModuleStatuses \ {"running"}, Module(j, k, status)
          PROVE  \A i \in Jobs, h \in Kinds : RowKept(i, h)
      BY <3>2, ReportedKept
    <3>3. CASE AddCollector(j)
      BY <3>1, <3>2, <3>3, Constants, Statuses DEF AddCollector
    <3>4. CASE FindHelper(j)
      BY <3>1, <3>2, <3>4, Constants, Statuses DEF FindHelper
    <3>5. CASE Block(j)
      <4>1. prep[j] \in Stage /\ prep[j].left \subseteq Kinds /\ prep[j].verdict \in ModuleStatuses \ {"running"}
        BY <3>5, Statuses DEF Block, At, Typed, Preps, Stage, PrepState
      <4>2. QED BY <3>1, <3>2, <3>5, <4>1 DEF Block
    <3>6. CASE MarkRunning(j) \/ Get(j) \/ Discover(j) \/ Exercises(j) \/ LaunchHomework(j) \/ DiscoverFails(j)
      BY <3>1, <3>6 DEF MarkRunning, Get, Discover, Exercises, LaunchHomework, DiscoverFails
    <3>7. CASE LaunchMedia(j)
      <4>1. prep[j] \in Stage /\ prep[j].left \subseteq Kinds
        BY DEF Typed, Preps, Stage, PrepState
      <4>2. QED BY <3>1, <3>2, <3>7, <4>1, Statuses DEF LaunchMedia
    <3>8. QED BY <1>1, <3>3, <3>4, <3>5, <3>6, <3>7 DEF Preparation
  <2>2. \A i \in Jobs : JobKept(i)
    <3>1. CASE MarkRunning(j)
      BY <3>1 DEF MarkRunning, JobKept, Active, Typed
    <3>2. CASE UNCHANGED job
      BY <3>2 DEF JobKept
    <3>3. MarkRunning(j) \/ UNCHANGED job
      BY <1>1 DEF Preparation, Get, Discover, LaunchMedia, Exercises, AddCollector, FindHelper, LaunchHomework, Block,
                  DiscoverFails
    <3>4. QED BY <3>1, <3>2, <3>3
  <2>3. ASSUME NEW i \in Jobs, NEW h \in Kinds PROVE Safe(i, h)
    <3>1. /\ actor'[i][h] = actor[i][h] \/ actor[i][h].pc = "none"
          /\ UNCHANGED <<news, up>>
      BY <1>1, PreparationFrame
    <3>2. QED BY <2>1, <2>2, <3>1, CalmSafe DEF Relieved
  <2>4. QED BY <2>3
<1>2. CASE EndPrepare(j) \/ Claim(j)
  <2>1. UNCHANGED <<job, mod, actor, up, news>>
    BY <1>2 DEF EndPrepare, Claim, database
  <2>2. QED BY <2>1, RowsStay, CalmSafe DEF JobKept, Relieved
<1>3. CASE Enroll(j)
  <2>1. \A i \in Jobs, h \in Kinds : RowKept(i, h)
    BY <1>3, ReportedKept, Constants, Statuses DEF Enroll
  <2>2. QED BY <1>3, <2>1, CalmSafe DEF Enroll, JobKept, Relieved
<1>4. QED BY <1>1, <1>2, <1>3

\* A job with a running module is aggregated to one that is queued.
LEMMA SettleSafe ==
  ASSUME Typed, RunActive, NEW j \in Jobs, Settle(j) \/ Aggregate(j)
  PROVE  \A i \in Jobs, h \in Kinds : Safe(i, h)
<1>1. UNCHANGED <<mod, actor, up, news>>
  BY DEF Settle, Aggregate, database
<1> SUFFICES ASSUME NEW i \in Jobs, NEW h \in Kinds PROVE Safe(i, h)
  OBVIOUS
<1>2. RowKept(i, h)
  BY <1>1, RowsStay
<1>3. CASE mod[i][h].status # "running"
  BY <1>1, <1>3 DEF Safe, Watched
<1>4. CASE mod[i][h].status = "running"
  <2>1. CASE Settle(j) \/ i # j
    BY <1>1, <1>2, <2>1, CalmSafe DEF Settle, Aggregate, database, JobKept, Relieved, Typed
  <2>2. CASE Aggregate(j) /\ i = j
    <3>1. Summary(j) = "queued"
      BY <1>4, <2>2 DEF Summary, Has
    <3>2. JobKept(i)
      BY <2>2, <3>1 DEF Aggregate, JobKept, Active, Held, Typed
    <3>3. QED BY <1>1, <1>2, <3>2, CalmSafe DEF Relieved
  <2>3. QED BY <2>1, <2>2
<1>5. QED BY <1>3, <1>4

\* The rest of an account change queues what waits, or moves the running modules
\* on whose workers it has cancelled.
LEMMA NewsSafe ==
  ASSUME Typed, RunActive, NEW c \in Changes,
         SuspendFormal(c) \/ QueueCollectors(c) \/ QueueHomework(c) \/ QueueJobs(c) \/ Change(c)
  PROVE  \A i \in Jobs, h \in Kinds : Safe(i, h)
<1>1. UNCHANGED <<actor, up>> /\ \A d \in Changes \ {c} : news'[d] = news[d]
  BY DEF SuspendFormal, QueueCollectors, QueueHomework, QueueJobs, Change, HelperChanges, PrimaryChanges,
         newsUnchanged, Typed, AllNews
<1> SUFFICES ASSUME NEW i \in Jobs, NEW h \in Kinds PROVE Safe(i, h)
  OBVIOUS
<1> DEFINE Mine == \/ news[c].step = "suspend" /\ news[c].owner = OwnerOf[i] /\ h # "collector"
                   \/ news[c].step = "collectors" /\ i \in news[c].changed /\ h = "collector"
<1>2. ASSUME RowKept(i, h), JobKept(i), mod'[i][h].status = "running" => ~Mine PROVE Safe(i, h)
  <2>1. mod'[i][h].status = "running" /\ Relieved(i, h) => Relieved(i, h)'
    BY <1>1, <1>2 DEF Relieved
  <2>2. QED BY <1>1, <1>2, <2>1, CalmSafe
<1>3. mod[i][h].status = "running" => job[i] \in Active
  BY DEF RunActive
<1>4. CASE SuspendFormal(c)
  <2> DEFINE rows == [j \in Jobs |-> {k \in Kinds \ {"collector"} :
                    /\ OwnerOf[j] = news[c].owner
                    /\ job[j] \in Active
                    /\ mod[j][k].status \in {"running", "queued", "waiting_answers", "waiting_account"}}]
  <2>1. mod' = Moved(rows, "waiting_account") /\ UNCHANGED job /\ news[c].step = "suspend"
    BY <1>4 DEF SuspendFormal
  <2>2. mod[i][h].status = "running" /\ Mine => h \in rows[i]
    BY <1>3, <2>1
  <2> HIDE DEF rows
  <2>3. RowKept(i, h) /\ (h \in rows[i] => mod'[i][h].status # "running")
    BY <2>1, MovedKept, Statuses
  <2>4. QED BY <1>2, <2>1, <2>2, <2>3 DEF RowKept, JobKept
<1>5. CASE QueueCollectors(c)
  <2> DEFINE rows == [j \in Jobs |-> {k \in {"collector"} :
                    /\ job[j] \in Active
                    /\ \/ mod[j][k].status \in {"waiting_account", "waiting_enrollment"}
                       \/ j \in news[c].changed /\ mod[j][k].status = "running"}]
  <2>1. mod' = Moved(rows, "queued") /\ UNCHANGED job /\ news[c].step = "collectors"
    BY <1>5 DEF QueueCollectors
  <2>2. mod[i][h].status = "running" /\ Mine => h \in rows[i]
    BY <1>3, <2>1
  <2> HIDE DEF rows
  <2>3. RowKept(i, h) /\ (h \in rows[i] => mod'[i][h].status # "running")
    BY <2>1, MovedKept, Statuses
  <2>4. QED BY <1>2, <2>1, <2>2, <2>3 DEF RowKept, JobKept
<1>6. CASE QueueHomework(c)
  <2>1. mod[i][h] \in Row
    BY DEF Typed, Table
  <2>2. mod'[i][h] = mod[i][h] \/ mod'[i][h] = [mod[i][h] EXCEPT !.status = "queued"]
    BY <1>6, Constants DEF QueueHomework, Typed, Table
  <2>3. [mod[i][h] EXCEPT !.status = "queued"].status = "queued"
    BY <2>1 DEF Row
  <2>4. RowKept(i, h)
    BY <2>2, <2>3 DEF RowKept
  <2>5. QED BY <1>2, <1>6, <2>4 DEF QueueHomework, JobKept
<1>7. CASE QueueJobs(c)
  <2>1. RowKept(i, h)
    BY <1>7, RowsStay DEF QueueJobs
  <2>2. JobKept(i)
    BY <1>7 DEF QueueJobs, JobKept, Active, Typed
  <2>3. ~Mine
    BY <1>7 DEF QueueJobs
  <2>4. QED BY <1>2, <2>1, <2>2, <2>3
<1>8. CASE Change(c)
  <2>1. RowKept(i, h) /\ JobKept(i)
    BY <1>8, RowsStay DEF Change, HelperChanges, PrimaryChanges, database, JobKept
  <2>2. ~Mine
    BY <1>8 DEF Change, HelperChanges, PrimaryChanges
  <2>3. QED BY <1>2, <2>1, <2>2
<1>9. QED BY <1>4, <1>5, <1>6, <1>7, <1>8

\* The start and the end of a process leave no module running.
LEMMA ProcessSafe ==
  ASSUME Typed, RunActive, Query \/ Boot \/ Close \/ Crash
  PROVE  \A i \in Jobs, h \in Kinds : Safe(i, h)
<1> SUFFICES ASSUME NEW i \in Jobs, NEW h \in Kinds PROVE Safe(i, h)
  OBVIOUS
<1>1. CASE Boot \/ Close
  <2> DEFINE rows == [j \in Jobs |-> {k \in Kinds :
                      /\ job[j] \in Active
                      /\ mod[j][k].status \in {"running", "queued", "waiting_answers"}}]
  <2>1. mod' = Moved(rows, "queued")
    BY <1>1 DEF Boot, Close, Recover
  <2>2. mod[i][h].status = "running" => h \in rows[i]
    BY DEF RunActive
  <2> HIDE DEF rows
  <2>3. RowKept(i, h) /\ (h \in rows[i] => mod'[i][h].status # "running")
    BY <2>1, MovedKept, Statuses
  <2>4. QED BY <2>2, <2>3 DEF RowKept, Safe, Watched
<1>2. CASE Crash
  BY <1>2 DEF Crash, database, Safe, Watched, RunActive
<1>3. CASE Query
  BY <1>3, RowsStay, CalmSafe DEF Query, database, JobKept, Relieved
<1>4. QED BY <1>1, <1>2, <1>3

\* Other modules than the one whose worker makes a step.
LEMMA OthersSafe ==
  ASSUME Typed, RunActive, NEW j \in Jobs, NEW k \in Kinds, Actor(j, k) \/ RunFails(j, k) \/ RunCrashes(j, k),
         NEW i \in Jobs, NEW h \in Kinds, ~(i = j /\ h = k)
  PROVE  Safe(i, h)
<1>1. actor'[i][h] = actor[i][h]
  BY ActorFrame DEF Leave, Typed, Actors
<1>2. UNCHANGED <<job, up, news>>
  BY DEF Actor, Begin, RunEnds, RunFails, RunRefused, RunCrashes, RunCancelled, Requeue, Rediscover, Finish, Leave,
         actorUnchanged, database
<1>3. RowKept(i, h)
  <2>1. CASE UNCHANGED mod
    BY <2>1, RowsStay
  <2>2. CASE Begin(j, k)
    <3>1. CASE mod' = [mod EXCEPT ![j][k].status = "running", ![j][k].gen = @ + 1]
      <4>1. /\ mod'[j][k].status = "running" /\ mod'[j][k].gen = mod[j][k].gen + 1
            /\ \A g \in Jobs, l \in Kinds : ~(g = j /\ l = k) => mod'[g][l] = mod[g][l]
        BY <3>1, RowBegun DEF Typed
      <4>2. QED BY <4>1 DEF RowKept
    <3>2. QED BY <2>1, <2>2, <3>1 DEF Begin
  <2>3. CASE Requeue(j, k)
    <3>1. CASE /\ mod[j][k].restarts < 1
               /\ mod' = [mod EXCEPT ![j][k].status = "queued", ![j][k].restarts = @ + 1]
      <4>1. /\ mod'[j][k].status = "queued" /\ mod'[j][k].gen = mod[j][k].gen
            /\ \A g \in Jobs, l \in Kinds : ~(g = j /\ l = k) => mod'[g][l] = mod[g][l]
        BY <3>1, RowRequeued DEF Typed
      <4>2. QED BY <4>1 DEF RowKept
    <3>2. QED BY <2>1, <2>3, <3>1 DEF Requeue
  <2>4. CASE Rediscover(j, k)
    BY <2>1, <2>4, ReportedKept, Statuses DEF Rediscover
  <2>5. CASE Finish(j, k)
    <3> DEFINE result == actor[j][k].result
    <3>1. result \in ModuleStatuses
      BY <2>5, Statuses DEF Finish, Being, Typed, Actors, Work, ActorState
    <3>2. UNCHANGED mod \/ mod' = [mod EXCEPT ![j][k].status = result]
      BY <2>5 DEF Finish
    <3> HIDE DEF result
    <3>3. QED BY <2>1, <3>1, <3>2, RowStatus DEF Typed, RowKept
  <2>6. QED BY <2>1, <2>2, <2>3, <2>4, <2>5
    DEF Actor, RunEnds, RunFails, RunRefused, RunCrashes, RunCancelled, Leave, database
<1>4. QED BY <1>1, <1>2, <1>3, CalmSafe DEF JobKept, Relieved

LEMMA FinishedRow ==
  ASSUME Typed, NEW j \in Jobs, NEW k \in Kinds, NEW result \in Results, mod' = [mod EXCEPT ![j][k].status = result]
  PROVE  RowKept(j, k) /\ mod'[j][k].status # "running"
<1>1. mod \in Table /\ result \in ModuleStatuses /\ result # "running"
  BY Statuses DEF Typed, Results
<1>2. mod'[j][k].status = result
  <2>1. mod'[j][k] = [mod[j][k] EXCEPT !.status = result] /\ mod[j][k] \in Row
    BY <1>1 DEF Table
  <2>2. QED BY <2>1 DEF Row
<1>3. QED BY <1>1, <1>2 DEF RowKept

\* The module whose worker makes a step.
LEMMA ActorSafe ==
  ASSUME Typed, RunActive, NEW j \in Jobs, NEW k \in Kinds, Actor(j, k) \/ RunFails(j, k) \/ RunCrashes(j, k)
  PROVE  Safe(j, k)
<1>1. UNCHANGED <<job, up, news>>
  BY DEF Actor, Begin, RunEnds, RunFails, RunRefused, RunCrashes, RunCancelled, Requeue, Rediscover, Finish, Leave,
         actorUnchanged, database
<1>2. /\ mod[j][k].status = "running" => job[j] \in Active
      /\ actor[j][k] \in Work /\ actor \in Actors /\ mod \in Table
  BY DEF RunActive, Typed, Actors
<1>3. ASSUME RowKept(j, k), mod'[j][k].status = "running" /\ Attended(j, k) => Attended(j, k)' \/ GivenUp(j, k)
      PROVE  Safe(j, k)
  <2>1. Relieved(j, k) => Relieved(j, k)'
    BY <1>1 DEF Relieved
  <2>2. Watched(j, k)
    BY <1>1, <1>3, <2>1 DEF Watched, RowKept
  <2>3. QED BY <1>1, <1>2, <1>3, <2>2 DEF Safe, RowKept
<1>4. UNCHANGED mod => RowKept(j, k)
  BY RowsStay
<1>5. ASSUME NEW result \in Results, End(j, k, result), UNCHANGED mod PROVE Safe(j, k)
  <2>1. actor'[j][k].pc = "finish" /\ SameRun(j, k)
    BY <1>2, <1>5, EndStep
  <2>2. QED BY <1>3, <1>4, <1>5, <2>1 DEF SameRun, Attended, Working
<1>6. CASE Begin(j, k)
  <2>1. CASE UNCHANGED mod
    BY <1>3, <1>4, <1>6, <2>1 DEF Begin, Being, Attended, Working
  <2>2. CASE ~UNCHANGED mod
    <3>1. /\ job[j] = "running" /\ ~actor[j][k].dead
          /\ mod' = [mod EXCEPT ![j][k].status = "running", ![j][k].gen = @ + 1]
          /\ actor' = [actor EXCEPT ![j][k].pc = "run", ![j][k].gen = mod[j][k].gen + 1]
      BY <1>6, <2>2 DEF Begin
    <3>2. mod'[j][k].gen = mod[j][k].gen + 1
      BY <1>2, <3>1, RowBegun
    <3>3. actor'[j][k].gen = mod[j][k].gen + 1 /\ actor'[j][k].pc = "run" /\ ~actor'[j][k].dead
      <4> DEFINE gen == mod[j][k].gen + 1
      <4>1. actor' = [actor EXCEPT ![j][k].pc = "run", ![j][k].gen = gen]
        BY <3>1
      <4> HIDE DEF gen
      <4>2. actor'[j][k].gen = gen /\ actor'[j][k].pc = "run" /\ actor'[j][k].dead = actor[j][k].dead
        BY ONLY <1>2, <4>1, j \in Jobs, k \in Kinds DEF Actors, Work, ActorState
      <4>3. QED BY <3>1, <4>2 DEF gen
    <3>4. Attended(j, k)'
      BY <3>2, <3>3 DEF Attended, Working
    <3>5. job'[j] \in Active
      BY <1>1, <3>1 DEF Active
    <3>6. QED BY <3>4, <3>5 DEF Safe, Watched
  <2>3. QED BY <2>1, <2>2
<1>7. CASE RunEnds(j, k)
  BY <1>5, <1>7, EndingsAreResults DEF RunEnds
<1>8. CASE RunFails(j, k) \/ RunRefused(j, k)
  BY <1>5, <1>8 DEF RunFails, RunRefused, Results, database
<1>9. CASE RunCrashes(j, k)
  <2>1. CASE End(j, k, "blocked")
    BY <1>5, <1>9, <2>1 DEF RunCrashes, Results, database
  <2>2. CASE Enter(j, k, "requeue")
    <3>1. actor'[j][k].pc = "requeue" /\ SameRun(j, k) /\ UNCHANGED mod
      BY <1>2, <1>9, <2>2, EnterStep DEF RunCrashes, database
    <3>2. QED BY <1>3, <1>4, <3>1 DEF SameRun, Attended, Working
  <2>3. QED BY <1>9, <2>1, <2>2 DEF RunCrashes
<1>10. CASE RunCancelled(j, k)
  BY <1>3, <1>4, <1>10 DEF RunCancelled, Attended, Working, database
<1>11. CASE Requeue(j, k)
  <2>1. CASE UNCHANGED mod
    <3>1. mod[j][k].restarts \in 0 .. 1 /\ actor[j][k].pc = "requeue"
      BY <1>2, <1>11 DEF Requeue, Being, Table, Row
    <3>2. ASSUME Attended(j, k), mod[j][k].status = "running" PROVE mod[j][k].restarts = 1
      <4>1. CASE mod[j][k].restarts < 1
        <5>1. mod' = [mod EXCEPT ![j][k].status = "queued", ![j][k].restarts = @ + 1]
          BY <1>11, <3>2, <4>1 DEF Requeue, Attended, Working
        <5>2. mod'[j][k].status = "queued"
          BY <1>2, <4>1, <5>1, RowRequeued
        <5>3. QED BY <2>1, <3>2, <5>2
      <4>2. QED BY <3>1, <4>1
    <3>3. QED BY <1>3, <1>4, <2>1, <3>1, <3>2 DEF GivenUp
  <2>2. CASE ~UNCHANGED mod
    <3>1. /\ mod[j][k].restarts < 1
          /\ mod' = [mod EXCEPT ![j][k].status = "queued", ![j][k].restarts = @ + 1]
      BY <1>11, <2>2 DEF Requeue
    <3>2. mod'[j][k].status = "queued"
      BY <1>2, <3>1, RowRequeued
    <3>3. QED BY <3>2 DEF Safe, Watched
  <2>3. QED BY <2>1, <2>2
<1>12. CASE Rediscover(j, k)
  <2>1. RowKept(j, k)
    BY <1>4, <1>12, ReportedKept, Statuses DEF Rediscover
  <2>2. QED BY <1>3, <1>12, <2>1 DEF Rediscover, Being, Attended, Working
<1>13. CASE Finish(j, k)
  <2> DEFINE result == actor[j][k].result
  <2>1. result \in Results /\ actor[j][k].pc = "finish"
    BY <1>13 DEF Finish, Being, Typed, Actors, Work, ActorState
  <2>2. /\ UNCHANGED mod \/ mod' = [mod EXCEPT ![j][k].status = result]
        /\ mod[j][k].status = "running" /\ Attended(j, k) /\ job[j] = "running"
             => mod' = [mod EXCEPT ![j][k].status = result]
    BY <1>13 DEF Finish, Fenced, Attended, Working
  <2> HIDE DEF result
  <2>3. mod' = [mod EXCEPT ![j][k].status = result] => RowKept(j, k) /\ mod'[j][k].status # "running"
    BY <2>1, FinishedRow
  <2>4. RowKept(j, k)
    BY <1>4, <2>2, <2>3
  <2>5. QED BY <1>3, <2>1, <2>2, <2>3, <2>4 DEF RowKept, GivenUp
<1>14. CASE Leave(j, k)
  BY <1>3, <1>4, <1>14 DEF Leave, Being, Attended, Working, database
<1>15. QED BY <1>6, <1>7, <1>8, <1>9, <1>10, <1>11, <1>12, <1>13, <1>14 DEF Actor

LEMMA NextSafe ==
  ASSUME Typed, RunActive, [Next]_vars
  PROVE  \A i \in Jobs, h \in Kinds : Safe(i, h)
<1>1. CASE UNCHANGED vars
  BY <1>1, RowsStay, CalmSafe DEF vars, database, memory, JobKept, Relieved
<1>2. ASSUME NEW j \in Jobs, NEW k \in Kinds, Actor(j, k) \/ RunFails(j, k) \/ RunCrashes(j, k),
             NEW i \in Jobs, NEW h \in Kinds
      PROVE  Safe(i, h)
  <2>1. CASE i = j /\ h = k
    BY <1>2, <2>1, ActorSafe
  <2>2. CASE ~(i = j /\ h = k)
    BY <1>2, <2>2, OthersSafe
  <2>3. QED BY <2>1, <2>2
<1>3. CASE Next
  BY <1>2, <1>3, UserSafe, CancelSafe, PreparationSafe, SettleSafe, NewsSafe, ProcessSafe
  DEF Next, News, Dispatch, Process, Mishap, Cancelling
<1>4. QED BY <1>1, <1>3

\* Whatever the requests, account changes, crashes of workers and restarts of
\* the service, a running module loses the worker in charge of it in three ways
\* only: a request that was committed earlier cancels it, it crashes where one
\* has crashed before, or it ends while its job is queued again (Engine.Control,
\* launch, FinishModule).  Account changes, shutdowns and recovery never do it.
THEOREM DesertedOnlyIfGivenUpTheorem == Spec => DesertedOnlyIfGivenUp
<1>1. Init => RunActive
  BY DEF Init, RunActive
<1>2. EngineInv /\ RunActive /\ [Next]_vars => RunActive'
  BY NextSafe DEF EngineInv, RunActive, Safe
<1>3. EngineInv /\ RunActive /\ [Next]_vars =>
        [\A j \in Jobs : \A k \in Kinds : ~Deserted(j, k) /\ Deserted(j, k)' => GivenUp(j, k)]_vars
  BY NextSafe DEF EngineInv, Safe, Watched, Deserted
<1>4. QED BY <1>1, <1>2, <1>3, EngineInductive, PTL DEF Spec, DesertedOnlyIfGivenUp

=============================================================================
