---------------------------- MODULE EffectProofs ----------------------------
(***************************************************************************)
(* Proofs about Effect, for any set of servers and any bound on abandoned  *)
(* POSTs: what the journal and the runners claim the platform shows, and   *)
(* that a unit which must be written once is written at most once.         *)
(***************************************************************************)
EXTENDS Effect, TLAPS

FlowOK == flow \in [Servers -> FlowState]

\* A flow between its own "pending" and the verdict on it.
Attempting(s) == flow[s].pc \in {"call", "wire", "save"}

\* The flow's POST may still be taken, or a POST of it has not been answered in
\* a way that leaves this open.
Untaken(s) ==
  \/ flow[s].pc = "call"
  \/ flow[s].pc \in {"wire", "save"} /\ flow[s].call \in {"wire", "denied"} \union Refusals

Unsent == posts = 0 /\ adrift = 0

-----------------------------------------------------------------------------
(* The inductive invariants.                                                *)

\* Whoever is about to record or to report a unit as done has seen it done.
ShownInv ==
  /\ row = "confirmed" => done
  /\ \A s \in Servers : flow[s].said # "nothing" \/ flow[s].pc \in {"confirm", "reload"} => done

WireInv == \A s \in Servers : flow[s].call = "wire" => flow[s].pc = "wire"

\* One attempt at a time, owned by the flow whose copy of the row is fresh.
AttemptInv ==
  /\ \A s \in Servers : flow[s].pc # "check"
  /\ \A s, t \in Servers : Attempting(s) /\ Attempting(t) => s = t
  /\ \A s \in Servers : Attempting(s) /\ flow[s].fresh => row = "pending"
  /\ \A s \in Servers : flow[s].pc = "mark" /\ flow[s].fresh => row \in {"new", "rejected"}
  /\ row \in {"new", "rejected"} => Unsent /\ \A s \in Servers : ~Attempting(s)
  /\ \A s \in Servers : Untaken(s) => Unsent
  /\ posts + adrift <= 1

OnceInv == kind \in OnceKinds => AttemptInv

IInv == TypeOK /\ ShownInv /\ WireInv /\ OnceInv

-----------------------------------------------------------------------------
(* Values of flows, and updates of one.                                     *)

\* The fields of a flow that the invariants read.
Fields(f, pc, fresh, call, said) ==
  f.pc = pc /\ f.fresh = fresh /\ f.call = call /\ f.said = said

Others(s) == \A t \in Servers \ {s} : flow'[t] = flow[t]

\* Another flow after s has saved "state": only its copy may have gone stale.
Outrun(t, state) ==
  /\ \A other \in {"pc", "call", "said"} : flow'[t][other] = flow[t][other]
  /\ flow'[t].fresh => (flow[t].fresh /\ state = row /\ state # "pending")

LEMMA PcsMembers ==
  Pcs = {"idle", "load", "check", "call", "wire", "reload",
         "look", "publish", "offer", "verify", "mark", "save", "confirm"}
BY DEF Pcs, Looks, Saves

LEMMA FlowFields ==
  ASSUME FlowOK, NEW s \in Servers
  PROVE  /\ flow[s] \in FlowState
         /\ flow[s].pc \in Pcs /\ flow[s].fresh \in BOOLEAN /\ flow[s].reads \in 0 .. 2
         /\ flow[s].call \in {"no", "wire"} \union Errors \union Replies
         /\ flow[s].mine \in BOOLEAN /\ flow[s].said \in {"nothing", "completed", "skipped"}
BY DEF FlowOK, FlowState

LEMMA IdleType == Idle \in FlowState /\ Fields(Idle, "idle", FALSE, "no", "nothing")
BY PcsMembers DEF Idle, FlowState, Fields

LEMMA AtType ==
  ASSUME NEW pc \in Pcs
  PROVE  /\ At(pc) \in FlowState /\ Fields(At(pc), pc, FALSE, "no", "nothing")
         /\ With(pc) \in FlowState /\ Fields(With(pc), pc, TRUE, "no", "nothing")
BY IdleType DEF At, With, Idle, FlowState, Fields

LEMMA EndedType ==
  ASSUME NEW what \in {"completed", "skipped"}
  PROVE  Ended(what) \in FlowState /\ Fields(Ended(what), "idle", FALSE, "no", what)
BY IdleType DEF Ended, Idle, FlowState, Fields

LEMMA AfterEffectType ==
  ASSUME NEW ok \in BOOLEAN
  PROVE  /\ AfterEffect(ok) \in FlowState
         /\ \/ Fields(AfterEffect(ok), "verify", FALSE, "no", "nothing")
            \/ Fields(AfterEffect(ok), "idle", FALSE, "no", "nothing")
<1>1. "verify" \in Pcs
  BY PcsMembers
<1>2. At("verify") \in FlowState /\ Fields(At("verify"), "verify", FALSE, "no", "nothing")
  BY <1>1, AtType
<1>3. [At("verify") EXCEPT !.mine = ok] \in FlowState
  BY <1>2 DEF FlowState
<1>4. Fields([At("verify") EXCEPT !.mine = ok], "verify", FALSE, "no", "nothing")
  BY <1>2 DEF FlowState, Fields
<1>5. QED BY <1>2, <1>3, <1>4, IdleType DEF AfterEffect

LEMMA GotoStep ==
  ASSUME FlowOK, NEW s \in Servers, NEW next \in FlowState, Goto(s, next)
  PROVE  FlowOK' /\ Others(s) /\ flow'[s] = next
BY DEF FlowOK, Others, Goto

LEMMA SavedStep ==
  ASSUME FlowOK, NEW s \in Servers, NEW state \in States, NEW next \in FlowState,
         Saved(s, state, next)
  PROVE  /\ FlowOK' /\ row' = state /\ flow[s].fresh /\ flow'[s] = next
         /\ \A t \in Servers \ {s} : Outrun(t, state)
<1>1. \A t \in Servers : flow[t] \in FlowState /\ [flow[t] EXCEPT !.fresh = FALSE] \in FlowState
  BY DEF FlowOK, FlowState
<1>2. FlowOK'
  BY <1>1 DEF FlowOK, Saved
<1>3. ASSUME NEW t \in Servers \ {s}
      PROVE  Outrun(t, state)
  <2>1. CASE state = row /\ state # "pending"
    BY <2>1 DEF Saved, Outrun
  <2>2. CASE ~(state = row /\ state # "pending")
    <3>1. flow'[t] = [flow[t] EXCEPT !.fresh = FALSE]
      BY <2>2 DEF Saved
    <3>2. QED BY <1>1, <3>1 DEF Outrun, FlowState
  <2>3. QED BY <2>1, <2>2
<1>4. QED BY <1>2, <1>3 DEF Saved

\* The fields of a flow whose place or call is replaced.
LEMMA MoveType ==
  ASSUME NEW f \in FlowState, NEW pc \in Pcs,
         NEW how \in {"no", "wire"} \union Errors \union Replies
  PROVE  /\ [f EXCEPT !.pc = pc] \in FlowState
         /\ Fields([f EXCEPT !.pc = pc], pc, f.fresh, f.call, f.said)
         /\ [f EXCEPT !.call = how] \in FlowState
         /\ Fields([f EXCEPT !.call = how], f.pc, f.fresh, how, f.said)
         /\ [f EXCEPT !.pc = pc, !.call = how] \in FlowState
         /\ Fields([f EXCEPT !.pc = pc, !.call = how], pc, f.fresh, how, f.said)
<1>1. /\ [f EXCEPT !.pc = pc] \in FlowState
      /\ [f EXCEPT !.call = how] \in FlowState
      /\ [f EXCEPT !.pc = pc, !.call = how] \in FlowState
  BY DEF FlowState
<1>2. QED BY <1>1 DEF FlowState, Fields

-----------------------------------------------------------------------------
(* What each action does.                                                   *)

\* A POST that its flow leaves.
Drifts(s) == adrift' = adrift \/ (flow[s].call = "wire" /\ adrift' = adrift + 1)

LEMMA DriftStep ==
  ASSUME TypeOK, NEW s \in Servers, adrift' = Drift(s)
  PROVE  Drifts(s) /\ adrift' \in 0 .. MaxAdrift
BY EffectAssumption DEF TypeOK, Drift, Drifts

\* Steps of a flow that neither is nor will be in an attempt, and leaves the
\* row alone: what it sees of the unit and of the row.
Quiet(s) ==
  /\ FlowOK' /\ Others(s) /\ UNCHANGED <<kind, row, posts, done, counted, well>>
  /\ Drifts(s) /\ adrift' \in 0 .. MaxAdrift
  /\ flow'[s].call # "wire"
  /\ flow'[s].pc \notin {"call", "wire", "save"}
  /\ flow'[s].said # "nothing" \/ flow'[s].pc \in {"confirm", "reload"} => done
  /\ kind \in OnceKinds =>
       /\ flow'[s].pc # "check"
       /\ flow'[s].pc = "mark" => row \in {"new", "rejected"}

LEMMA QuietStep ==
  ASSUME TypeOK, NEW s \in Servers, NEW next \in FlowState,
         Goto(s, next), UNCHANGED <<kind, row, platform, well>>,
         next.call # "wire", next.pc \notin {"call", "wire", "save"},
         next.said # "nothing" \/ next.pc \in {"confirm", "reload"} => done,
         kind \in OnceKinds => /\ next.pc # "check"
                               /\ next.pc = "mark" => row \in {"new", "rejected"}
  PROVE  Quiet(s)
<1>1. FlowOK
  BY DEF TypeOK, FlowOK
<1>2. FlowOK' /\ Others(s) /\ flow'[s] = next
  BY <1>1, GotoStep
<1>3. adrift' \in 0 .. MaxAdrift /\ adrift' = adrift
  BY DEF TypeOK, platform
<1>4. QED BY <1>2, <1>3 DEF Quiet, Drifts, platform

LEMMA LookStep ==
  ASSUME TypeOK, NEW s \in Servers,
         Start(s) \/ LookDone(s) \/ LookOpen(s) \/ Publish(s) \/ Offer(s)
  PROVE  Quiet(s)
<1>1. PICK next :
        /\ Goto(s, next) /\ UNCHANGED <<kind, row, platform, well>>
        /\ \/ next \in {At("look"), At("verify"), At("load"), At("publish"), At("offer")}
           \/ (next \in {At("reload"), Ended("skipped")} /\ done)
  BY DEF Start, LookDone, LookOpen, Publish, Offer, Forward, Seen
<1>2. /\ next \in FlowState
      /\ \/ \E pc \in {"look", "verify", "load", "publish", "offer"} :
              Fields(next, pc, FALSE, "no", "nothing")
         \/ (Fields(next, "reload", FALSE, "no", "nothing") /\ done)
         \/ (Fields(next, "idle", FALSE, "no", "skipped") /\ done)
  BY <1>1, AtType, EndedType, PcsMembers
<1>3. QED BY <1>1, <1>2, QuietStep DEF Fields

LEMMA CrashStep ==
  ASSUME TypeOK, NEW s \in Servers, Crash(s)
  PROVE  Quiet(s)
<1>1. FlowOK' /\ Others(s) /\ flow'[s] = Idle
  BY IdleType, GotoStep DEF Crash, TypeOK, FlowOK
<1>2. QED BY <1>1, IdleType, DriftStep DEF Crash, Quiet, Fields

LEMMA FailStep ==
  ASSUME TypeOK, NEW s \in Servers, Fail(s)
  PROVE  Quiet(s)
<1>1. PICK next \in {Idle, AfterEffect(FALSE)} : Goto(s, next)
  BY DEF Fail
<1>2. next \in FlowState /\ \E pc \in {"idle", "verify"} : Fields(next, pc, FALSE, "no", "nothing")
  BY <1>1, IdleType, AfterEffectType
<1>3. QED BY <1>1, <1>2, QuietStep DEF Fail, Fields

LEMMA VerifyStep ==
  ASSUME IInv, NEW s \in Servers, VerifyDone(s) \/ VerifyOpen(s)
  PROVE  Quiet(s)
<1>1. TypeOK /\ flow[s] \in FlowState /\ flow[s].pc = "verify" /\ flow[s].call # "wire"
      /\ (flow[s].said # "nothing" => done) /\ UNCHANGED <<kind, row, platform, well>>
  BY FlowFields DEF IInv, TypeOK, FlowOK, WireInv, ShownInv, VerifyDone, VerifyOpen
<1>2. CASE VerifyDone(s)
  <2>1. PICK next \in {At("reload"), Ended("completed"), Ended("skipped")} : Goto(s, next)
    BY <1>2 DEF VerifyDone
  <2>2. next \in FlowState /\ next.pc \in {"idle", "reload"} /\ next.call = "no"
    BY <2>1, AtType, EndedType, PcsMembers DEF Fields
  <2>3. done
    BY <1>2 DEF VerifyDone
  <2>4. QED BY <1>1, <2>1, <2>2, <2>3, QuietStep
<1>3. CASE VerifyOpen(s) /\ kind # "enrollment" /\ MoreLooks(s)
  <2>1. Goto(s, [flow[s] EXCEPT !.reads = @ + 1])
    BY <1>3 DEF VerifyOpen
  <2>2. flow[s].reads + 1 \in 0 .. 2
    BY <1>1, <1>3 DEF MoreLooks, FlowState
  <2>3. [flow[s] EXCEPT !.reads = @ + 1] \in FlowState
        /\ Fields([flow[s] EXCEPT !.reads = @ + 1], flow[s].pc, flow[s].fresh, flow[s].call, flow[s].said)
    BY <1>1, <2>2 DEF FlowState, Fields
  <2>4. QED BY <1>1, <2>1, <2>3, QuietStep DEF Fields
<1>4. CASE VerifyOpen(s) /\ ~(kind # "enrollment" /\ MoreLooks(s))
  <2>1. PICK next \in {Idle, At("look")} : Goto(s, next)
    BY <1>4 DEF VerifyOpen
  <2>2. next \in FlowState /\ next.pc \in {"idle", "look"} /\ next.call = "no" /\ next.said = "nothing"
    BY <2>1, AtType, IdleType, PcsMembers DEF Fields
  <2>3. QED BY <1>1, <2>1, <2>2, QuietStep
<1>5. QED BY <1>2, <1>3, <1>4

LEMMA ReloadStep ==
  ASSUME IInv, NEW s \in Servers, Reload(s)
  PROVE  Quiet(s)
<1>1. TypeOK /\ done
  BY DEF IInv, ShownInv, Reload
<1>2. PICK next \in {Ended("completed"), With("confirm")} : Goto(s, next)
  BY DEF Reload
<1>3. next \in FlowState /\ next.pc \in {"idle", "confirm"} /\ next.call = "no"
  BY <1>2, EndedType, AtType, PcsMembers DEF Fields
<1>4. QED BY <1>1, <1>2, <1>3, QuietStep DEF Reload

\* A copy that is taken for sending is of a row that lets it be sent.
LEMMA LoadStep ==
  ASSUME IInv, NEW s \in Servers, Load(s)
  PROVE  Quiet(s)
<1>1. TypeOK /\ kind \in Retryables \union OnceKinds
  BY EffectAssumption DEF IInv, TypeOK
<1> DEFINE next == Entrance(row)
           f == IF next \in {"replay", "review"} THEN AfterEffect(next = "replay") ELSE With(next)
<1>2. next \in {"mark", "check", "replay", "review"}
      /\ (kind \in OnceKinds => next # "check" /\ (next = "mark" => row \in {"new", "rejected"}))
  BY DEF Entrance, Retryables, OnceKinds
<1>3. Goto(s, f) /\ UNCHANGED <<kind, row, platform, well>>
  BY DEF Load
<1> HIDE DEF next
<1>4. f \in FlowState /\ f.call = "no" /\ f.said = "nothing"
      /\ (f.pc \in {"idle", "verify"} \/ (f.pc = next /\ next \in {"mark", "check"}))
  <2>1. CASE next \in {"replay", "review"}
    <3>1. (next = "replay") \in BOOLEAN
      OBVIOUS
    <3>2. QED BY <2>1, <3>1, AfterEffectType DEF Fields
  <2>2. CASE next \in {"mark", "check"}
    BY <2>2, AtType, PcsMembers DEF Fields
  <2>3. QED BY <1>2, <2>1, <2>2
<1> HIDE DEF f
<1>5. QED BY <1>1, <1>2, <1>3, <1>4, QuietStep

LEMMA CheckStep ==
  ASSUME IInv, NEW s \in Servers, CheckDone(s) \/ CheckOpen(s)
  PROVE  Quiet(s)
<1>1. TypeOK /\ flow[s] \in FlowState /\ flow[s].pc = "check" /\ flow[s].call # "wire"
      /\ (flow[s].said # "nothing" => done) /\ kind \notin OnceKinds
  BY FlowFields DEF IInv, TypeOK, FlowOK, WireInv, ShownInv, OnceInv, AttemptInv, CheckDone, CheckOpen
<1>2. PICK pc \in {"mark", "confirm"} :
        Goto(s, [flow[s] EXCEPT !.pc = pc]) /\ (pc = "confirm" => done)
  BY DEF CheckDone, CheckOpen
<1>3. [flow[s] EXCEPT !.pc = pc] \in FlowState
      /\ Fields([flow[s] EXCEPT !.pc = pc], pc, flow[s].fresh, flow[s].call, flow[s].said)
  BY <1>1, MoveType, PcsMembers
<1>4. QED BY <1>1, <1>2, <1>3, QuietStep DEF CheckDone, CheckOpen, Fields

\* Steps of a flow within its attempt.
Keeps(s) == FlowOK' /\ Others(s) /\ UNCHANGED <<kind, row>> /\ flow'[s].fresh = flow[s].fresh
            /\ flow'[s].said = flow[s].said

LEMMA MoveStep ==
  ASSUME FlowOK, NEW s \in Servers, NEW pc \in Pcs,
         NEW how \in {"no", "wire"} \union Errors \union Replies,
         Goto(s, [flow[s] EXCEPT !.pc = pc, !.call = how]), UNCHANGED <<kind, row>>
  PROVE  Keeps(s) /\ flow'[s].pc = pc /\ flow'[s].call = how
<1>1. flow[s] \in FlowState
  BY FlowFields
<1>2. /\ [flow[s] EXCEPT !.pc = pc, !.call = how] \in FlowState
      /\ Fields([flow[s] EXCEPT !.pc = pc, !.call = how], pc, flow[s].fresh, how, flow[s].said)
  BY <1>1, MoveType
<1>3. FlowOK' /\ Others(s) /\ flow'[s] = [flow[s] EXCEPT !.pc = pc, !.call = how]
  BY <1>2, GotoStep
<1>4. QED BY <1>2, <1>3 DEF Keeps, Fields

LEMMA PostStep ==
  ASSUME TypeOK, NEW s \in Servers, Post(s)
  PROVE  /\ Keeps(s) /\ UNCHANGED <<posts, done, counted, adrift, well>>
         /\ flow[s].pc = "call" /\ flow'[s].pc = "wire" /\ flow'[s].call = "wire"
<1>1. FlowOK
  BY DEF TypeOK, FlowOK
<1>2. QED BY <1>1, MoveStep, PcsMembers DEF Post, platform

LEMMA EndStep ==
  ASSUME TypeOK, NEW s \in Servers, CallFails(s) \/ Abandon(s)
  PROVE  /\ Keeps(s) /\ UNCHANGED <<posts, done, counted, well>>
         /\ Drifts(s) /\ adrift' \in 0 .. MaxAdrift
         /\ flow[s].pc \in {"call", "wire"} /\ flow'[s].pc = "save" /\ flow'[s].call \in Errors
<1>1. FlowOK
  BY DEF TypeOK, FlowOK
<1>2. PICK how \in Errors : Goto(s, [flow[s] EXCEPT !.pc = "save", !.call = how])
  BY DEF CallFails, Abandon, Errors
<1>3. UNCHANGED <<kind, row, posts, done, counted, well>>
  BY DEF CallFails, Abandon, platform
<1>4. Keeps(s) /\ flow'[s].pc = "save" /\ flow'[s].call = how
  BY <1>1, <1>2, <1>3, MoveStep, PcsMembers
<1>5. Drifts(s) /\ adrift' \in 0 .. MaxAdrift
  <2>1. CASE CallFails(s)
    BY <2>1 DEF CallFails, platform, TypeOK, Drifts
  <2>2. CASE Abandon(s)
    BY <2>2, DriftStep DEF Abandon
  <2>3. QED BY <2>1, <2>2
<1>6. QED BY <1>3, <1>4, <1>5 DEF CallFails, Abandon

LEMMA ReceiveStep ==
  ASSUME TypeOK, NEW s \in Servers, Receive(s)
  PROVE  /\ Keeps(s) /\ UNCHANGED <<posts, done, counted, adrift, well>>
         /\ flow[s].pc = "wire" /\ flow[s].call \in Replies
         /\ \/ flow[s].call = "denied" /\ flow'[s].pc = "call" /\ flow'[s].call = "no"
            \/ flow[s].call # "denied" /\ flow'[s].pc = "save" /\ flow'[s].call = flow[s].call
<1>1. FlowOK /\ flow[s] \in FlowState
  BY FlowFields DEF TypeOK, FlowOK
<1>2. CASE flow[s].call = "denied"
  BY <1>1, <1>2, MoveStep, PcsMembers DEF Receive, platform
<1>3. CASE flow[s].call # "denied"
  <2>1. [flow[s] EXCEPT !.pc = "save"] = [flow[s] EXCEPT !.pc = "save", !.call = flow[s].call]
    BY <1>1 DEF FlowState
  <2>2. QED BY <1>1, <1>3, <2>1, MoveStep, PcsMembers DEF Receive, platform
<1>4. QED BY <1>2, <1>3

\* What the platform shows of the unit is not taken back.
Reveals == (done => done') /\ done' \in BOOLEAN /\ counted' \in BOOLEAN

LEMMA ShowsReveals ==
  ASSUME TypeOK, NEW will \in BOOLEAN, Shows(will)
  PROVE  Reveals
<1>1. PICK now \in BOOLEAN : done' = (done \/ now)
  BY DEF Shows
<1>2. PICK later \in BOOLEAN : counted' = (kind = "discussion" /\ (counted \/ later))
  BY DEF Shows
<1>3. QED BY <1>1, <1>2 DEF TypeOK, Reveals

\* The platform answers a flow that waits.
LEMMA AnswerStep ==
  ASSUME TypeOK, NEW s \in Servers, Take(s) \/ TurnDown(s)
  PROVE  /\ Keeps(s) /\ UNCHANGED <<adrift, well>>
         /\ flow[s].call = "wire" /\ flow'[s].pc = flow[s].pc
         /\ \/ /\ posts' = AtMostTwo(posts) /\ Reveals
               /\ flow'[s].call \in {"accepted", "odd", "odd_5xx"}
            \/ /\ UNCHANGED <<posts, done, counted>>
               /\ flow'[s].call \in Refusals \union {"denied", "odd", "odd_5xx"}
<1>1. FlowOK /\ flow[s] \in FlowState /\ done \in BOOLEAN
  BY FlowFields DEF TypeOK, FlowOK
<1>2. ASSUME NEW reply \in Replies, Goto(s, [flow[s] EXCEPT !.call = reply]), UNCHANGED <<kind, row>>
      PROVE  Keeps(s) /\ flow'[s].pc = flow[s].pc /\ flow'[s].call = reply
  <2>1. [flow[s] EXCEPT !.call = reply] = [flow[s] EXCEPT !.pc = flow[s].pc, !.call = reply]
    BY <1>1 DEF FlowState
  <2>2. flow[s].pc \in Pcs
    BY <1>1 DEF FlowState
  <2>3. QED BY <1>1, <1>2, <2>1, <2>2, MoveStep
<1>3. CASE Take(s)
  <2>1. PICK reply \in {"accepted", "odd", "odd_5xx"} : Goto(s, [flow[s] EXCEPT !.call = reply])
    BY <1>3 DEF Take
  <2>2. Keeps(s) /\ flow'[s].pc = flow[s].pc /\ flow'[s].call = reply
    BY <1>2, <1>3, <2>1 DEF Take, Replies
  <2>3. Reveals
    BY <1>3, ShowsReveals DEF Take, TypeOK
  <2>4. QED BY <1>3, <2>2, <2>3 DEF Take
<1>4. CASE TurnDown(s)
  <2>1. PICK reply \in Refusals \union {"denied", "odd", "odd_5xx"} :
          Goto(s, [flow[s] EXCEPT !.call = reply])
    BY <1>4 DEF TurnDown
  <2>2. Keeps(s) /\ flow'[s].pc = flow[s].pc /\ flow'[s].call = reply
    BY <1>2, <1>4, <2>1 DEF TurnDown, Replies, platform
  <2>3. QED BY <1>4, <2>1, <2>2 DEF TurnDown, platform
<1>5. QED BY <1>3, <1>4

\* Steps that write the row, and what the others are left with.
Writes(s, state) ==
  /\ FlowOK' /\ UNCHANGED <<kind, posts, done, counted, adrift, well>>
  /\ flow[s].fresh /\ row' = state
  /\ \A t \in Servers \ {s} : Outrun(t, state)

LEMMA ConfirmStep ==
  ASSUME IInv, NEW s \in Servers, Confirm(s)
  PROVE  /\ Writes(s, "confirmed") /\ flow[s].pc = "confirm" /\ done
         /\ flow'[s].call = "no" /\ flow'[s].pc \in {"idle", "verify"}
<1>1. FlowOK /\ done
  BY DEF IInv, TypeOK, FlowOK, ShownInv, Confirm
<1>2. PICK next \in {Ended("completed"), AfterEffect(TRUE)} : Saved(s, "confirmed", next)
  BY DEF Confirm
<1>3. next \in FlowState /\ next.call = "no" /\ next.pc \in {"idle", "verify"}
  BY <1>2, EndedType, AfterEffectType DEF Fields
<1>4. "confirmed" \in States
  BY DEF States
<1>5. QED BY <1>1, <1>2, <1>3, <1>4, SavedStep DEF Confirm, Writes, platform

LEMMA MarkStep ==
  ASSUME TypeOK, NEW s \in Servers, Mark(s)
  PROVE  /\ Writes(s, "pending") /\ flow[s].pc = "mark"
         /\ Fields(flow'[s], "call", TRUE, "no", "nothing")
<1>1. FlowOK /\ "pending" \in States
  BY DEF TypeOK, FlowOK, States
<1>2. With("call") \in FlowState /\ Fields(With("call"), "call", TRUE, "no", "nothing")
  BY AtType, PcsMembers
<1>3. QED BY <1>1, <1>2, SavedStep DEF Mark, Writes, platform

\* A row that may be sent again follows a refusal only.
LEMMA NoteStep ==
  ASSUME TypeOK, NEW s \in Servers, Note(s)
  PROVE  \E state \in {"posted", "rejected", "unknown"} :
           /\ Writes(s, state) /\ flow[s].pc = "save"
           /\ state = "rejected" => flow[s].call \in Refusals
           /\ flow'[s].call = "no" /\ flow'[s].said = "nothing"
           /\ \/ flow'[s].pc \in {"idle", "verify"}
              \/ flow'[s].pc = "mark" /\ state = "rejected"
              \/ flow'[s].pc = "check" /\ kind \in Retryables
<1>1. FlowOK
  BY DEF TypeOK, FlowOK
<1> DEFINE state == Verdict(flow[s].call)
           next == IF ~GoesOn(flow[s].call) THEN AfterEffect(state = "posted")
                   ELSE With(IF state = "rejected" THEN "mark" ELSE "check")
<1>2. /\ state \in {"posted", "rejected", "unknown"} /\ state \in States
      /\ state = "rejected" => flow[s].call \in Refusals
  BY DEF Verdict, States
<1>3. GoesOn(flow[s].call) /\ state # "rejected" => kind \in Retryables
  BY DEF GoesOn, Verdict, Refusals
<1>4. /\ next \in FlowState /\ next.call = "no" /\ next.said = "nothing"
      /\ \/ next.pc \in {"idle", "verify"}
         \/ next.pc = "mark" /\ state = "rejected"
         \/ next.pc = "check" /\ kind \in Retryables
  <2>1. CASE ~GoesOn(flow[s].call)
    <3>1. (state = "posted") \in BOOLEAN
      OBVIOUS
    <3>2. QED BY <2>1, <3>1, AfterEffectType DEF Fields
  <2>2. CASE GoesOn(flow[s].call) /\ state = "rejected"
    BY <2>2, AtType, PcsMembers DEF Fields
  <2>3. CASE GoesOn(flow[s].call) /\ state # "rejected"
    BY <1>3, <2>3, AtType, PcsMembers DEF Fields
  <2>4. QED BY <2>1, <2>2, <2>3
<1>5. Saved(s, state, next)
  BY DEF Note
<1>6. flow[s].pc = "save" /\ UNCHANGED <<kind, posts, done, counted, adrift, well>>
  BY DEF Note, platform
<1> HIDE DEF state, next
<1>7. QED BY <1>1, <1>2, <1>4, <1>5, <1>6, SavedStep DEF Writes

-----------------------------------------------------------------------------
(* Every step keeps the invariants.                                         *)

LEMMA OthersKeep ==
  ASSUME NEW s \in Servers, Others(s), NEW t \in Servers, t # s
  PROVE  flow'[t] = flow[t]
BY DEF Others

LEMMA OutrunFields ==
  ASSUME NEW t \in Servers, NEW state \in States, Outrun(t, state)
  PROVE  /\ flow'[t].pc = flow[t].pc /\ flow'[t].call = flow[t].call /\ flow'[t].said = flow[t].said
         /\ flow'[t].fresh => (flow[t].fresh /\ state = row /\ state # "pending")
BY DEF Outrun

LEMMA QuietKeeps ==
  ASSUME IInv, NEW s \in Servers, Quiet(s)
  PROVE  IInv'
<1>1. TypeOK'
  BY DEF IInv, TypeOK, Quiet, FlowOK
<1>2. ShownInv'
  BY OthersKeep DEF IInv, ShownInv, Quiet
<1>3. WireInv'
  BY OthersKeep DEF IInv, WireInv, Quiet
<1>4. ASSUME kind' \in OnceKinds
      PROVE  AttemptInv'
  <2>1. AttemptInv /\ kind \in OnceKinds
    BY <1>4 DEF IInv, OnceInv, Quiet
  <2>2. /\ ~Attempting(s)' /\ ~Untaken(s)' /\ flow'[s].pc # "check"
        /\ flow'[s].pc = "mark" => row \in {"new", "rejected"}
    BY <2>1 DEF Quiet, Attempting, Untaken
  <2>3. \A t \in Servers : t # s => flow'[t] = flow[t]
    BY OthersKeep DEF Quiet
  <2>4. posts' = posts /\ Drifts(s)
    BY DEF Quiet
  <2>5. \A t \in Servers : Untaken(t)' => Unsent'
    <3>1. SUFFICES ASSUME NEW t \in Servers, Untaken(t)'
                   PROVE  Unsent'
      OBVIOUS
    <3>2. t # s /\ Untaken(t)
      BY <2>2, <2>3, <3>1 DEF Untaken
    <3>3. Attempting(t) /\ Unsent
      BY <2>1, <3>2 DEF AttemptInv, Untaken, Attempting
    <3>4. flow[s].call # "wire"
      BY <2>1, <3>2, <3>3 DEF AttemptInv, IInv, WireInv, Attempting
    <3>5. QED BY <3>3, <3>4 DEF Quiet, Drifts, Unsent
  <2>6. row \in {"new", "rejected"} => Unsent' /\ \A t \in Servers : ~Attempting(t)'
    <3>1. SUFFICES ASSUME row \in {"new", "rejected"}
                   PROVE  Unsent' /\ \A t \in Servers : ~Attempting(t)'
      OBVIOUS
    <3>2. Unsent /\ \A t \in Servers : ~Attempting(t)
      BY <2>1, <3>1 DEF AttemptInv
    <3>3. flow[s].call # "wire"
      BY <3>2 DEF IInv, WireInv, Attempting
    <3>4. QED BY <2>2, <2>3, <3>2, <3>3 DEF Quiet, Drifts, Unsent, Attempting
  <2>7. posts' + adrift' <= 1
    <3>1. CASE flow[s].call = "wire"
      <4>1. Untaken(s)
        BY <3>1 DEF IInv, WireInv, Untaken
      <4>2. posts = 0 /\ adrift = 0
        BY <2>1, <4>1 DEF AttemptInv, Unsent
      <4>3. QED BY <2>4, <4>2 DEF Drifts
    <3>2. CASE flow[s].call # "wire"
      BY <2>1, <2>4, <3>2 DEF Drifts, AttemptInv
    <3>3. QED BY <3>1, <3>2
  <2>8. QED BY <2>1, <2>2, <2>3, <2>5, <2>6, <2>7 DEF AttemptInv, Attempting, Quiet
<1>5. QED BY <1>1, <1>2, <1>3, <1>4 DEF IInv, OnceInv

LEMMA ConfirmKeeps ==
  ASSUME IInv, NEW s \in Servers, Confirm(s)
  PROVE  IInv'
<1>1. /\ Writes(s, "confirmed") /\ flow[s].pc = "confirm" /\ done
      /\ flow'[s].call = "no" /\ flow'[s].pc \in {"idle", "verify"}
  BY ConfirmStep
<1>2. \A t \in Servers : t # s =>
        /\ flow'[t].pc = flow[t].pc /\ flow'[t].call = flow[t].call
        /\ flow'[t].fresh => (flow[t].fresh /\ row = "confirmed")
  BY <1>1, OutrunFields DEF Writes, States
<1>3. TypeOK'
  BY <1>1 DEF IInv, TypeOK, Writes, FlowOK, States
<1>4. ShownInv'
  BY <1>1 DEF IInv, ShownInv, Writes
<1>5. WireInv'
  BY <1>1, <1>2 DEF IInv, WireInv
<1>6. ASSUME kind' \in OnceKinds
      PROVE  AttemptInv'
  <2>1. AttemptInv /\ row' = "confirmed" /\ UNCHANGED <<posts, adrift>>
    BY <1>1, <1>6 DEF IInv, OnceInv, Writes
  <2>2. ~Attempting(s)' /\ ~Untaken(s)' /\ flow'[s].pc \notin {"check", "mark"}
    BY <1>1 DEF Attempting, Untaken
  <2>3. ASSUME NEW t \in Servers, t # s
        PROVE  /\ Attempting(t)' => Attempting(t) /\ ~flow'[t].fresh
               /\ Untaken(t)' => Untaken(t)
               /\ ~(flow'[t].pc = "mark" /\ flow'[t].fresh)
    BY <1>2, <2>1, <2>3 DEF Attempting, Untaken, AttemptInv
  <2>4. QED BY <1>2, <2>1, <2>2, <2>3 DEF AttemptInv, Unsent
<1>7. QED BY <1>3, <1>4, <1>5, <1>6 DEF IInv, OnceInv

LEMMA MarkKeeps ==
  ASSUME IInv, NEW s \in Servers, Mark(s)
  PROVE  IInv'
<1>1. /\ Writes(s, "pending") /\ flow[s].pc = "mark"
      /\ Fields(flow'[s], "call", TRUE, "no", "nothing")
  BY MarkStep DEF IInv
<1>2. \A t \in Servers : t # s =>
        /\ flow'[t].pc = flow[t].pc /\ flow'[t].call = flow[t].call /\ flow'[t].said = flow[t].said
        /\ ~flow'[t].fresh
  <2>1. \A t \in Servers : flow'[t].fresh \in BOOLEAN
    BY <1>1 DEF Writes, FlowOK, FlowState
  <2>2. QED BY <1>1, <2>1, OutrunFields DEF Writes, States
<1>3. TypeOK'
  BY <1>1 DEF IInv, TypeOK, Writes, FlowOK, States
<1>4. ShownInv'
  BY <1>1, <1>2 DEF IInv, ShownInv, Writes, Fields
<1>5. WireInv'
  BY <1>1, <1>2 DEF IInv, WireInv, Fields
<1>6. ASSUME kind' \in OnceKinds
      PROVE  AttemptInv'
  <2>1. AttemptInv /\ row' = "pending" /\ UNCHANGED <<posts, adrift>>
    BY <1>1, <1>6 DEF IInv, OnceInv, Writes
  <2>2. row \in {"new", "rejected"}
    BY <1>1, <2>1 DEF AttemptInv, Writes
  <2>3. Unsent' /\ \A t \in Servers : ~Attempting(t)
    BY <2>1, <2>2 DEF AttemptInv, Unsent
  <2>4. \A t \in Servers : t # s => ~Attempting(t)'
    BY <1>2, <2>3 DEF Attempting
  <2>5. \A t \in Servers : flow'[t].pc # "check" /\ ~(flow'[t].pc = "mark" /\ flow'[t].fresh)
    BY <1>1, <1>2, <2>1 DEF AttemptInv, Fields
  <2>6. QED BY <2>1, <2>3, <2>4, <2>5 DEF AttemptInv, Unsent
<1>7. QED BY <1>3, <1>4, <1>5, <1>6 DEF IInv, OnceInv

\* The steps within an attempt, when the POST is not taken by them.
LEMMA AttemptKeeps ==
  ASSUME IInv, NEW s \in Servers, Post(s) \/ CallFails(s) \/ Abandon(s) \/ Receive(s) \/ TurnDown(s)
  PROVE  IInv'
<1>1. /\ Keeps(s) /\ UNCHANGED <<posts, done, counted, well>>
      /\ Attempting(s) /\ Attempting(s)'
      /\ flow'[s].call = "wire" => flow'[s].pc = "wire"
      /\ adrift' \in 0 .. MaxAdrift
      /\ \/ adrift' = adrift /\ (Untaken(s)' => Untaken(s))
         \/ adrift' = adrift + 1 /\ Untaken(s) /\ ~Untaken(s)'
  <2>1. TypeOK /\ WireInv /\ adrift \in 0 .. MaxAdrift
    BY DEF IInv, TypeOK
  <2>2. CASE Post(s)
    BY <2>1, <2>2, PostStep DEF Attempting, Untaken
  <2>3. CASE CallFails(s) \/ Abandon(s)
    BY <2>1, <2>3, EndStep DEF Attempting, Untaken, Drifts, Errors, Refusals, WireInv
  <2>4. CASE Receive(s)
    BY <2>1, <2>4, ReceiveStep DEF Attempting, Untaken, Replies, Refusals
  <2>5. CASE TurnDown(s)
    <3>1. flow[s].call = "wire" /\ flow[s].pc = "wire" /\ UNCHANGED <<posts, done, counted>>
      BY <2>1, <2>5 DEF TurnDown, WireInv, platform
    <3>2. Keeps(s) /\ UNCHANGED <<adrift, well>> /\ flow'[s].pc = "wire"
      BY <2>1, <2>5, <3>1, AnswerStep
    <3>3. QED BY <2>1, <3>1, <3>2 DEF Attempting, Untaken
  <2>6. QED BY <2>2, <2>3, <2>4, <2>5
<1>2. \A t \in Servers : t # s => flow'[t] = flow[t]
  BY <1>1, OthersKeep DEF Keeps
<1>3. TypeOK'
  BY <1>1 DEF IInv, TypeOK, Keeps, FlowOK
<1>4. ShownInv'
  BY <1>1, <1>2 DEF IInv, ShownInv, Keeps, Attempting
<1>5. WireInv'
  BY <1>1, <1>2 DEF IInv, WireInv
<1>6. ASSUME kind' \in OnceKinds
      PROVE  AttemptInv'
  <2>1. AttemptInv /\ UNCHANGED <<row, posts>>
    BY <1>1, <1>6 DEF IInv, OnceInv, Keeps
  <2>2. \A t \in Servers : Attempting(t)' => Attempting(t)
    BY <1>1, <1>2 DEF Attempting
  <2>3. row \notin {"new", "rejected"}
    BY <1>1, <2>1 DEF AttemptInv
  <2>4. \A t \in Servers : flow'[t].pc # "check" /\ ~(flow'[t].pc = "mark" /\ flow'[t].fresh)
    BY <1>1, <1>2, <2>1, <2>3 DEF AttemptInv, Attempting
  <2>5. \A t \in Servers : Untaken(t)' => t = s
    <3>1. \A t \in Servers : Untaken(t)' => Attempting(t)'
      BY DEF Untaken, Attempting
    <3>2. QED BY <1>1, <2>1, <2>2, <3>1 DEF AttemptInv
  <2>6. (Untaken(s)' => Unsent') /\ posts' + adrift' <= 1
    BY <1>1, <2>1 DEF AttemptInv, Unsent
  <2>7. \A t \in Servers : Attempting(t)' /\ flow'[t].fresh => row = "pending"
    BY <1>1, <1>2, <2>1, <2>2 DEF AttemptInv, Keeps
  <2>8. QED BY <2>1, <2>2, <2>3, <2>4, <2>5, <2>6, <2>7 DEF AttemptInv
<1>7. QED BY <1>3, <1>4, <1>5, <1>6 DEF IInv, OnceInv

LEMMA TakeKeeps ==
  ASSUME IInv, NEW s \in Servers, Take(s)
  PROVE  IInv'
<1>1. /\ Keeps(s) /\ UNCHANGED <<adrift, well>>
      /\ flow[s].call = "wire" /\ flow'[s].pc = "wire" /\ flow[s].pc = "wire"
      /\ posts' = AtMostTwo(posts) /\ Reveals
      /\ flow'[s].call \in {"accepted", "odd", "odd_5xx"}
  <2>1. flow[s].call = "wire" /\ flow[s].pc = "wire" /\ posts' = AtMostTwo(posts)
        /\ posts \in 0 .. 2 /\ Reveals
    BY ShowsReveals DEF IInv, TypeOK, WireInv, Take
  <2>2. flow'[s].call \in {"accepted", "odd", "odd_5xx"}
    <3>1. PICK reply \in {"accepted", "odd", "odd_5xx"} : Goto(s, [flow[s] EXCEPT !.call = reply])
      BY DEF Take
    <3>2. flow[s] \in FlowState /\ flow \in [Servers -> FlowState]
      BY DEF IInv, TypeOK
    <3>3. QED BY <3>1, <3>2 DEF Goto, FlowState
  <2>3. QED BY <2>1, <2>2, AnswerStep DEF IInv
<1>2. \A t \in Servers : t # s => flow'[t] = flow[t]
  BY <1>1, OthersKeep DEF Keeps
<1>3. TypeOK'
  BY <1>1 DEF IInv, TypeOK, Keeps, FlowOK, AtMostTwo, Reveals
<1>4. ShownInv'
  BY <1>1, <1>2 DEF IInv, ShownInv, Keeps, Reveals
<1>5. WireInv'
  BY <1>1, <1>2 DEF IInv, WireInv
<1>6. ASSUME kind' \in OnceKinds
      PROVE  AttemptInv'
  <2>1. AttemptInv /\ UNCHANGED <<row, adrift>>
    BY <1>1, <1>6 DEF IInv, OnceInv, Keeps
  <2>2. Attempting(s) /\ Untaken(s) /\ Attempting(s)' /\ ~Untaken(s)'
    BY <1>1 DEF Attempting, Untaken, Refusals
  <2>3. Unsent /\ row \notin {"new", "rejected"} /\ posts' + adrift' = 1
    BY <1>1, <2>1, <2>2 DEF AttemptInv, Unsent, AtMostTwo
  <2>4. \A t \in Servers : t # s => ~Attempting(t)' /\ ~Untaken(t)'
    BY <1>2, <2>1, <2>2 DEF AttemptInv, Attempting, Untaken
  <2>5. \A t \in Servers : flow'[t].pc # "check" /\ ~(flow'[t].pc = "mark" /\ flow'[t].fresh)
    BY <1>1, <1>2, <2>1, <2>3 DEF AttemptInv
  <2>6. flow'[s].fresh => row = "pending"
    BY <1>1, <2>1, <2>2 DEF AttemptInv, Keeps
  <2>7. QED BY <2>1, <2>2, <2>3, <2>4, <2>5, <2>6 DEF AttemptInv
<1>7. QED BY <1>3, <1>4, <1>5, <1>6 DEF IInv, OnceInv

LEMMA NoteKeeps ==
  ASSUME IInv, NEW s \in Servers, Note(s)
  PROVE  IInv'
<1>1. PICK state \in {"posted", "rejected", "unknown"} :
        /\ Writes(s, state) /\ flow[s].pc = "save"
        /\ state = "rejected" => flow[s].call \in Refusals
        /\ flow'[s].call = "no" /\ flow'[s].said = "nothing"
        /\ \/ flow'[s].pc \in {"idle", "verify"}
           \/ flow'[s].pc = "mark" /\ state = "rejected"
           \/ flow'[s].pc = "check" /\ kind \in Retryables
  BY NoteStep DEF IInv
<1>2. \A t \in Servers : t # s =>
        /\ flow'[t].pc = flow[t].pc /\ flow'[t].call = flow[t].call /\ flow'[t].said = flow[t].said
        /\ flow'[t].fresh => (flow[t].fresh /\ state = row)
  BY <1>1, OutrunFields DEF Writes, States
<1>3. TypeOK'
  BY <1>1 DEF IInv, TypeOK, Writes, FlowOK, States
<1>4. ShownInv'
  BY <1>1, <1>2 DEF IInv, ShownInv, Writes
<1>5. WireInv'
  BY <1>1, <1>2 DEF IInv, WireInv
<1>6. ASSUME kind' \in OnceKinds
      PROVE  AttemptInv'
  <2>1. AttemptInv /\ row' = state /\ flow[s].fresh /\ UNCHANGED <<posts, adrift>>
    BY <1>1, <1>6 DEF IInv, OnceInv, Writes
  <2>2. Attempting(s) /\ row = "pending"
    BY <1>1, <2>1 DEF Attempting, AttemptInv
  <2>3. \A t \in Servers : t # s => ~Attempting(t)' /\ ~Untaken(t)' /\ ~flow'[t].fresh
    BY <1>2, <2>1, <2>2 DEF AttemptInv, Attempting, Untaken
  <2>4. ~Attempting(s)' /\ ~Untaken(s)'
    BY <1>1 DEF Attempting, Untaken
  <2>5. flow'[s].pc # "check" /\ (flow'[s].pc = "mark" => state = "rejected")
    BY <1>1, <1>6 DEF OnceKinds, Retryables, Writes
  <2>6. state = "rejected" => Unsent
    BY <1>1, <2>1 DEF AttemptInv, Untaken
  <2>7. QED BY <1>2, <2>1, <2>3, <2>4, <2>5, <2>6 DEF AttemptInv, Unsent
<1>7. QED BY <1>3, <1>4, <1>5, <1>6 DEF IInv, OnceInv

LEMMA PlatformKeeps ==
  ASSUME IInv, Show \/ TakeAdrift \/ GetWell \/ UNCHANGED vars
  PROVE  IInv'
<1>1. UNCHANGED <<kind, row, flow>> /\ Reveals /\ well' \in BOOLEAN
  <2>1. CASE TakeAdrift
    BY <2>1, ShowsReveals DEF IInv, TypeOK, TakeAdrift
  <2>2. CASE Show \/ GetWell \/ UNCHANGED vars
    BY <2>2 DEF IInv, TypeOK, Reveals, Show, GetWell, vars, platform
  <2>3. QED BY <2>1, <2>2
<1>2. TypeOK'
  <2>1. MaxAdrift \in Nat /\ adrift \in 0 .. MaxAdrift /\ posts \in 0 .. 2
    BY EffectAssumption DEF IInv, TypeOK
  <2>2. adrift' \in 0 .. MaxAdrift /\ posts' \in 0 .. 2
    <3>1. CASE TakeAdrift
      BY <2>1, <3>1 DEF TakeAdrift, AtMostTwo
    <3>2. CASE Show \/ GetWell \/ UNCHANGED vars
      BY <2>1, <3>2 DEF Show, GetWell, vars, platform
    <3>3. QED BY <3>1, <3>2
  <2>3. QED BY <1>1, <2>2 DEF IInv, TypeOK, Reveals
<1>3. ShownInv' /\ WireInv'
  BY <1>1 DEF IInv, ShownInv, WireInv, Reveals
<1>4. ASSUME kind' \in OnceKinds
      PROVE  AttemptInv'
  <2>1. AttemptInv
    BY <1>1, <1>4 DEF IInv, OnceInv
  <2>2. (Unsent => Unsent') /\ posts' + adrift' <= 1
    <3>1. CASE TakeAdrift
      BY <2>1, <3>1 DEF TakeAdrift, AttemptInv, Unsent, AtMostTwo, IInv, TypeOK
    <3>2. CASE Show \/ GetWell \/ UNCHANGED vars
      BY <2>1, <3>2 DEF Show, GetWell, vars, platform, AttemptInv, Unsent
    <3>3. QED BY <3>1, <3>2
  <2>3. QED BY <1>1, <2>1, <2>2 DEF AttemptInv, Attempting, Untaken
<1>5. QED BY <1>2, <1>3, <1>4 DEF IInv, OnceInv

LEMMA IInvNext ==
  ASSUME IInv, [Next]_vars
  PROVE  IInv'
<1>1. ASSUME NEW s \in Servers,
             Start(s) \/ Crash(s) \/ Step(s) \/ Fail(s) \/ Take(s) \/ TurnDown(s)
      PROVE  IInv'
  <2>1. CASE Start(s) \/ LookDone(s) \/ LookOpen(s) \/ Publish(s) \/ Offer(s)
    BY <2>1, LookStep, QuietKeeps DEF IInv
  <2>2. CASE Crash(s) \/ Fail(s)
    BY <2>2, CrashStep, FailStep, QuietKeeps DEF IInv
  <2>3. CASE VerifyDone(s) \/ VerifyOpen(s) \/ Reload(s) \/ Load(s) \/ CheckDone(s) \/ CheckOpen(s)
    BY <2>3, VerifyStep, ReloadStep, LoadStep, CheckStep, QuietKeeps
  <2>4. CASE Confirm(s) \/ Mark(s) \/ Note(s) \/ Take(s)
    BY <2>4, ConfirmKeeps, MarkKeeps, NoteKeeps, TakeKeeps
  <2>5. CASE Post(s) \/ CallFails(s) \/ Abandon(s) \/ Receive(s) \/ TurnDown(s)
    BY <2>5, AttemptKeeps
  <2>6. QED BY <1>1, <2>1, <2>2, <2>3, <2>4, <2>5 DEF Step
<1>2. CASE Show \/ TakeAdrift \/ GetWell \/ UNCHANGED vars
  BY <1>2, PlatformKeeps
<1>3. QED BY <1>1, <1>2 DEF Next

LEMMA IInvInit ==
  ASSUME Init
  PROVE  IInv
<1>1. \A s \in Servers : flow[s] = Idle
  BY DEF Init
<1>2. Idle.pc = "idle" /\ Idle.said = "nothing" /\ Idle.call = "no" /\ Idle \in FlowState
  BY IdleType DEF Fields
<1>3. TypeOK
  <2>1. flow \in [Servers -> FlowState]
    BY <1>2 DEF Init
  <2>2. 0 \in 0 .. MaxAdrift
    BY EffectAssumption
  <2>3. adrift \in 0 .. MaxAdrift /\ posts \in 0 .. 2
    BY <2>2 DEF Init
  <2>4. done \in BOOLEAN /\ counted \in BOOLEAN /\ well \in BOOLEAN
    BY DEF Init
  <2>5. kind \in Kinds /\ row \in States
    BY DEF Init, States
  <2>6. QED BY <2>1, <2>3, <2>4, <2>5 DEF TypeOK
<1>4. ShownInv /\ WireInv
  BY <1>1, <1>2 DEF Init, ShownInv, WireInv
<1>5. AttemptInv
  BY <1>1, <1>2 DEF Init, AttemptInv, Attempting, Untaken, Unsent
<1>6. QED BY <1>3, <1>4, <1>5 DEF IInv, OnceInv

-----------------------------------------------------------------------------
(* What follows.                                                            *)

\* The inductive invariant holds: a row that may be sent stands for a unit with
\* no attempt and no POST, an attempt has one owner (effects.go, Service.Effect).
THEOREM Inductive == Spec => []IInv
<1>1. Init => IInv
  BY IInvInit
<1>2. IInv /\ [Next]_vars => IInv'
  BY IInvNext
<1>3. QED BY <1>1, <1>2, PTL DEF Spec

\* The variables keep their types, the bound on abandoned POSTs included.
THEOREM TypeCorrect == Spec => []TypeOK
<1>1. IInv => TypeOK
  BY DEF IInv
<1>2. QED BY <1>1, Inductive, PTL

\* A discussion post or an enrolment reaches the platform at most once,
\* whatever is lost, crashes, is cancelled or runs in two processes.
THEOREM PostedOnceTheorem == Spec => []PostedOnce
<1>1. IInv => PostedOnce
  BY EffectAssumption DEF IInv, TypeOK, OnceInv, AttemptInv, PostedOnce
<1>2. QED BY <1>1, Inductive, PTL

\* A row that lets the unit be written again stands for a write the platform
\* has not taken and no longer can.
THEOREM SendableTheorem == Spec => []SendableIsUnsent
<1>1. IInv => SendableIsUnsent
  BY DEF IInv, WireInv, OnceInv, AttemptInv, Unsent, Attempting, SendableIsUnsent
<1>2. QED BY <1>1, Inductive, PTL

\* What the journal holds as confirmed, or a runner reported as done, the
\* platform shows: a reply alone never settles a unit.
THEOREM ShownTheorem == Spec => []ConfirmedIsShown
<1>1. IInv => ConfirmedIsShown
  BY DEF IInv, ShownInv, ConfirmedIsShown
<1>2. QED BY <1>1, Inductive, PTL

=============================================================================
