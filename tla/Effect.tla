------------------------------- MODULE Effect -------------------------------
(***************************************************************************)
(* One platform write other than an answer - video progress, an article's *)
(* completion, a discussion post or a free enrolment - and the runner that *)
(* wants it done.  All of them pass through the journal of submissions,    *)
(* under one key, but only progress may be written again when the result   *)
(* of a write is not known.                                                *)
(*                                                                         *)
(*   operations/effects.go     Service.Effect over the journal             *)
(*   operations/progress.go    progressComplete                            *)
(*   operations/enrollment.go  enrollFree, confirmEnrollment               *)
(*   workflow/rpc.go           publish-discussion and forward              *)
(*   learning/*.go             the loop of media, video, article and       *)
(*                             discussion                                  *)
(*                                                                         *)
(* Servers are processes; singleflight leaves one flow per key in each.    *)
(* Nothing here relies on the leader lock.                                 *)
(***************************************************************************)
EXTENDS Naturals

CONSTANTS
  Servers,   \* processes that may run the unit
  Kinds,     \* kinds of unit to look at
  MaxAdrift  \* bound: abandoned POSTs the platform may still take, all told

Retryables == {"video", "article"}
OnceKinds == {"discussion", "enrollment"}

ASSUME EffectAssumption ==
  /\ Kinds \subseteq Retryables \union OnceKinds
  /\ MaxAdrift \in Nat

VARIABLES
  kind,    \* the kind of this unit
  row,     \* state of the row of table operations
  flow,    \* per server: its runner, down to the effect it is in
  posts,   \* POSTs the platform has taken, counted up to 2
  done,    \* what the platform would show: completed, scheduled, enrolled
  counted, \* whether the topic of a discussion counts the comment
  adrift,  \* POSTs nobody waits for any more that may still be taken
  well     \* whether network and platform work and show what is there from now on

vars == <<kind, row, flow, posts, done, counted, adrift, well>>

States == {"new", "pending", "unknown", "rejected", "posted", "confirmed"}
Looks == {"look", "publish", "offer", "verify"}
Saves == {"mark", "save", "confirm"}
Pcs == {"idle", "load", "check", "call", "wire", "reload"} \union Looks \union Saves

\* How Broker.Call ends.
Errors == {"broken", "unavailable", "signed_out"}
Refusals == {"limited", "refused", "refused_5xx"}
Replies == {"accepted", "odd", "odd_5xx", "denied"} \union Refusals

\* A flow: its place, whether its copy of the row still is the row, how far
\* verify has got, where its POST is and what it came to, whether this flow
\* wrote the unit, and what it reported last.  A cancelled context needs no
\* field: a flow may fail wherever its context is looked at.
FlowState == [pc: Pcs, fresh: BOOLEAN, reads: 0 .. 2,
              call: {"no", "wire"} \union Errors \union Replies,
              mine: BOOLEAN, said: {"nothing", "completed", "skipped"}]

Idle == [pc |-> "idle", fresh |-> FALSE, reads |-> 0, call |-> "no",
         mine |-> FALSE, said |-> "nothing"]

Init ==
  /\ kind \in Kinds
  /\ row = "new"
  /\ flow = [s \in Servers |-> Idle]
  /\ posts = 0
  /\ done = FALSE
  /\ counted = FALSE
  /\ adrift = 0
  /\ well = FALSE

platform == <<posts, done, counted, adrift>>

\* What a look in front of the write asks for: the comments of a discussion,
\* which its leaf_schedule may run ahead of or lag behind.
Seen == IF kind = "discussion" THEN counted ELSE done

\* A read that does not see what it asks for: it is not so, or not yet shown.
Misses(there) == ~(well /\ there)

-----------------------------------------------------------------------------
(* The journal.                                                             *)

\* Mutant of Saved: the row is overwritten whatever it is by now.
SavedBlindly(s, state, next) ==
  /\ row' = state
  /\ flow' = [t \in Servers |-> IF t = s THEN next ELSE [flow[t] EXCEPT !.fresh = FALSE]]

\* Journal.Save, after which flow s is "next".  Every "pending" has an attempt
\* number of its own, so a copy the row has left never equals it again: instead
\* of copies and numbers a flow keeps whether its copy is fresh.
Saved(s, state, next) ==
  /\ flow[s].fresh
  /\ row' = state
  /\ flow' = [t \in Servers |->
       IF t = s THEN next
       ELSE IF state = row /\ state # "pending" THEN flow[t]
       ELSE [flow[t] EXCEPT !.fresh = FALSE]]

\* A flow that goes on without the row, with the row, and one that has ended.
At(pc) == [Idle EXCEPT !.pc = pc]
With(pc) == [At(pc) EXCEPT !.fresh = TRUE]
Ended(what) == [Idle EXCEPT !.said = what]

Goto(s, next) == flow' = [flow EXCEPT ![s] = next]

-----------------------------------------------------------------------------
(* The runner: learning/media.go for units, enrollFree for an enrolment.    *)

Start(s) ==
  /\ flow[s].pc = "idle"
  /\ Goto(s, At("look"))
  /\ UNCHANGED <<kind, row, platform, well>>

\* A POST whose flow leaves it may be taken later (MaxAdrift bounds these).
Drift(s) == IF flow[s].call = "wire" /\ adrift < MaxAdrift THEN adrift + 1 ELSE adrift

Crash(s) ==
  /\ flow[s].pc # "idle"
  /\ Goto(s, Idle)
  /\ adrift' = Drift(s)
  /\ UNCHANGED <<kind, row, posts, done, counted, well>>

\* The unit is seen done before anything was written: a discussion is verified
\* all the same, an enrolment recorded.
LookDone(s) ==
  /\ flow[s].pc = "look"
  /\ Seen
  /\ Goto(s, IF kind = "discussion" THEN At("verify")
             ELSE IF kind = "enrollment" THEN At("reload") ELSE Ended("skipped"))
  /\ UNCHANGED <<kind, row, platform, well>>

\* The worker asks for the write; forward hands progress on to the effect.
Forward == IF kind = "discussion" THEN "publish" ELSE IF kind = "enrollment" THEN "offer" ELSE "load"

\* It is not seen done, which the platform may also say for a while after it is.
LookOpen(s) ==
  /\ flow[s].pc = "look"
  /\ Misses(Seen)
  /\ Goto(s, At(Forward))
  /\ UNCHANGED <<kind, row, platform, well>>

\* publish-discussion reads the topic again in front of the post.
Publish(s) ==
  /\ flow[s].pc = "publish"
  /\ \/ Seen /\ Goto(s, At("verify"))
     \/ Misses(Seen) /\ Goto(s, At("load"))
  /\ UNCHANGED <<kind, row, platform, well>>

\* Product, classes and price are read and a free offer is found.
Offer(s) ==
  /\ flow[s].pc = "offer"
  /\ Goto(s, At("load"))
  /\ UNCHANGED <<kind, row, platform, well>>

\* Mutant of AfterEffect: an enrolment is recorded without another look.
AfterEffectTrusting(ok) ==
  IF ok /\ kind = "enrollment" THEN At("reload")
  ELSE IF ok \/ kind = "enrollment" THEN [At("verify") EXCEPT !.mine = ok] ELSE Idle

\* What follows an effect: a unit is verified, an enrolment even if it failed.
AfterEffect(ok) ==
  IF ok \/ kind = "enrollment" THEN [At("verify") EXCEPT !.mine = ok] ELSE Idle

VerifyDone(s) ==
  /\ flow[s].pc = "verify"
  /\ done
  /\ Goto(s, IF kind = "enrollment" THEN At("reload")
             ELSE Ended(IF flow[s].mine THEN "completed" ELSE "skipped"))
  /\ UNCHANGED <<kind, row, platform, well>>

\* Mutant of MoreLooks: one look too many.
MoreLooksOffByOne(s) == flow[s].reads <= 2

MoreLooks(s) == flow[s].reads < 2

\* After three looks a unit is UNCONFIRMED and begun again after a while.
VerifyOpen(s) ==
  /\ flow[s].pc = "verify"
  /\ Misses(done)
  /\ Goto(s, IF kind = "enrollment" THEN Idle
             ELSE IF MoreLooks(s) THEN [flow[s] EXCEPT !.reads = @ + 1]
             ELSE At("look"))
  /\ UNCHANGED <<kind, row, platform, well>>

\* confirmEnrollment loads the row anew ...
Reload(s) ==
  /\ flow[s].pc = "reload"
  /\ Goto(s, IF row = "confirmed" THEN Ended("completed") ELSE With("confirm"))
  /\ UNCHANGED <<kind, row, platform, well>>

\* ... and records the enrolment, as Effect does progress it found complete.
Confirm(s) ==
  /\ flow[s].pc = "confirm"
  /\ Saved(s, "confirmed", IF kind = "enrollment" THEN Ended("completed") ELSE AfterEffect(TRUE))
  /\ UNCHANGED <<kind, platform, well>>

-----------------------------------------------------------------------------
(* Service.Effect.                                                          *)

\* Where Effect goes with the row it loaded.
Entrance(state) ==
  IF state \in {"new", "rejected"} THEN "mark"
  ELSE IF kind \in Retryables THEN "check"
  ELSE IF state \in {"posted", "confirmed"} THEN "replay" ELSE "review"

Load(s) ==
  LET next == Entrance(row) IN
  /\ flow[s].pc = "load"
  /\ Goto(s, IF next \in {"replay", "review"} THEN AfterEffect(next = "replay") ELSE With(next))
  /\ UNCHANGED <<kind, row, platform, well>>

CheckDone(s) ==
  /\ flow[s].pc = "check"
  /\ done
  /\ Goto(s, [flow[s] EXCEPT !.pc = "confirm"])
  /\ UNCHANGED <<kind, row, platform, well>>

\* Mutant of CheckOpen: a missing completion field is waited for without
\* writing the progress again.
CheckOpenPatient(s) ==
  /\ flow[s].pc = "check"
  /\ UNCHANGED vars

\* Not complete, or the completion field is missing: after a pause it is
\* written again.
CheckOpen(s) ==
  /\ flow[s].pc = "check"
  /\ Misses(done)
  /\ Goto(s, [flow[s] EXCEPT !.pc = "mark"])
  /\ UNCHANGED <<kind, row, platform, well>>

Mark(s) ==
  /\ flow[s].pc = "mark"
  /\ Saved(s, "pending", With("call"))
  /\ UNCHANGED <<kind, platform, well>>

\* The request is written to a connection.  Until there is one, Broker.Call
\* keeps trying.
Post(s) ==
  /\ flow[s].pc = "call"
  /\ Goto(s, [flow[s] EXCEPT !.pc = "wire", !.call = "wire"])
  /\ UNCHANGED <<kind, row, platform, well>>

\* No credential, the server is not ready, or the call is cancelled.
CallFails(s) ==
  /\ flow[s].pc = "call"
  /\ ~well
  /\ \E how \in {"unavailable", "signed_out"} :
       Goto(s, [flow[s] EXCEPT !.pc = "save", !.call = how])
  /\ UNCHANGED <<kind, row, platform, well>>

\* The connection breaks or the call is cancelled; the POST lives on.
Abandon(s) ==
  /\ flow[s].pc = "wire"
  /\ ~well
  /\ \E how \in {"broken", "unavailable"} :
       Goto(s, [flow[s] EXCEPT !.pc = "save", !.call = how])
  /\ adrift' = Drift(s)
  /\ UNCHANGED <<kind, row, posts, done, counted, well>>

\* HTTP 403 waits for the account's cooldown and posts again.
Receive(s) ==
  /\ flow[s].pc = "wire"
  /\ flow[s].call \in Replies
  /\ Goto(s, IF flow[s].call = "denied" THEN [flow[s] EXCEPT !.pc = "call", !.call = "no"]
             ELSE [flow[s] EXCEPT !.pc = "save"])
  /\ UNCHANGED <<kind, row, platform, well>>

\* Mutant of Verdict: an error counts as a refusal.
VerdictOnError(how) ==
  IF how = "accepted" THEN "posted"
  ELSE IF how \in Refusals \union Errors THEN "rejected" ELSE "unknown"

\* What the journal records for each way a call can end.
Verdict(how) ==
  IF how = "accepted" THEN "posted" ELSE IF how \in Refusals THEN "rejected" ELSE "unknown"

\* A rate limit is waited out; progress goes on after a broken connection or a
\* server error.
GoesOn(how) ==
  how = "limited" \/ (kind \in Retryables /\ how \in {"broken", "odd_5xx", "refused_5xx"})

\* Errors are recorded without the flow's context, replies with it.
Note(s) ==
  LET state == Verdict(flow[s].call) IN
  /\ flow[s].pc = "save"
  /\ Saved(s, state, IF ~GoesOn(flow[s].call) THEN AfterEffect(state = "posted")
                     ELSE With(IF state = "rejected" THEN "mark" ELSE "check"))
  /\ UNCHANGED <<kind, platform, well>>

\* A read or a save fails, the offer is not free, the unit is locked, another
\* flow has moved the row, or the flow is cancelled.  A failed effect does not
\* keep an enrolment from looking at the courses.
Fail(s) ==
  /\ flow[s].pc \in {"load", "check", "reload"} \union Looks \union Saves
  /\ \/ Goto(s, Idle)
     \/ flow[s].pc \in {"load", "mark", "save"} /\ Goto(s, AfterEffect(FALSE))
  /\ UNCHANGED <<kind, row, platform, well>>

-----------------------------------------------------------------------------
(* The platform.                                                            *)

AtMostTwo(n) == IF n < 2 THEN n + 1 ELSE 2

\* What the platform shows of a write it has taken: progress perhaps never, a
\* post or an enrolment after a while, the two marks of a post in any order.
Shows(will) ==
  /\ \E now \in IF will THEN {TRUE} ELSE BOOLEAN : done' = (done \/ now)
  /\ \E now \in IF will THEN {TRUE} ELSE BOOLEAN :
       counted' = (kind = "discussion" /\ (counted \/ now))

\* The write is taken, and acknowledged unless the platform answers oddly.
Take(s) ==
  /\ flow[s].call = "wire"
  /\ posts' = AtMostTwo(posts)
  /\ Shows(well)
  /\ \E reply \in IF well THEN {"accepted"} ELSE {"accepted", "odd", "odd_5xx"} : Goto(s, [flow[s] EXCEPT !.call = reply])
  /\ UNCHANGED <<kind, row, adrift, well>>

\* It is turned down: HTTP 403, a rate limit, "success": false.
TurnDown(s) ==
  /\ flow[s].call = "wire"
  /\ ~well
  /\ \E reply \in Refusals \union {"denied", "odd", "odd_5xx"} :
       Goto(s, [flow[s] EXCEPT !.call = reply])
  /\ UNCHANGED <<kind, row, platform, well>>

Show ==
  /\ kind \in OnceKinds /\ posts > 0
  /\ \/ ~done /\ done' = TRUE /\ UNCHANGED counted
     \/ kind = "discussion" /\ ~counted /\ counted' = TRUE /\ UNCHANGED done
  /\ UNCHANGED <<kind, row, flow, posts, adrift, well>>

\* A POST whose flow has left it is taken after all.
TakeAdrift ==
  /\ adrift > 0
  /\ adrift' = adrift - 1
  /\ posts' = AtMostTwo(posts)
  /\ Shows(FALSE)
  /\ UNCHANGED <<kind, row, flow, well>>

GetWell ==
  /\ ~well
  /\ well' = TRUE
  /\ UNCHANGED <<kind, row, flow, platform>>

-----------------------------------------------------------------------------

Step(s) ==
  \/ LookDone(s) \/ LookOpen(s) \/ Publish(s) \/ Offer(s)
  \/ VerifyDone(s) \/ VerifyOpen(s) \/ Reload(s) \/ Confirm(s)
  \/ Load(s) \/ CheckDone(s) \/ CheckOpen(s) \/ Mark(s)
  \/ Post(s) \/ CallFails(s) \/ Abandon(s) \/ Receive(s) \/ Note(s)

Next ==
  \/ \E s \in Servers : Start(s) \/ Crash(s) \/ Step(s) \/ Fail(s) \/ Take(s) \/ TurnDown(s)
  \/ Show \/ TakeAdrift
  \/ GetWell

\* Every flow is run, a stale one fails, a POST on the wire is answered, and
\* what the platform took shows in the end.
Fairness ==
  /\ \A s \in Servers : WF_vars(Step(s) \/ (Fail(s) /\ ~flow[s].fresh)) /\ WF_vars(Take(s))
  /\ WF_vars(Show)

Spec == Init /\ [][Next]_vars /\ Fairness

-----------------------------------------------------------------------------

TypeOK ==
  /\ kind \in Kinds
  /\ row \in States
  /\ flow \in [Servers -> FlowState]
  /\ posts \in 0 .. 2
  /\ done \in BOOLEAN
  /\ counted \in BOOLEAN
  /\ adrift \in 0 .. MaxAdrift
  /\ well \in BOOLEAN

\* README.md:28 and :59: a discussion post, like an enrolment, reaches the
\* platform at most once, whatever is lost, crashes, is cancelled or runs twice.
PostedOnce == kind \in OnceKinds => posts <= 1

\* A row that says the write may be sent stands for a write that the platform
\* has not taken and no longer can.
SendableIsUnsent ==
  kind \in OnceKinds /\ row \in {"new", "rejected"} =>
    /\ posts = 0 /\ adrift = 0
    /\ \A s \in Servers : flow[s].call # "wire"

\* "A success response alone is insufficient" (enrollment.go:65): what the
\* journal holds as confirmed, or a runner calls completed, the platform shows.
ConfirmedIsShown ==
  /\ row = "confirmed" => done
  /\ \A s \in Servers : flow[s].said # "nothing" => done

\* effects.go:53: progress is not waited for forever.  Once network and platform
\* are well, a unit that is begun ends.
UnitsEnd == \A s \in Servers : well /\ flow[s].pc # "idle" ~> flow[s].pc = "idle"

=============================================================================
