------------------------------- MODULE Access -------------------------------
(***************************************************************************)
(* Access to the platform: the broker executes each request with the       *)
(* cookie of an account that may be signed in, replaced, disabled, signed  *)
(* out or found invalid at any time.                                       *)
(*                                                                         *)
(*   platform/broker.go    execute, the goroutine of one request           *)
(*   workflow/engine.go    Close, which closes the broker                  *)
(*   httpapi               handlers that begin operations on accounts      *)
(*                                                                         *)
(* A scene says which callers and operations there are, so that each run   *)
(* of the system stays small.                                              *)
(***************************************************************************)
EXTENDS Broker, Accounts

CONSTANT Scenes  \* who is active, and what is signed in at first

ASSUME AccessAssumption ==
  /\ Callers = Clients
  /\ \A c \in Clients : UserOf[c] = AccountOf[c][2]

\* Signed in at first are private accounts: one of an owner and role, as it is
\* after Connect.
ASSUME ScenesAssumption == \A sc \in Scenes :
  /\ sc.answers \subseteq Outcomes
  /\ sc.owners \subseteq Owners /\ sc.roles \subseteq Roles /\ sc.at \in [Signers -> Services]
  /\ DOMAIN sc.signedIn \subseteq Table
  /\ \A a \in DOMAIN sc.signedIn : sc.signedIn[a] \in Roles

VARIABLES
  scene,  \* the scene that is played
  well    \* whether the platform answers everything from now on

vars == <<broker, accounts, scene, well>>

Init ==
  /\ scene \in Scenes
  /\ BrokerInit
  /\ AccountsInit(scene.signedIn)
  /\ well = FALSE

Answers == IF well THEN {"ok"} ELSE scene.answers \ {"unauth"}
Hints(o) == IF o \in {"denied", "limited"} THEN {0, MaxCool} ELSE {0}

-----------------------------------------------------------------------------
(* Requests.                                                                *)

Call(c) ==
  /\ c \in scene.clients
  /\ Required(c) /\ Ask(c) /\ Want(c)
  /\ UNCHANGED <<table, scene, well>>

Leave(c) == c \in scene.leavers /\ Cancel(c) /\ EndUse(c) /\ UNCHANGED <<table, scene, well>>

Send(c) == Dispatch(c) /\ BeginUse(c) /\ UNCHANGED <<table, scene, well>>

Look(c) == (ReadRow(c) \/ Validate(c)) /\ UNCHANGED <<broker, scene, well>>

\* There is no usable cookie: nothing is sent.
TurnedAway(c) ==
  /\ use[c].pc = "read" /\ ~Usable(c)
  /\ Settle(c, "fail", 0) /\ EndUse(c)
  /\ UNCHANGED <<table, scene, well>>

\* HTTP 401: the account is invalidated in a step of its own.
Unauthorized(c) ==
  /\ use[c].pc = "ready" /\ "unauth" \in scene.answers /\ ~well
  /\ use' = [use EXCEPT ![c].pc = "blame"]
  /\ UNCHANGED <<broker, table, scene, well>>

Blame(c) == Invalidate(c) /\ Settle(c, "unauth", 0) /\ UNCHANGED <<scene, well>>

Answer(c) ==
  /\ use[c].pc = "ready"
  /\ \E o \in Answers : \E hint \in Hints(o) : Settle(c, o, hint)
  /\ EndUse(c)
  /\ UNCHANGED <<table, scene, well>>

\* A request its caller left ends, nearly always with an error.
AnswerLeft(c) ==
  /\ \E o \in {"fail"} \union Answers : \E hint \in Hints(o) : SettleLeft(c, o, hint)
  /\ UNCHANGED <<accounts, scene, well>>

GoOn(c) == (Deny(c) \/ Resume(c)) /\ UNCHANGED <<accounts, scene, well>>

Close ==
  /\ scene.clients # {}
  /\ CloseBroker
  /\ use' = [c \in Callers |-> [use[c] EXCEPT !.pc = "none", !.cookie = 0]]
  /\ UNCHANGED <<table, scene, well>>

Pass == Tick /\ UNCHANGED <<accounts, scene, well>>

GetWell ==
  /\ ~well /\ scene.clients # {}
  /\ well' = TRUE
  /\ UNCHANGED <<broker, accounts, scene>>

ClientStep(c) == Look(c) \/ TurnedAway(c) \/ Blame(c) \/ Answer(c) \/ GoOn(c)

-----------------------------------------------------------------------------
(* Operations on accounts.                                                  *)

accountRoutes(f, s, o, r) ==
  \/ "connect" \in scene.may[f] /\ Connect(f, s, o, r)
  \/ "disconnect" \in scene.may[f] /\ Disconnect(f, s, o, r)

wechatRoutes(f, s, o, r) == "qr" \in scene.may[f] /\ Start(f, s, o, r)

adminCollectorRoutes(f, s, o) ==
  \/ "save" \in scene.may[f] /\ SaveCollector(f, s, o)
  \/ "check" \in scene.may[f] /\ \E a \in Table : CheckCollector(f, s, o, a)
  \/ "enable" \in scene.may[f] /\ \E a \in Table, on \in BOOLEAN : EnableCollector(a, on)

Operate(f) ==
  /\ ops < scene.ops
  /\ \E o \in scene.owners, r \in scene.roles :
       LET s == scene.at[f] IN
       accountRoutes(f, s, o, r) \/ wechatRoutes(f, s, o, r) \/ adminCollectorRoutes(f, s, o)
  /\ UNCHANGED <<broker, scene, well>>

SignerStep(f) ==
  /\ \/ LoginDone(f) \/ LoginFails(f) \/ Authenticate(f) \/ Drop(f)
     \/ TakeMutex(f) \/ TakeLocks(f) \/ Write(f)
  /\ UNCHANGED <<broker, scene, well>>

Session(f) == (ShowQR(f) \/ CancelSession(f)) /\ UNCHANGED <<broker, scene, well>>

CloseServer(s) == CloseSessions(s) /\ UNCHANGED <<broker, scene, well>>

-----------------------------------------------------------------------------

Next ==
  \/ \E c \in Clients : Call(c) \/ Leave(c) \/ Send(c) \/ Unauthorized(c) \/ AnswerLeft(c) \/ ClientStep(c)
  \/ \E f \in Signers : Operate(f) \/ SignerStep(f) \/ Session(f)
  \/ \E s \in Services : CloseServer(s)
  \/ Pass \/ Close \/ GetWell

\* Requests and transactions end, the loop dispatches what it may, time passes.
\* A sign-in ends by its 90 seconds.
Fairness ==
  /\ \A c \in Clients : WF_vars(ClientStep(c) \/ AnswerLeft(c))
  /\ WF_vars(\E f \in Signers : SignerStep(f))
  /\ WF_vars(\E c \in Clients : Send(c))
  /\ WF_vars(Pass)

Spec == Init /\ [][Next]_vars /\ Fairness

-----------------------------------------------------------------------------

TypeOK ==
  /\ BrokerTypeOK /\ AccountsTypeOK
  /\ scene \in Scenes /\ well \in BOOLEAN

\* broker.go:158: neither class of requests starves behind the other.  Once the
\* platform answers, every call ends, however many others keep calling.
CallsEnd == \A c \in Clients : well /\ client[c].pc # "idle" ~> client[c].pc = "idle"

\* A QR code that nobody scans, or a sign-in that fails, is told to its owner.
SessionsEnd == \A f \in Signers : signer[f].status \in Active ~> signer[f].status \notin Active

=============================================================================
