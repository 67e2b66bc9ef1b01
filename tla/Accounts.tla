------------------------------ MODULE Accounts ------------------------------
(***************************************************************************)
(* Platform accounts: how users and administrators sign in to the platform *)
(* and out again, and how requests come by the stored cookies.             *)
(*                                                                         *)
(*   accounts/service.go     Connect, Disconnect, Credential, Invalidate   *)
(*   accounts/collectors.go  SaveCollector, CheckCollector, EnableCollector*)
(*   accounts/wechat.go      sessions of the QR code sign-in               *)
(*   platform/wechat.go      Login, up to whether it ends with a cookie    *)
(*                                                                         *)
(* The rows are shared by all services (processes); the turns, the QR code *)
(* sessions and the validated revisions are the memory of one.  A sign-in  *)
(* is cut where another one may come between: before and after the         *)
(* platform is asked, and inside its transaction between what it checks    *)
(* and what it writes.  Cookies are numbered; their text and encryption    *)
(* are left out.                                                           *)
(***************************************************************************)
EXTENDS Integers

CONSTANTS
  Services,  \* server processes
  Broking,   \* the one whose broker sends the requests
  Owners,    \* users of this server ...
  Admins,    \* ... who may manage shared collector accounts
  Ids,       \* platform identities
  Signers,   \* concurrent operations on accounts
  Callers,   \* clients of the broker
  AccountOf, \* the account each of them calls for
  MaxOps     \* bound: operations on accounts, all told

ASSUME AccountsAssumption ==
  /\ Broking \in Services /\ Admins \subseteq Owners /\ MaxOps \in Nat
  /\ Owners # {} /\ Ids # {}
  /\ AccountOf \in [Callers -> Owners \X Ids]

VARIABLES
  rows,    \* table platform_accounts with platform_credentials
  turn,    \* Service.revisions: sign-ins and sign-outs begun, per service
  ended,   \* history: the latest of them that is done
  known,   \* Service.validated of the service Broking
  signer,  \* operations on accounts
  use,     \* per client of the broker: its way to a cookie
  ops      \* operations begun

table == <<rows, turn, ended, known, signer, ops>>
accounts == <<rows, turn, ended, known, signer, use, ops>>

Roles == {"primary", "test"}
Table == Owners \X Ids
Active == {"starting", "waiting_scan"}
Row == [role: Roles \union {"absent", "none", "shared"}, valid: BOOLEAN, enabled: BOOLEAN,
        rev: Nat, cookie: 0 .. MaxOps + 1]
Absent == [role |-> "absent", valid |-> FALSE, enabled |-> TRUE, rev |-> 0, cookie |-> 0]

\* An operation; "status" belongs to a QR code session and outlives it.
Signer == [op: {"none", "connect", "qr", "save", "check", "disconnect"},
           pc: {"idle", "login", "auth", "mutex", "locks", "write", "drop"},
           svc: Services, owner: Owners, role: Roles, id: Ids,
           turn: Nat, cookie: 0 .. MaxOps + 1,
           status: Active \union {"none", "connected", "expired", "cancelled", "error"}]

Use == [pc: {"none", "read", "auth", "ready", "blame"}, want: Nat, cookie: 0 .. MaxOps + 1]

\* "signedIn" accounts were connected earlier, and validated.
AccountsInit(signedIn) ==
  /\ rows = [a \in Table |-> IF a \in DOMAIN signedIn
                             THEN [role |-> signedIn[a], valid |-> TRUE, enabled |-> TRUE,
                                   rev |-> 1, cookie |-> MaxOps + 1]
                             ELSE Absent]
  /\ turn = [s \in Services |-> [p \in Owners \X Roles |-> 0]]
  /\ ended = turn
  /\ known = [a \in Table |-> rows[a].rev]
  /\ signer = [f \in Signers |->
       [op |-> "none", pc |-> "idle", svc |-> Broking, owner |-> CHOOSE o \in Owners : TRUE,
        role |-> "primary", id |-> CHOOSE i \in Ids : TRUE, turn |-> 0, cookie |-> 0, status |-> "none"]]
  /\ use = [c \in Callers |-> [pc |-> "none", want |-> 0, cookie |-> 0]]
  /\ ops = 0

place(f) == <<signer[f].owner, signer[f].role>>

-----------------------------------------------------------------------------
(* The ends of operations, and of QR code sessions with them.               *)

\* Mutant of Finished: a session that ended keeps being told about.
FinishedAgain(f, status) == IF signer[f].op = "qr" THEN status ELSE signer[f].status

\* finish: only an active session takes a new status.
Finished(f, status) ==
  IF signer[f].op = "qr" /\ signer[f].status \in Active THEN status ELSE signer[f].status

\* What is left of an operation that ends.
Over(f, status) ==
  [signer[f] EXCEPT !.op = "none", !.pc = "idle", !.turn = 0, !.cookie = 0, !.status = Finished(f, status)]

\* Mutant of RefusedOver: a session whose Connect fails is not told.
RefusedOverSilent(f) == [Over(f, "error") EXCEPT !.status = signer[f].status]

\* Connect fails, in a session or outside of one.
RefusedOver(f) == Over(f, "error")

Refuse(f) == signer' = [signer EXCEPT ![f] = RefusedOver(f)]

\* A service's mutex is held from a look at the turns until the transaction is over.
MutexFree(s) == \A g \in Signers : signer[g].pc \in {"locks", "write"} => signer[g].svc # s

\* A turn of Connect or Disconnect begins and makes earlier ones stale.
TakeTurn(s, p) == MutexFree(s) /\ turn' = [turn EXCEPT ![s][p] = @ + 1]

Fresh(f, op, pc, s, o, r) ==
  [signer[f] EXCEPT !.op = op, !.pc = pc, !.svc = s, !.owner = o, !.role = r, !.status = "none"]

Begin(f) == signer[f].pc = "idle" /\ ops < MaxOps /\ ops' = ops + 1

-----------------------------------------------------------------------------
(* Sign-in and sign-out.                                                    *)

Connect(f, s, o, r) ==
  /\ Begin(f)
  /\ TakeTurn(s, <<o, r>>)
  /\ signer' = [signer EXCEPT ![f] = [Fresh(f, "connect", "auth", s, o, r) EXCEPT
                  !.turn = turn'[s][<<o, r>>], !.cookie = ops']]
  /\ UNCHANGED <<rows, ended, known, use>>

\* SaveCollector, and CheckCollector, which saves the cookie it reads.
SaveCollector(f, s, o) ==
  /\ o \in Admins
  /\ Begin(f)
  /\ signer' = [signer EXCEPT ![f] = [Fresh(f, "save", "auth", s, o, "test") EXCEPT !.cookie = ops']]
  /\ UNCHANGED <<rows, turn, ended, known, use>>

CheckCollector(f, s, o, a) ==
  /\ o \in Admins /\ rows[a].role = "shared" /\ rows[a].cookie # 0
  /\ Begin(f)
  /\ signer' = [signer EXCEPT ![f] = [Fresh(f, "check", "auth", s, o, "test") EXCEPT
                  !.id = a[2], !.cookie = rows[a].cookie]]
  /\ UNCHANGED <<rows, turn, ended, known, use>>

EnableCollector(a, on) ==
  /\ rows[a].role = "shared"
  /\ ops < MaxOps /\ ops' = ops + 1
  /\ rows' = [rows EXCEPT ![a].enabled = on, ![a].rev = @ + 1]
  /\ UNCHANGED <<turn, ended, known, signer, use>>

Disconnect(f, s, o, r) ==
  /\ Begin(f)
  /\ TakeTurn(s, <<o, r>>)
  /\ signer' = [signer EXCEPT ![f] = [Fresh(f, "disconnect", "drop", s, o, r) EXCEPT
                  !.turn = turn'[s][<<o, r>>]]]
  /\ UNCHANGED <<rows, ended, known, use>>

End(s, p, n) == ended' = [ended EXCEPT ![s][p] = IF n > @ THEN n ELSE @]

\* The transaction of Disconnect, which no later turn holds back.
Drop(f) ==
  /\ signer[f].pc = "drop"
  /\ rows' = [a \in Table |->
       IF a[1] = signer[f].owner /\ rows[a].role = signer[f].role
       THEN [rows[a] EXCEPT !.valid = FALSE, !.rev = @ + 1, !.cookie = 0] ELSE rows[a]]
  /\ End(signer[f].svc, place(f), signer[f].turn)
  /\ signer' = [signer EXCEPT ![f] = Over(f, "error")]
  /\ UNCHANGED <<turn, known, use, ops>>

\* The platform tells whose cookie it is, or nothing.
Authenticate(f) ==
  /\ signer[f].pc = "auth"
  /\ \/ Refuse(f)
     \/ \E i \in IF signer[f].op = "check" THEN {signer[f].id} ELSE Ids :
          signer' = [signer EXCEPT ![f].pc = "mutex", ![f].id = i]
  /\ UNCHANGED <<rows, turn, ended, known, use, ops>>

\* Mutant of InTurn: a sign-in that was passed by is stored all the same.
InTurnAlways(f) == TRUE

InTurn(f) ==
  signer[f].op \in {"connect", "qr"} => turn[signer[f].svc][place(f)] = signer[f].turn

TakeMutex(f) ==
  /\ signer[f].pc = "mutex" /\ MutexFree(signer[f].svc)
  /\ IF InTurn(f) THEN signer' = [signer EXCEPT ![f].pc = "locks"] ELSE Refuse(f)
  /\ UNCHANGED <<rows, turn, ended, known, use, ops>>

\* Mutant of Unlocked: the identity is not locked.
UnlockedOwner(f, g) ==
  signer[g].owner # signer[f].owner \/ {signer[f].op, signer[g].op} \intersect {"save", "check"} # {}

\* The advisory locks: of the identity, and of the owner between sign-ins.
Unlocked(f, g) ==
  /\ signer[g].id # signer[f].id
  /\ signer[g].owner # signer[f].owner \/ {signer[f].op, signer[g].op} \intersect {"save", "check"} # {}

\* An identity is either private or shared; an owner's roles are different ones.
Admissible(f) ==
  LET mine == <<signer[f].owner, signer[f].id>>
      same == {a \in Table : a[2] = signer[f].id /\ rows[a].role # "absent"} IN
  IF signer[f].op \in {"save", "check"} THEN \A a \in same : rows[a].role = "shared"
  ELSE /\ \A a \in same : rows[a].role # "shared"
       /\ rows[mine].role \in {"absent", "none", signer[f].role}

TakeLocks(f) ==
  /\ signer[f].pc = "locks"
  /\ \A g \in Signers \ {f} : signer[g].pc = "write" => Unlocked(f, g)
  /\ IF Admissible(f) THEN signer' = [signer EXCEPT ![f].pc = "write"] ELSE Refuse(f)
  /\ UNCHANGED <<rows, turn, ended, known, use, ops>>

Stored(row, role, cookie) ==
  [row EXCEPT !.role = role, !.valid = TRUE, !.rev = @ + 1, !.cookie = cookie]

\* Connect writes its row and leaves the role's former account without one ...
ConnectedRows(f) ==
  LET mine == <<signer[f].owner, signer[f].id>> IN
  [a \in Table |->
     IF a = mine THEN Stored(rows[a], signer[f].role, signer[f].cookie)
     ELSE IF a[1] = signer[f].owner /\ rows[a].role = signer[f].role
     THEN [rows[a] EXCEPT !.role = "none", !.valid = FALSE, !.rev = @ + 1, !.cookie = 0]
     ELSE rows[a]]

\* ... SaveCollector the shared row of the identity, whose owner stays.
CollectorPlace(f) ==
  LET held == {a \in Table : a[2] = signer[f].id /\ rows[a].role = "shared"} IN
  IF held = {} THEN <<signer[f].owner, signer[f].id>> ELSE CHOOSE a \in held : TRUE

Write(f) ==
  /\ signer[f].pc = "write"
  /\ IF signer[f].op \in {"save", "check"}
     THEN /\ rows' = [rows EXCEPT ![CollectorPlace(f)] = Stored(@, "shared", signer[f].cookie)]
          /\ UNCHANGED ended
     ELSE /\ rows' = ConnectedRows(f)
          /\ End(signer[f].svc, place(f), signer[f].turn)
  /\ known' = IF signer[f].svc # Broking THEN known
              ELSE [known EXCEPT ![IF signer[f].op \in {"save", "check"} THEN CollectorPlace(f)
                                   ELSE <<signer[f].owner, signer[f].id>>] = 0]
  /\ signer' = [signer EXCEPT ![f] = Over(f, "connected")]
  /\ UNCHANGED <<turn, use, ops>>

-----------------------------------------------------------------------------
(* QR code sessions.                                                        *)

Superseded(g, s, o, r) ==
  signer[g].status \in Active /\ signer[g].svc = s /\ signer[g].owner = o /\ signer[g].role = r

Start(f, s, o, r) ==
  /\ Begin(f)
  /\ signer' = [g \in Signers |->
       IF g = f THEN [Fresh(f, "qr", "login", s, o, r) EXCEPT !.status = "starting"]
       ELSE IF Superseded(g, s, o, r) THEN [signer[g] EXCEPT !.status = "cancelled"]
       ELSE signer[g]]
  /\ UNCHANGED <<rows, turn, ended, known, use>>

ShowQR(f) ==
  /\ signer[f].pc = "login" /\ signer[f].status = "starting"
  /\ signer' = [signer EXCEPT ![f].status = "waiting_scan"]
  /\ UNCHANGED <<rows, turn, ended, known, use, ops>>

\* The scan is exchanged for a cookie, perhaps of a session that was cancelled
\* meanwhile: Connect follows in either case.
LoginDone(f) ==
  /\ signer[f].pc = "login"
  /\ TakeTurn(signer[f].svc, place(f))
  /\ signer' = [signer EXCEPT ![f].pc = "auth", ![f].cookie = ops,
                              ![f].turn = turn'[signer[f].svc][place(f)]]
  /\ UNCHANGED <<rows, ended, known, use, ops>>

\* The platform refuses, 90 seconds are over or the session was cancelled.
LoginFails(f) ==
  /\ signer[f].pc = "login"
  /\ signer' = [signer EXCEPT ![f] = Over(f, "expired")]
  /\ UNCHANGED <<rows, turn, ended, known, use, ops>>

\* Cancel; expireLocked after the QR code's time.
CancelSession(f) ==
  /\ \E s \in {"cancelled"} \union (IF signer[f].status = "waiting_scan" THEN {"expired"} ELSE {}) :
       signer' = [signer EXCEPT ![f].status = s]
  /\ signer[f].status \in Active
  /\ UNCHANGED <<rows, turn, ended, known, use, ops>>

CloseSessions(s) ==
  /\ \E f \in Signers : signer[f].svc = s /\ signer[f].status \in Active
  /\ signer' = [f \in Signers |->
       IF signer[f].svc = s /\ signer[f].status \in Active
       THEN [signer[f] EXCEPT !.status = "cancelled"] ELSE signer[f]]
  /\ UNCHANGED <<rows, turn, ended, known, use, ops>>

-----------------------------------------------------------------------------
(* Credential and Invalidate, for a request of client c.                    *)

\* Service.Require.
Required(c) == rows[AccountOf[c]].role # "absent" /\ rows[AccountOf[c]].valid

\* The caller holds the account as it was when it began to call.
Want(c) == use' = [use EXCEPT ![c] = [pc |-> "none", want |-> rows[AccountOf[c]].rev, cookie |-> 0]]
BeginUse(c) == use' = [use EXCEPT ![c].pc = "read", ![c].cookie = 0]
EndUse(c) == use' = [use EXCEPT ![c].pc = "none", ![c].cookie = 0]

Usable(c) ==
  LET row == rows[AccountOf[c]] IN
  row.role \in Roles \union {"shared"} /\ row.enabled /\ row.valid /\ row.cookie # 0 /\ row.rev = use[c].want

ReadRow(c) ==
  /\ use[c].pc = "read" /\ Usable(c)
  /\ use' = [use EXCEPT ![c].pc = IF known[AccountOf[c]] = use[c].want THEN "ready" ELSE "auth",
                        ![c].cookie = rows[AccountOf[c]].cookie]
  /\ UNCHANGED <<rows, turn, ended, known, signer, ops>>

\* A cookie this process has not seen yet is shown to the platform first.
Validate(c) ==
  /\ use[c].pc = "auth"
  /\ \/ known' = [known EXCEPT ![AccountOf[c]] = use[c].want] /\ use' = [use EXCEPT ![c].pc = "ready"]
     \/ use' = [use EXCEPT ![c].pc = "blame"] /\ UNCHANGED known
  /\ UNCHANGED <<rows, turn, ended, signer, ops>>

\* Mutant of Blamed: the account is invalidated at whatever revision it is.
BlamedAlways(c) == [rows EXCEPT ![AccountOf[c]].valid = FALSE]

\* Invalidate, of the revision that was refused.
Blamed(c) ==
  IF rows[AccountOf[c]].rev = use[c].want THEN [rows EXCEPT ![AccountOf[c]].valid = FALSE] ELSE rows

Invalidate(c) ==
  /\ use[c].pc = "blame"
  /\ rows' = Blamed(c)
  /\ EndUse(c)
  /\ UNCHANGED <<turn, ended, known, signer, ops>>

-----------------------------------------------------------------------------

AccountsTypeOK ==
  /\ rows \in [Table -> Row]
  /\ turn \in [Services -> [Owners \X Roles -> Nat]]
  /\ ended \in [Services -> [Owners \X Roles -> Nat]]
  /\ known \in [Table -> Nat]
  /\ signer \in [Signers -> Signer]
  /\ use \in [Callers -> Use]
  /\ ops \in 0 .. MaxOps

\* identity.go:10: across processes, an identity is never a private account and
\* a shared collector at once, nor two shared ones.
PrivateXorShared ==
  \A a, b \in {x \in Table : rows[x].role # "absent"} :
    a # b /\ a[2] = b[2] => rows[a].role # "shared"

\* What a sign-in stores is newer than every sign-in and sign-out of the same
\* service that is done: a slow sign-in never brings an account back.
SignInsInOrder ==
  [][\A f \in Signers : signer[f].op \in {"connect", "qr"} /\ signer[f].pc = "write" /\ rows' # rows =>
       \/ signer'[f].pc = "write"
       \/ signer[f].turn > ended[signer[f].svc][place(f)]]_accounts

\* A late HTTP 401, or a failed look at a cookie, never marks an account
\* invalid that has been signed in anew since.
OnlyBlamedInvalid ==
  [][\A c \in Callers : use[c].pc = "blame" /\ use'[c].pc = "none" =>
       \A a \in Table : rows[a].valid /\ ~rows'[a].valid => rows[a].cookie = use[c].cookie]_accounts

\* A session that ended stays as it ended.
SessionsFinal ==
  [][\A f \in Signers : signer[f].status \notin Active /\ signer'[f].status # signer[f].status =>
       signer'[f].status \in {"starting", "none"} /\ signer[f].pc = "idle"]_accounts

\* One QR code at a time is waited for, for each owner and role of a process.
OneActiveSession ==
  \A f, g \in {x \in Signers : signer[x].status \in Active} : f # g =>
    signer[f].svc # signer[g].svc \/ place(f) # place(g)

=============================================================================
