------------------------------- MODULE Users -------------------------------
(***************************************************************************)
(* The account of one mail address: registration, links, codes, passwords  *)
(* and the administrator's changes, as PostgreSQL transactions that run    *)
(* concurrently at READ COMMITTED.                                         *)
(*                                                                         *)
(*   auth/service.go        RequestEmail, issue, Consume, RequestResetCode, *)
(*                          ConsumeResetCode                               *)
(*   auth/registration.go   RequestRegistrationCode, Register              *)
(*   auth/password.go, admin.go, admin_users.go, registration_settings.go  *)
(*                                                                         *)
(* A transaction is a list of statements, one per row it reads or locks.   *)
(* A locking statement waits for the row, sees its latest committed value  *)
(* and keeps the row until the transaction ends; nobody else sees what it  *)
(* wrote before it commits.  The mails it queues are inserted with it.     *)
(***************************************************************************)
EXTENDS Mail, FiniteSets

CONSTANTS
  Requests,    \* HTTP requests that may run at the same time
  MaxGuesses,  \* 5 in the code
  MaxSends,    \* codes per hour, 5 in the code
  MaxOps,      \* bound on the requests of a behaviour
  Scenes       \* which requests there are, and the rows at first

ASSUME UsersAssumption == MaxGuesses \in Nat \ {0} /\ MaxSends \in Nat \ {0} /\ MaxOps \in Nat

VARIABLES
  scene,    \* the scene that is played
  db,       \* the committed rows
  age,      \* how long ago the last registration code and its first were sent
  tx,       \* the transaction of each request
  begun,    \* requests so far
  issued,   \* codes and links so far
  expired,  \* those whose time has run out
  spent     \* history: wrong guesses that were answered and right ones that took effect, per code

vars == <<mailVars, scene, db, age, tx, begun, issued, expired, spent>>

None == "none"
Ids == 0..MaxOps
NoReply == [id |-> 0, kind |-> None]
NoTx == [op |-> None, todo |-> <<>>, draft |-> <<>>, shared |-> FALSE, new |-> 0, arg |-> 0, old |-> 0, reply |-> NoReply]
Blank == [id |-> 0, used |-> TRUE, tries |-> 0]

Init ==
  /\ scene \in Scenes
  /\ MailInit
  /\ db = [policy |-> scene.policy, user |-> [exists |-> scene.exists, disabled |-> FALSE, hash |-> 0],
            token |-> Blank, code |-> Blank, grant |-> Blank, sends |-> 0]
  /\ age = [recent |-> FALSE, late |-> FALSE]
  /\ tx = [p \in Requests |-> NoTx]
  /\ begun = 0 /\ issued = 0 /\ expired = {}
  /\ spent = [i \in Ids |-> [wrong |-> 0, right |-> 0]]

CodeRow == [id : Ids, used : BOOLEAN, tries : 0..MaxGuesses]

TypeOK ==
  /\ MailType
  /\ db.policy \in BOOLEAN
  /\ db.user \in [exists : BOOLEAN, disabled : BOOLEAN, hash : Nat]
  /\ {db.token, db.code, db.grant} \subseteq CodeRow /\ db.sends \in 0..MaxSends
  /\ age \in [recent : BOOLEAN, late : BOOLEAN]
  /\ \A p \in Requests : DOMAIN tx[p].draft \subseteq DOMAIN db
  /\ begun \in 0..MaxOps /\ issued \in Ids /\ expired \subseteq Ids

-----------------------------------------------------------------------------
(* The statements: what a row becomes, and how the transaction goes on.     *)

Go(v) == [value |-> v, then |-> "go", kind |-> None]
Commit(v, kind) == [value |-> v, then |-> "commit", kind |-> kind]
Abort(v) == [value |-> v, then |-> "abort", kind |-> None]
Require(ok, v) == IF ok THEN Go(v) ELSE Abort(v)

Live(row) == ~row.used /\ row.id \notin expired
Used(row) == [row EXCEPT !.used = TRUE]
Issued(id) == [id |-> id, used |-> FALSE, tries |-> 0]

\* Mutant of Missed: the last wrong guess leaves the code open.
MissedOnly(row) == [row EXCEPT !.tries = @ + 1]

\* One more wrong guess; the last one that is allowed uses the code up.
Missed(row) == [row EXCEPT !.tries = @ + 1, !.used = row.tries + 1 >= MaxGuesses]

\* RequestEmail and issue: a link replaces the unused ones.
RequestEmail(t, row, v) ==
  IF row = "user" THEN Require(v.exists /\ ~v.disabled, v) ELSE Go(Issued(t.new))

RequestResetCode(t, row, v) ==
  IF row = "user" THEN Require(v.exists /\ ~v.disabled, v) ELSE Go(Issued(t.new))

\* Mutant of Rejected: the error that the caller gets rolls the counter back.
RejectedByError(row) == [Abort(row) EXCEPT !.kind = "wrong"]

\* A wrong guess is committed before it is refused.
Rejected(row) == Commit(Missed(row), "wrong")

\* The guess at a code that was found and locked.
Judged(t, row) == IF t.arg # row.id THEN Rejected(row) ELSE [Go(Used(row)) EXCEPT !.kind = "right"]

\* ConsumeResetCode: the code and the user are locked by one statement.
ConsumeResetCode(t, row, v) ==
  CASE row = "code" -> Require(Live(v), v)
    [] row = "user" -> Require(~v.disabled, v)
    [] row = "judge" -> Judged(t, v)
    [] row = "password" -> Go([v EXCEPT !.hash = @ + 1])
    [] row = "token" -> Go(Used(v))

\* Consume, of a link that resets the password.
Consume(t, row, v) ==
  IF row = "token" THEN Require(Live(v) /\ v.id = t.arg, Used(v))
  ELSE Go(IF v.disabled THEN v ELSE [v EXCEPT !.hash = @ + 1])

\* ChangePassword: only over the hash that was checked.
ChangePassword(t, row, v) ==
  IF row = "user" THEN Require(v.hash = t.old /\ ~v.disabled, [v EXCEPT !.hash = @ + 1]) ELSE Go(Used(v))

\* UpdateUser: a new password, or another address alone, under which the user
\* is asked for from then on.
UpdateUser(t, row, v) ==
  IF row = "user" THEN Require(v.exists, IF t.arg = 1 THEN [v EXCEPT !.hash = @ + 1] ELSE v) ELSE Go(Used(v))

\* Disable, and its undoing.
Disable(t, row, v) ==
  IF row = "user" THEN Require(v.exists, [v EXCEPT !.disabled = (t.arg = 1)]) ELSE Go(Used(v))

\* The administrator's own row is not in the model.
SetRegistrationVerification(t, row, v) == Go(t.arg = 1)

\* RequestRegistrationCode: nothing for a registered address; not within a
\* minute, and not too often within an hour.
RequestRegistrationCode(t, row, v) ==
  CASE row = "policy" -> Require(v, v)
    [] row = "exists" -> Require(~v.exists, v)
    [] row = "grant" -> Require(v.id = 0 \/ (~age.recent /\ (age.late \/ db.sends < MaxSends)), Issued(t.new))
    [] row = "sends" -> Go(IF age.late THEN 1 ELSE v + 1)

\* Register: the code is proven when the policy asks for it, the user is
\* inserted, and what is left of a code is voided.
Register(t, row, v) ==
  CASE row = "policy" -> Go(v)
    [] row = "prove" -> IF ~Live(v) \/ v.tries >= MaxGuesses THEN Abort(v)
                        ELSE Judged(t, v)
    [] row = "user" -> Require(~v.exists, [v EXCEPT !.exists = TRUE])
    [] row = "void" -> Go(Used(v))

Statement(t, row, v) ==
  CASE t.op = "link" -> RequestEmail(t, row, v)
    [] t.op = "code" -> RequestResetCode(t, row, v)
    [] t.op = "reset" -> ConsumeResetCode(t, row, v)
    [] t.op = "consume" -> Consume(t, row, v)
    [] t.op = "change" -> ChangePassword(t, row, v)
    [] t.op = "update" -> UpdateUser(t, row, v)
    [] t.op = "disable" -> Disable(t, row, v)
    [] t.op = "policy" -> SetRegistrationVerification(t, row, v)
    [] t.op = "grant" -> RequestRegistrationCode(t, row, v)
    [] t.op = "register" -> Register(t, row, v)

\* The rows of a transaction, in the order of its statements.
Program ==
  [link |-> <<"user", "token">>, code |-> <<"user", "code">>, reset |-> <<"code", "user", "judge", "password", "token">>,
   consume |-> <<"token", "user">>, change |-> <<"user", "token">>, update |-> <<"user", "token">>,
   disable |-> <<"user", "token">>, policy |-> <<"policy">>, grant |-> <<"policy", "exists", "grant", "sends">>,
   register |-> <<"policy", "prove", "user", "void">>]

\* How many requests a scene has, and which; the rows at first; whether the
\* database aborts, time passes and the mail is delivered.
Scene ==
  [ops : 0..MaxOps, may : SUBSET DOMAIN Program, policy : BOOLEAN, exists : BOOLEAN,
   aborts : BOOLEAN, time : BOOLEAN, mails : BOOLEAN]

ASSUME ScenesAssumption == Scenes \subseteq Scene

-----------------------------------------------------------------------------
(* Transactions.                                                            *)

RowOf(s) ==
  CASE s \in {"prove", "void"} -> "grant" [] s = "judge" -> "code" [] s \in {"exists", "password"} -> "user" [] OTHER -> s

\* The latest value of a row, for a transaction that has written some.
Latest(draft, row) == IF row \in DOMAIN draft THEN draft[row] ELSE db[row]
Written(draft, row, v) == [x \in DOMAIN draft \union {row} |-> IF x = row THEN v ELSE draft[x]]
Seen(t, s) == Latest(t.draft, RowOf(s))

\* Mutant of Shares: registration reads the policy without a lock.
SharesNothing(t, s) == FALSE

\* FOR SHARE.
Shares(t, s) == s = "policy" /\ t.op # "policy"

\* Statements that find no row to lock, or ask for none.
Bare(t, s) ==
  \/ s = "exists"
  \/ t.op \in {"grant", "register"} /\ s = "policy"
  \/ t.op = "disable" /\ t.arg = 0 /\ s = "token"
  \/ s \in {"token", "code", "prove", "void"} /\ t.op \notin {"link", "code"} /\ Seen(t, s).used

\* Whether statement s of t has to wait for transaction o.
Conflict(t, o, s) ==
  \/ ~Bare(t, s) /\ (RowOf(s) \in DOMAIN o.draft \/ (s = "policy" /\ o.shared))
  \/ Shares(t, s) /\ "policy" \in DOMAIN o.draft

Blocks(o, p) == o # p /\ tx[p].todo # <<>> /\ Conflict(tx[p], tx[o], Head(tx[p].todo))

\* What a request brings: a code or link that was sent, or none of them; 1 for a
\* password, disabling, or asking for codes.
Arguments(op) ==
  CASE op \in {"reset", "consume", "register"} -> 0..issued
    [] op \in {"update", "disable", "policy"} -> {0, 1}
    [] OTHER -> {0}

Begin(p) ==
  /\ begun < scene.ops /\ tx[p].op = None
  /\ p = CHOOSE r \in Requests : tx[r].op = None  \* requests are alike
  /\ \E op \in scene.may :
       /\ issued' = IF op \in {"link", "code", "grant"} THEN issued + 1 ELSE issued
       /\ \E g \in Arguments(op) :
            tx' = [tx EXCEPT ![p] = [NoTx EXCEPT !.op = op, !.todo = Program[op], !.new = issued', !.arg = g, !.old = db.user.hash]]
  /\ begun' = begun + 1
  /\ UNCHANGED <<mailVars, scene, db, age, expired, spent>>

\* What became of a guess, once its transaction is over.
Told(reply) == spent' = IF reply.kind = None THEN spent ELSE [spent EXCEPT ![reply.id][reply.kind] = @ + 1]

Execute(p) ==
  /\ tx[p].todo # <<>> /\ \A o \in Requests : ~Blocks(o, p)
  /\ LET t == tx[p]
         s == Head(t.todo)
         v == Seen(t, s)
         r == Statement(t, s, v)
         reply == IF r.kind = None THEN t.reply ELSE [id |-> v.id, kind |-> r.kind]
         skips == t.op = "register" /\ s = "policy" /\ ~v
     IN
     IF r.then = "abort"
       THEN /\ tx' = [tx EXCEPT ![p] = NoTx]
            /\ IF r.kind = "wrong" THEN Told(reply) ELSE UNCHANGED spent
       ELSE /\ tx' = [tx EXCEPT ![p] = [t EXCEPT
                 !.draft = IF Bare(t, s) THEN @ ELSE Written(@, RowOf(s), r.value),
                 !.shared = @ \/ Shares(t, s),
                 !.todo = IF r.then = "commit" THEN <<>> ELSE IF skips THEN Tail(Tail(@)) ELSE Tail(@),
                 !.reply = reply]]
            /\ UNCHANGED spent
  /\ UNCHANGED <<mailVars, scene, db, age, begun, issued, expired>>

CommitTx(p) ==
  /\ tx[p].op # None /\ tx[p].todo = <<>>
  /\ db' = [row \in DOMAIN db |-> Latest(tx[p].draft, row)]
  /\ age' = IF tx[p].op = "grant" THEN [recent |-> TRUE, late |-> FALSE] ELSE age
  /\ mails' = IF tx[p].op \in {"link", "code", "grant"} THEN Append(mails, Unsent) ELSE mails
  /\ Told(tx[p].reply)
  /\ tx' = [tx EXCEPT ![p] = NoTx]
  /\ UNCHANGED <<post, scene, begun, issued, expired>>

\* The database aborts a transaction that waits in a circle, the request is
\* given up, or the code it waits for is not there any more.
Victim(p) ==
  /\ \/ scene.aborts /\ tx[p].op # None
     \/ tx[p].todo = Program["reset"] /\ \E o \in Requests : Blocks(o, p)
     \/ \E o \in Requests : Blocks(o, p) /\ Blocks(p, o)
  /\ tx' = [tx EXCEPT ![p] = NoTx]
  /\ UNCHANGED <<mailVars, scene, db, age, begun, issued, expired, spent>>

\* Time: a code runs out; a minute or an hour passes since the last one.
Expire ==
  /\ scene.time
  /\ \/ \E i \in 1..issued : expired' = expired \union {i} /\ UNCHANGED age
     \/ age' \in {[age EXCEPT !.recent = FALSE], [recent |-> FALSE, late |-> db.sends > 0]} /\ UNCHANGED expired
  /\ UNCHANGED <<mailVars, scene, db, tx, begun, issued, spent>>

Ask == \E p \in Requests : Begin(p) \/ Execute(p) \/ CommitTx(p) \/ Victim(p)

users == <<scene, db, age, tx, begun, issued, expired, spent>>
Deliver(w) == scene.mails /\ (Claim(w) \/ Send(w) \/ Mark(w) \/ Delay(w)) /\ UNCHANGED users
Wait(m) == scene.mails /\ TimePasses(m) /\ UNCHANGED users

Next ==
  \/ Ask
  \/ Expire
  \/ \E w \in Posters : Deliver(w) \/ (Drop(w) /\ UNCHANGED users)
  \/ \E m \in 1..MaxOps : Wait(m)

\* The queue runs once a second, and time passes.
Fairness ==
  /\ \A w \in Posters : WF_vars(Deliver(w))
  /\ \A m \in 1..MaxOps : WF_vars(Wait(m))

Spec == Init /\ [][Next]_vars /\ Fairness

-----------------------------------------------------------------------------
(* Properties.                                                              *)

\* However guesses, new codes and other requests overlap, a code is answered
\* at most MaxGuesses times with "wrong" and takes effect at most once.
CodeBudget == \A i \in Ids : spent[i].wrong <= MaxGuesses /\ spent[i].right <= 1

\* A request under way was told that its code is right.
Proven == \E p \in Requests : tx[p].reply = [id |-> db.grant.id, kind |-> "right"]

\* While the policy asks for a code, no user appears without the right one:
\* a registration that began before the administrator asked for it does not
\* slip through.
ProvenRegistration == [][~db.user.exists /\ db'.user.exists => ~db.policy \/ Proven]_vars

\* Nobody gets a mail twice, however many processes run the queue, unless a
\* process died or a reply was lost after a delivery.
MailOnce == \A m \in DOMAIN mails : mails[m].delivered <= 1 + mails[m].mishaps

\* Every mail is recorded as sent or has used up its attempts in the end.
MailsSettle == \A m \in 1..MaxOps :
  scene.mails /\ m \in DOMAIN mails ~> m \in DOMAIN mails /\ (mails[m].sent \/ mails[m].attempts = MaxAttempts)
=============================================================================
