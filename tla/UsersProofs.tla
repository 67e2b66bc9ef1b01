----------------------------- MODULE UsersProofs -----------------------------
(***************************************************************************)
(* Proofs about one mail address and about the mail queue: for any number  *)
(* of requests, of processes and of codes, a code is guessed at most as    *)
(* often as it may be, nobody registers past the policy, and nobody gets a *)
(* mail twice for nothing.                                                 *)
(***************************************************************************)
EXTENDS Users, FiniteSetTheorems, SequenceTheorems, TLAPS

-----------------------------------------------------------------------------
(* The inductive invariant of the mail queue.                               *)

MailRow ==
  [sent : BOOLEAN, attempts : 0 .. MaxAttempts, lease : {"none", "held", "over"}, waits : BOOLEAN,
   delivered : 0 .. MaxAttempts, mishaps : 0 .. MaxAttempts]

Marks(m) == \E w \in Posters : post[w].pc = "mark" /\ post[w].m = m

\* What a process works on is leased to it alone and not sent yet.
WorkInv ==
  /\ post \in [Posters -> [pc : {"rest", "send", "mark", "delay"}, m : Nat]]
  /\ \A w \in Posters :
       /\ post[w].pc = "rest" => post[w].m = 0
       /\ post[w].pc # "rest" =>
            /\ post[w].m \in DOMAIN mails /\ mails[post[w].m].lease = "held" /\ ~mails[post[w].m].sent
            /\ post[w].pc = "send" => mails[post[w].m].delivered < mails[post[w].m].attempts
  /\ \A w, v \in Posters : post[w].m = post[v].m /\ post[w].pc # "rest" => w = v

\* Every delivery is recorded, about to be recorded, or a mishap.
CountInv ==
  \A m \in DOMAIN mails :
    /\ mails[m].delivered <= mails[m].attempts
    /\ mails[m].delivered = mails[m].mishaps + IF mails[m].sent \/ Marks(m) THEN 1 ELSE 0

MailInv == mails \in Seq(MailRow) /\ WorkInv /\ CountInv

-----------------------------------------------------------------------------
(* The inductive invariant of the transactions.                             *)

Rows == {"policy", "user", "token", "code", "grant", "sends"}
Codes == {"code", "grant"}
UserRow == [exists : BOOLEAN, disabled : BOOLEAN, hash : Nat]

\* A code with no guess left is used.
OpenCode == {row \in CodeRow : ~row.used => row.tries < MaxGuesses}

\* Rows, of the database or of a transaction.
Fits(row, v) ==
  /\ row = "policy" => v \in BOOLEAN
  /\ row = "user" => v \in UserRow
  /\ row \in {"token", "code", "grant"} => v \in OpenCode
  /\ row = "sends" => v \in 0 .. MaxSends
RowsTyped(f) == DOMAIN f \subseteq Rows /\ \A row \in DOMAIN f : Fits(row, f[row])

DbInv ==
  /\ scene \in Scene /\ DOMAIN db = Rows /\ RowsTyped(db)
  /\ db["code"].id = db["grant"].id => db["code"].id = 0
  /\ db["code"].id = 0 => db["code"].used
  /\ db["grant"].id = 0 => db["grant"].used /\ db["sends"] = 0
  /\ age \in [recent : BOOLEAN, late : BOOLEAN] /\ (age.late => db["sends"] > 0)
  /\ expired \subseteq Ids

Issuers == {"link", "code", "grant"}
Ops == DOMAIN Program

\* What is left of a transaction.
Places(op) ==
  CASE op = "link" -> {<<"user", "token">>, <<"token">>, <<>>}
    [] op = "code" -> {<<"user", "code">>, <<"code">>, <<>>}
    [] op = "reset" -> {<<"code", "user", "judge", "password", "token">>, <<"user", "judge", "password", "token">>,
                        <<"judge", "password", "token">>, <<"password", "token">>, <<"token">>, <<>>}
    [] op = "consume" -> {<<"token", "user">>, <<"user">>, <<>>}
    [] op \in {"change", "update", "disable"} -> {<<"user", "token">>, <<"token">>, <<>>}
    [] op = "policy" -> {<<"policy">>, <<>>}
    [] op = "grant" -> {<<"policy", "exists", "grant", "sends">>, <<"exists", "grant", "sends">>, <<"grant", "sends">>,
                        <<"sends">>, <<>>}
    [] op = "register" -> {<<"policy", "prove", "user", "void">>, <<"prove", "user", "void">>, <<"user", "void">>,
                           <<"void">>, <<>>}
    [] OTHER -> {<<>>}

TxTyped(t) ==
  /\ DOMAIN t = DOMAIN NoTx
  /\ t.op \in Ops \union {None} /\ t.todo \in Places(t.op)
  /\ t.shared \in BOOLEAN /\ t.new \in Ids /\ t.arg \in Nat /\ t.old \in Nat
  /\ t.reply \in [id : Ids, kind : {None, "wrong", "right"}]
  /\ RowsTyped(t.draft)
  /\ t.op = None => DOMAIN t.draft = {} /\ t.reply.kind = None /\ ~t.shared

\* The request that guesses at a code.
Guesses(row) == IF row = "code" THEN "reset" ELSE "register"

\* The row of a code that t has written: a new code, or the old one further on.
Follows(t, row) ==
  \/ t.op = row /\ t.draft[row] = Issued(t.new)
  \/ /\ t.op = Guesses(row) /\ t.draft[row].id = db[row].id
     /\ db[row].tries <= t.draft[row].tries /\ (db[row].used => t.draft[row].used)

DraftInv(t) ==
  /\ "policy" \in DOMAIN t.draft => t.op = "policy"
  /\ "sends" \in DOMAIN t.draft => t.op = "grant" /\ "grant" \in DOMAIN t.draft
  /\ \A row \in Codes : row \in DOMAIN t.draft => Follows(t, row)
  /\ t.shared => t.op \in {"grant", "register"}

\* What t was told about its guess, of the code whose row it has locked.
ReplyInv(t) ==
  t.reply.kind # None => \E row \in Codes :
    /\ row \in DOMAIN t.draft /\ t.op = Guesses(row) /\ t.reply.id = db[row].id /\ ~db[row].used
    /\ t.reply.kind = "right" => t.draft[row].used
    /\ t.reply.kind = "wrong" => t.draft[row].tries = db[row].tries + 1 /\ t.todo = <<>>

\* The code of this address was proven, or the policy asks for none.
Allowed(t) == t.shared /\ (~db["policy"] \/ (t.reply.kind = "right" /\ t.reply.id = db["grant"].id))

\* What a transaction relies on, at each of its places.
PlaceInv(t) ==
  /\ t.op = "reset" /\ t.todo \in {<<"user", "judge", "password", "token">>, <<"judge", "password", "token">>} =>
       "code" \in DOMAIN t.draft /\ t.draft["code"] = db["code"] /\ ~db["code"].used
  /\ t.op = "register" /\ t.todo = <<"prove", "user", "void">> => t.shared /\ DOMAIN t.draft = {}
  /\ t.op = "register" /\ t.todo = <<"user", "void">> => Allowed(t)
  /\ t.op = "grant" /\ t.todo \in {<<"sends">>, <<>>} => "grant" \in DOMAIN t.draft
  /\ t.op = "grant" /\ t.todo = <<"sends">> =>
       /\ "sends" \notin DOMAIN t.draft
       /\ db["grant"].id = 0 \/ age.late \/ db["sends"] < MaxSends
  /\ "user" \in DOMAIN t.draft /\ t.draft["user"].exists /\ ~db["user"].exists => t.op = "register" /\ Allowed(t)
  /\ t.op = "grant" /\ t.todo \notin {<<"sends">>, <<>>} => DOMAIN t.draft = {}
  /\ t.op \in {"reset", "register"} /\ t.todo = Program[t.op] => DOMAIN t.draft = {} /\ t.reply.kind = None

TxInv(t) == TxTyped(t) /\ DraftInv(t) /\ ReplyInv(t) /\ PlaceInv(t)

\* A row is locked by one transaction; nobody changes a policy that others share.
Apart(t, o) ==
  /\ DOMAIN t.draft \intersect DOMAIN o.draft = {}
  /\ t.shared => "policy" \notin DOMAIN o.draft

LockInv ==
  /\ DOMAIN tx = Requests
  /\ \A p \in Requests : TxInv(tx[p])
  /\ \A p, o \in Requests : p # o => Apart(tx[p], tx[o])

Zero == [wrong |-> 0, right |-> 0]

\* What a transaction issues is nobody else's, and nobody has guessed at it.
New(t) == t.op \in Issuers => /\ t.new \in 1 .. issued /\ t.new # db["code"].id /\ t.new # db["grant"].id
                              /\ spent[t.new] = Zero

FreshInv ==
  /\ begun \in 0 .. MaxOps /\ issued \in 0 .. begun
  /\ db["code"].id <= issued /\ db["grant"].id <= issued
  /\ \A p \in Requests : New(tx[p])
  /\ \A p, o \in Requests : p # o /\ tx[p].op \in Issuers /\ tx[o].op \in Issuers => tx[p].new # tx[o].new
  /\ \A i \in Ids : i > issued => spent[i] = Zero

\* The guesses at a code are those its row counts.
Counted(row) ==
  /\ spent[row.id].wrong <= row.tries
  /\ spent[row.id].right = 0 \/ (spent[row.id].right = 1 /\ row.used)

SpentInv ==
  /\ spent \in [Ids -> [wrong : 0 .. MaxGuesses, right : {0, 1}]]
  /\ Counted(db["code"]) /\ Counted(db["grant"])

UsersInv == MailInv /\ DbInv /\ LockInv /\ FreshInv /\ SpentInv

-----------------------------------------------------------------------------
(* The mail queue.                                                          *)

\* One row and the process that works on it have moved; nobody else works on it.
LEMMA RowStep ==
  ASSUME MailInv, NEW w \in Posters, NEW m \in DOMAIN mails, NEW row \in MailRow,
         NEW x \in [pc : {"rest", "send", "mark", "delay"}, m : Nat],
         post[w].pc = "rest" \/ post[w].m = m,
         \A v \in Posters : v # w => post[v].m # m,
         mails' = [mails EXCEPT ![m] = row], post' = [post EXCEPT ![w] = x],
         x.pc = "rest" => x.m = 0, x.pc # "rest" => x.m = m /\ row.lease = "held" /\ ~row.sent,
         x.pc = "send" => row.delivered < row.attempts,
         row.delivered <= row.attempts,
         row.sent \/ x.pc = "mark" => row.delivered = row.mishaps + 1,
         ~row.sent /\ x.pc # "mark" => row.delivered = row.mishaps
  PROVE  MailInv'
<1>1. /\ mails \in Seq(MailRow) /\ WorkInv /\ CountInv /\ Len(mails) \in Nat /\ DOMAIN mails = 1 .. Len(mails)
      /\ m \in 1 .. Len(mails)
  BY LenProperties DEF MailInv
<1>2. /\ mails' \in Seq(MailRow) /\ DOMAIN mails' = DOMAIN mails /\ mails'[m] = row
      /\ \A k \in DOMAIN mails \ {m} : mails'[k] = mails[k]
  BY <1>1
<1>3. /\ post' \in [Posters -> [pc : {"rest", "send", "mark", "delay"}, m : Nat]] /\ post'[w] = x
      /\ \A v \in Posters \ {w} : post'[v] = post[v]
  BY <1>1 DEF WorkInv
<1>4. ASSUME NEW v \in Posters
      PROVE  /\ post'[v].pc = "rest" => post'[v].m = 0
             /\ post'[v].pc # "rest" =>
                  /\ post'[v].m \in DOMAIN mails' /\ mails'[post'[v].m].lease = "held" /\ ~mails'[post'[v].m].sent
                  /\ post'[v].pc = "send" => mails'[post'[v].m].delivered < mails'[post'[v].m].attempts
  <2>1. CASE v = w
    BY <1>2, <1>3, <2>1
  <2>2. CASE v # w
    BY <1>1, <1>2, <1>3, <2>2 DEF WorkInv
  <2>3. QED BY <2>1, <2>2
<1>5. \A v, u \in Posters : post'[v].m = post'[u].m /\ post'[v].pc # "rest" => v = u
  <2> SUFFICES ASSUME NEW v \in Posters, NEW u \in Posters, post'[v].m = post'[u].m, post'[v].pc # "rest"
               PROVE  v = u
    OBVIOUS
  <2>1. CASE v # w /\ u # w
    BY <1>1, <1>3, <2>1 DEF WorkInv
  <2>2. CASE v = w /\ u # w
    BY <1>3, <2>2
  <2>3. CASE v # w /\ u = w
    <3>1. post'[v].m \in DOMAIN mails /\ post'[v].m # m
      BY <1>1, <1>3, <2>3 DEF WorkInv
    <3>2. x.m \in {0, m}
      BY <2>3
    <3>3. QED BY <1>1, <1>3, <2>3, <3>1, <3>2
  <2>4. QED BY <2>1, <2>2, <2>3
<1>6. WorkInv'
  BY <1>3, <1>4, <1>5 DEF WorkInv
<1>7. ASSUME NEW k \in DOMAIN mails'
      PROVE  /\ mails'[k].delivered <= mails'[k].attempts
             /\ mails'[k].delivered = mails'[k].mishaps + IF mails'[k].sent \/ Marks(k)' THEN 1 ELSE 0
  <2>1. CASE k = m
    <3>1. Marks(k)' <=> x.pc = "mark"
      BY <1>1, <1>3, <2>1 DEF Marks
    <3>2. row.mishaps = row.mishaps + 0 /\ mails'[k] = row
      BY <1>2, <2>1 DEF MailRow
    <3>3. row.delivered = row.mishaps + IF row.sent \/ Marks(k)' THEN 1 ELSE 0
      BY <3>1, <3>2
    <3>4. QED BY <3>2, <3>3
  <2>2. CASE k # m
    <3>1. k # 0 /\ post[w].m \in {0, m} /\ x.m \in {0, m}
      BY <1>1, <1>2 DEF WorkInv
    <3>2. Marks(k)' <=> Marks(k)
      BY <1>3, <2>2, <3>1 DEF Marks
    <3>3. mails'[k] = mails[k] /\ k \in DOMAIN mails
      BY <1>2, <2>2
    <3>4. QED BY <1>1, <3>2, <3>3 DEF CountInv
  <2>3. QED BY <2>1, <2>2
<1>8. CountInv'
  BY <1>7 DEF CountInv
<1>9. QED BY <1>2, <1>6, <1>8 DEF MailInv

LEMMA MailFields ==
  ASSUME MailInv, NEW w \in Posters, post[w].pc # "rest"
  PROVE  /\ post[w].m \in DOMAIN mails /\ Row(w) = mails[post[w].m] /\ Row(w) \in MailRow
         /\ Row(w).lease = "held" /\ ~Row(w).sent /\ (post[w].pc = "send" => Row(w).delivered < Row(w).attempts)
         /\ Row(w).delivered <= Row(w).attempts
         /\ Row(w).delivered = Row(w).mishaps + IF post[w].pc = "mark" THEN 1 ELSE 0
         /\ \A v \in Posters : v # w => post[v].m # post[w].m
         /\ post[w] \in [pc : {"rest", "send", "mark", "delay"}, m : Nat]
<1> DEFINE m == post[w].m
<1>1. /\ m \in DOMAIN mails /\ Row(w) = mails[m] /\ mails[m] \in MailRow
  BY DEF MailInv, WorkInv, Row
<1>2. /\ mails[m].lease = "held" /\ ~mails[m].sent
      /\ post[w].pc = "send" => mails[m].delivered < mails[m].attempts
      /\ post[w] \in [pc : {"rest", "send", "mark", "delay"}, m : Nat]
  BY DEF MailInv, WorkInv
<1>3. \A v \in Posters : v # w => post[v].m # m
  BY DEF MailInv, WorkInv
<1>4. Marks(m) <=> post[w].pc = "mark"
  BY <1>3 DEF Marks
<1>5. QED BY <1>1, <1>2, <1>3, <1>4 DEF MailInv, CountInv

\* Put, with a row that fits the place to which w goes.
LEMMA PutStep ==
  ASSUME MailInv, NEW w \in Posters, post[w].pc # "rest", NEW row \in MailRow, NEW pc \in {"rest", "mark", "delay"},
         Put(w, row, pc), pc # "rest" => row.lease = "held" /\ ~row.sent,
         row.delivered <= row.attempts,
         row.delivered = row.mishaps + IF row.sent \/ pc = "mark" THEN 1 ELSE 0
  PROVE  MailInv'
<1> DEFINE m == post[w].m
           x == IF pc = "rest" THEN Resting ELSE [post[w] EXCEPT !.pc = pc]
<1>1. /\ m \in DOMAIN mails /\ \A v \in Posters : v # w => post[v].m # m
      /\ post[w] \in [pc : {"rest", "send", "mark", "delay"}, m : Nat]
  BY MailFields
<1>2. mails' = [mails EXCEPT ![m] = row] /\ post' = [post EXCEPT ![w] = x]
  BY DEF Put
<1>3. /\ x \in [pc : {"rest", "send", "mark", "delay"}, m : Nat] /\ x.pc = pc
      /\ x.m = IF pc = "rest" THEN 0 ELSE m
  BY <1>1 DEF Resting
<1> HIDE DEF x, m
<1>4. QED
  <2>1. (x.pc = "rest" => x.m = 0) /\ (x.pc # "rest" => x.m = m /\ row.lease = "held" /\ ~row.sent)
    BY <1>3
  <2>2. /\ x.pc = "send" => row.delivered < row.attempts
        /\ row.sent \/ x.pc = "mark" => row.delivered = row.mishaps + 1
        /\ ~row.sent /\ x.pc # "mark" => row.delivered = row.mishaps
    BY <1>3 DEF MailRow
  <2>3. post[w].pc = "rest" \/ post[w].m = m
    BY DEF m
  <2>4. /\ m \in DOMAIN mails /\ \A v \in Posters : v # w => post[v].m # m
        /\ x \in [pc : {"rest", "send", "mark", "delay"}, m : Nat]
    BY <1>1, <1>3
  <2>5. QED BY <1>2, <2>1, <2>2, <2>3, <2>4, RowStep

LEMMA ClaimStep ==
  ASSUME MailInv, NEW w \in Posters, Claim(w)
  PROVE  MailInv'
<1>1. PICK m \in DOMAIN mails :
        /\ Due(mails[m]) /\ mails' = [mails EXCEPT ![m] = Leased(@)]
        /\ post' = [post EXCEPT ![w] = [pc |-> "send", m |-> m]]
  BY DEF Claim
<1>2. post[w].pc = "rest"
  BY DEF Claim
<1>3. /\ mails[m] \in MailRow /\ m \in Nat /\ mails[m].lease # "held" /\ ~mails[m].sent
      /\ mails[m].attempts < MaxAttempts /\ MaxAttempts \in Nat
      /\ mails[m].delivered <= mails[m].attempts
  <2>1. mails \in Seq(MailRow)
    BY DEF MailInv
  <2>2. DOMAIN mails = 1 .. Len(mails) /\ Len(mails) \in Nat
    BY <2>1, LenProperties
  <2>3. QED BY <1>1, <2>1, <2>2, MailAssumption DEF Due, MailInv, CountInv
<1>4. \A v \in Posters : post[v].m # m
  <2>1. m # 0
    <3>1. mails \in Seq(MailRow)
      BY DEF MailInv
    <3>2. DOMAIN mails = 1 .. Len(mails) /\ Len(mails) \in Nat
      BY <3>1, LenProperties
    <3>3. QED BY <3>2
  <2>2. QED BY <1>3, <2>1 DEF MailInv, WorkInv
<1>5. mails[m].delivered = mails[m].mishaps
  <2>1. ~Marks(m)
    BY <1>4 DEF Marks
  <2>2. mails[m].delivered = mails[m].mishaps + 0
    BY <1>3, <2>1 DEF MailInv, CountInv
  <2>3. QED BY <1>3, <2>2 DEF MailRow
<1> DEFINE row == Leased(mails[m])
           x == [pc |-> "send", m |-> m]
<1>6. row = [mails[m] EXCEPT !.lease = "held", !.attempts = mails[m].attempts + 1]
  BY DEF Leased
<1>7. /\ row.lease = "held" /\ ~row.sent /\ row.attempts = mails[m].attempts + 1
      /\ row.delivered = mails[m].delivered /\ row.mishaps = mails[m].mishaps
  BY <1>3, <1>6 DEF MailRow
<1>8. row \in MailRow
  <2>1. mails[m].attempts + 1 \in 0 .. MaxAttempts
    BY <1>3 DEF MailRow
  <2>2. QED BY <1>3, <1>6, <2>1 DEF MailRow
<1>9. x \in [pc : {"rest", "send", "mark", "delay"}, m : Nat] /\ x.pc = "send" /\ x.m = m
  BY <1>3
<1>10. mails' = [mails EXCEPT ![m] = row] /\ post' = [post EXCEPT ![w] = x]
  BY <1>1
<1> HIDE DEF row, x
<1>11. /\ x.pc = "send" => row.delivered < row.attempts
       /\ row.delivered <= row.attempts
       /\ row.sent \/ x.pc = "mark" => row.delivered = row.mishaps + 1
       /\ ~row.sent /\ x.pc # "mark" => row.delivered = row.mishaps
       /\ x.pc = "rest" => x.m = 0
       /\ x.pc # "rest" => x.m = m /\ row.lease = "held" /\ ~row.sent
       /\ \A v \in Posters : v # w => post[v].m # m
  BY <1>3, <1>4, <1>5, <1>7, <1>9 DEF MailRow
<1>12. post[w].pc = "rest" \/ post[w].m = m
  BY <1>2
<1>13. QED BY <1>8, <1>9, <1>10, <1>11, <1>12, RowStep

LEMMA OutcomeStep ==
  ASSUME MailInv, NEW w \in Posters, Send(w) \/ Mark(w) \/ Delay(w) \/ Drop(w)
  PROVE  MailInv'
<1> DEFINE row == Row(w)
<1>1. post[w].pc # "rest"
  BY DEF Send, Mark, Delay, Drop
<1>2. /\ row \in MailRow /\ row.lease = "held" /\ ~row.sent /\ row.delivered <= row.attempts
      /\ post[w].pc = "send" => row.delivered < row.attempts
      /\ row.delivered = row.mishaps + IF post[w].pc = "mark" THEN 1 ELSE 0
  BY <1>1, MailFields
<1>3. /\ row.delivered \in Nat /\ row.mishaps \in Nat /\ row.attempts \in 0 .. MaxAttempts /\ MaxAttempts \in Nat
  BY <1>2, MailAssumption DEF MailRow
<1>4. \/ /\ post[w].pc = "send"
         /\ \/ Put(w, [row EXCEPT !.delivered = row.delivered + 1], "mark")
            \/ Put(w, row, "delay")
            \/ Put(w, [row EXCEPT !.delivered = row.delivered + 1, !.mishaps = row.mishaps + 1], "delay")
      \/ post[w].pc = "mark" /\ Put(w, [row EXCEPT !.sent = TRUE, !.lease = "none"], "rest")
      \/ post[w].pc = "delay" /\ Put(w, [row EXCEPT !.lease = "none", !.waits = TRUE], "rest")
      \/ post[w].pc = "mark" /\ Put(w, [row EXCEPT !.mishaps = row.mishaps + 1], "rest")
      \/ post[w].pc \in {"send", "delay"} /\ Put(w, [row EXCEPT !.mishaps = row.mishaps], "rest")
  BY DEF Send, Mark, Delay, Drop
<1> HIDE DEF row
<1>5. CASE post[w].pc = "send" /\ Put(w, [row EXCEPT !.delivered = row.delivered + 1], "mark")
  <2> DEFINE r == [row EXCEPT !.delivered = row.delivered + 1]
  <2>1. /\ r \in MailRow /\ r.lease = "held" /\ ~r.sent /\ r.delivered <= r.attempts
        /\ r.delivered = row.delivered + 1 /\ r.mishaps = row.mishaps
    BY <1>2, <1>3, <1>5 DEF MailRow
  <2>2. Put(w, r, "mark")
    BY <1>5
  <2> HIDE DEF r
  <2>3. r.delivered = r.mishaps + IF r.sent \/ "mark" = "mark" THEN 1 ELSE 0
    BY <1>2, <1>3, <1>5, <2>1
  <2>4. QED BY <1>1, <2>1, <2>2, <2>3, PutStep
<1>6. CASE post[w].pc = "send" /\ Put(w, row, "delay")
  BY <1>1, <1>2, <1>6, PutStep
<1>7. CASE post[w].pc = "send" /\ Put(w, [row EXCEPT !.delivered = row.delivered + 1, !.mishaps = row.mishaps + 1], "delay")
  <2> DEFINE r == [row EXCEPT !.delivered = row.delivered + 1, !.mishaps = row.mishaps + 1]
  <2>1. /\ r \in MailRow /\ r.lease = "held" /\ ~r.sent /\ r.delivered <= r.attempts
        /\ r.delivered = row.delivered + 1 /\ r.mishaps = row.mishaps + 1
    <3>1. row.delivered + 1 \in 0 .. MaxAttempts /\ row.mishaps + 1 \in 0 .. MaxAttempts /\ row.delivered + 1 <= row.attempts
      BY <1>2, <1>3, <1>7
    <3>2. QED BY <1>2, <3>1 DEF MailRow
  <2>2. Put(w, r, "delay")
    BY <1>7
  <2> HIDE DEF r
  <2>3. r.delivered = r.mishaps + IF r.sent \/ "delay" = "mark" THEN 1 ELSE 0
    BY <1>2, <1>3, <1>7, <2>1
  <2>4. QED BY <1>1, <2>1, <2>2, <2>3, PutStep
<1>8. CASE post[w].pc = "mark" /\ Put(w, [row EXCEPT !.sent = TRUE, !.lease = "none"], "rest")
  <2> DEFINE r == [row EXCEPT !.sent = TRUE, !.lease = "none"]
  <2>1. r \in MailRow /\ r.sent /\ r.delivered = row.delivered /\ r.mishaps = row.mishaps /\ r.attempts = row.attempts
    BY <1>2 DEF MailRow
  <2>2. Put(w, r, "rest")
    BY <1>8
  <2> HIDE DEF r
  <2>3. QED BY <1>1, <1>2, <1>8, <2>1, <2>2, PutStep
<1>9. CASE post[w].pc = "delay" /\ Put(w, [row EXCEPT !.lease = "none", !.waits = TRUE], "rest")
  <2> DEFINE r == [row EXCEPT !.lease = "none", !.waits = TRUE]
  <2>1. r \in MailRow /\ ~r.sent /\ r.delivered = row.delivered /\ r.mishaps = row.mishaps /\ r.attempts = row.attempts
    BY <1>2 DEF MailRow
  <2>2. Put(w, r, "rest")
    BY <1>9
  <2> HIDE DEF r
  <2>3. QED BY <1>1, <1>2, <1>9, <2>1, <2>2, PutStep
<1>10. CASE post[w].pc = "mark" /\ Put(w, [row EXCEPT !.mishaps = row.mishaps + 1], "rest")
  <2> DEFINE r == [row EXCEPT !.mishaps = row.mishaps + 1]
  <2>1. r \in MailRow /\ ~r.sent /\ r.delivered = row.delivered /\ r.mishaps = row.mishaps + 1 /\ r.attempts = row.attempts
    BY <1>2, <1>3, <1>10 DEF MailRow
  <2>2. Put(w, r, "rest")
    BY <1>10
  <2> HIDE DEF r
  <2>3. r.delivered = r.mishaps + IF r.sent \/ "rest" = "mark" THEN 1 ELSE 0
    BY <1>2, <1>3, <1>10, <2>1
  <2>4. QED BY <1>1, <1>2, <2>1, <2>2, <2>3, PutStep
<1>11. CASE post[w].pc \in {"send", "delay"} /\ Put(w, [row EXCEPT !.mishaps = row.mishaps], "rest")
  <2>1. [row EXCEPT !.mishaps = row.mishaps] = row
    BY <1>2 DEF MailRow
  <2>2. QED BY <1>1, <1>2, <1>11, <2>1, PutStep
<1>12. QED BY <1>4, <1>5, <1>6, <1>7, <1>8, <1>9, <1>10, <1>11

\* A row that nobody works on has changed, in what nobody works by.
LEMMA TimeStep ==
  ASSUME MailInv, NEW m, TimePasses(m)
  PROVE  MailInv'
<1>1. /\ mails \in Seq(MailRow) /\ WorkInv /\ CountInv /\ Len(mails) \in Nat /\ DOMAIN mails = 1 .. Len(mails)
      /\ m \in DOMAIN mails /\ post' = post
  BY LenProperties DEF MailInv, TimePasses
<1>2. PICK row : /\ mails' = [mails EXCEPT ![m] = row]
                 /\ \/ row = [mails[m] EXCEPT !.waits = FALSE]
                    \/ row = [mails[m] EXCEPT !.lease = "over"] /\ \A w \in Posters : post[w].m # m
  <2>1. CASE mails' = [mails EXCEPT ![m].waits = FALSE]
    <3>1. mails' = [mails EXCEPT ![m] = [mails[m] EXCEPT !.waits = FALSE]]
      BY <2>1
    <3>2. QED BY <3>1
  <2>2. CASE mails' = [mails EXCEPT ![m].lease = "over"] /\ \A w \in Posters : post[w].m # m
    <3>1. mails' = [mails EXCEPT ![m] = [mails[m] EXCEPT !.lease = "over"]]
      BY <2>2
    <3>2. QED BY <2>2, <3>1
  <2>3. QED BY <2>1, <2>2 DEF TimePasses
<1>3. /\ row \in MailRow /\ row.sent = mails[m].sent /\ row.delivered = mails[m].delivered
      /\ row.attempts = mails[m].attempts /\ row.mishaps = mails[m].mishaps
      /\ (\E w \in Posters : post[w].m = m) => row.lease = mails[m].lease
  <2>1. mails[m] \in MailRow
    BY <1>1
  <2>2. QED BY <1>2, <2>1 DEF MailRow
<1>4. /\ mails' \in Seq(MailRow) /\ DOMAIN mails' = DOMAIN mails /\ mails'[m] = row
      /\ \A k \in DOMAIN mails \ {m} : mails'[k] = mails[k]
  BY <1>1, <1>2, <1>3
<1>5. WorkInv'
  <2>1. ASSUME NEW w \in Posters
        PROVE  /\ post'[w].pc = "rest" => post'[w].m = 0
               /\ post'[w].pc # "rest" =>
                    /\ post'[w].m \in DOMAIN mails' /\ mails'[post'[w].m].lease = "held" /\ ~mails'[post'[w].m].sent
                    /\ post'[w].pc = "send" => mails'[post'[w].m].delivered < mails'[post'[w].m].attempts
    <3>1. CASE post[w].m = m
      BY <1>1, <1>3, <1>4, <3>1 DEF WorkInv
    <3>2. CASE post[w].m # m
      BY <1>1, <1>4, <3>2 DEF WorkInv
    <3>3. QED BY <3>1, <3>2
  <2>2. QED BY <1>1, <2>1 DEF WorkInv
<1>6. CountInv'
  <2>1. \A k \in DOMAIN mails : Marks(k)' <=> Marks(k)
    BY <1>1 DEF Marks
  <2>2. ASSUME NEW k \in DOMAIN mails
        PROVE  /\ mails'[k].delivered = mails[k].delivered /\ mails'[k].attempts = mails[k].attempts
               /\ mails'[k].mishaps = mails[k].mishaps /\ mails'[k].sent = mails[k].sent
    BY <1>3, <1>4
  <2>3. QED BY <1>1, <1>4, <2>1, <2>2 DEF CountInv
<1>7. QED BY <1>4, <1>5, <1>6 DEF MailInv

LEMMA EnqueueStep ==
  ASSUME MailInv, UNCHANGED post, mails' = Append(mails, Unsent)
  PROVE  MailInv'
<1>1. /\ mails \in Seq(MailRow) /\ WorkInv /\ CountInv /\ Len(mails) \in Nat /\ DOMAIN mails = 1 .. Len(mails)
  BY LenProperties DEF MailInv
<1>2. Unsent \in MailRow /\ Unsent.delivered = 0 /\ Unsent.attempts = 0 /\ Unsent.mishaps = 0 /\ ~Unsent.sent
  BY MailAssumption DEF Unsent, MailRow
<1>3. /\ mails' \in Seq(MailRow) /\ DOMAIN mails' = 1 .. Len(mails) + 1 /\ mails'[Len(mails) + 1] = Unsent
      /\ \A k \in DOMAIN mails : k \in DOMAIN mails' /\ mails'[k] = mails[k]
  <2>1. /\ Append(mails, Unsent) \in Seq(MailRow) /\ Len(Append(mails, Unsent)) = Len(mails) + 1
        /\ \A k \in 1 .. Len(mails) : Append(mails, Unsent)[k] = mails[k]
        /\ Append(mails, Unsent)[Len(mails) + 1] = Unsent
    BY <1>1, <1>2, AppendProperties
  <2>2. DOMAIN Append(mails, Unsent) = 1 .. Len(mails) + 1
    BY <2>1, LenProperties
  <2>3. QED BY <1>1, <2>1, <2>2
<1>4. WorkInv'
  BY <1>1, <1>3 DEF WorkInv
<1>5. ASSUME NEW k \in DOMAIN mails'
      PROVE  /\ mails'[k].delivered <= mails'[k].attempts
             /\ mails'[k].delivered = mails'[k].mishaps + IF mails'[k].sent \/ Marks(k)' THEN 1 ELSE 0
  <2>1. Marks(k)' <=> Marks(k)
    BY DEF Marks
  <2>2. CASE k \in DOMAIN mails
    BY <1>1, <1>3, <2>1, <2>2 DEF CountInv
  <2>3. CASE k = Len(mails) + 1
    <3>1. ~Marks(k)
      BY <1>1, <2>3 DEF Marks, WorkInv
    <3>2. QED BY <1>2, <1>3, <2>1, <2>3, <3>1
  <2>4. QED BY <1>1, <1>3, <2>2, <2>3
<1>6. CountInv'
  BY <1>5 DEF CountInv
<1>7. QED BY <1>3, <1>4, <1>6 DEF MailInv

LEMMA MailSame ==
  ASSUME MailInv, UNCHANGED mailVars
  PROVE  MailInv'
BY DEF mailVars, MailInv, WorkInv, CountInv, Marks

LEMMA MailGives ==
  ASSUME MailInv
  PROVE  MailType /\ MailOnce
<1>1. /\ mails \in Seq(MailRow) /\ WorkInv /\ CountInv /\ Len(mails) \in Nat /\ DOMAIN mails = 1 .. Len(mails)
  BY LenProperties DEF MailInv
<1>2. post \in [Posters -> [pc : {"rest", "send", "mark", "delay"}, m : 0..Len(mails)]]
  <2>1. ASSUME NEW w \in Posters
        PROVE  post[w] \in [pc : {"rest", "send", "mark", "delay"}, m : 0..Len(mails)]
    <3>1. post[w] \in [pc : {"rest", "send", "mark", "delay"}, m : Nat] /\ post[w].m \in 0 .. Len(mails)
      BY <1>1 DEF WorkInv
    <3>2. QED BY <3>1
  <2>2. QED BY <1>1, <2>1 DEF WorkInv
<1>3. \A m \in DOMAIN mails : mails[m] \in MailRow
  BY <1>1
<1>4. MailOnce
  <2>1. SUFFICES ASSUME NEW m \in DOMAIN mails
                 PROVE  mails[m].delivered <= 1 + mails[m].mishaps
    BY DEF MailOnce
  <2>2. mails[m].delivered \in Nat /\ mails[m].mishaps \in Nat
    BY <1>3 DEF MailRow
  <2>3. mails[m].delivered = mails[m].mishaps + IF mails[m].sent \/ Marks(m) THEN 1 ELSE 0
    BY <1>1 DEF CountInv
  <2>4. QED BY <2>2, <2>3
<1>5. MailType
  BY <1>2, <1>3 DEF MailType, MailRow
<1>6. QED BY <1>4, <1>5

-----------------------------------------------------------------------------
(* Rows, places and locks.                                                  *)

LEMMA Constants ==
  /\ MaxGuesses \in Nat /\ MaxGuesses >= 1 /\ MaxSends \in Nat /\ MaxSends >= 1 /\ MaxOps \in Nat
  /\ Ops = {"link", "code", "reset", "consume", "change", "update", "disable", "policy", "grant", "register"}
  /\ None \notin Ops /\ None = "none"
BY UsersAssumption DEF Ops, Program, None

LEMMA NothingYet ==
  /\ NoTx.op = None /\ NoTx.todo = <<>> /\ DOMAIN NoTx.draft = {} /\ ~NoTx.shared /\ NoTx.reply.kind = None
  /\ TxInv(NoTx) /\ New(NoTx)
<1>1. /\ NoTx.op = None /\ NoTx.todo = <<>> /\ NoTx.draft = <<>> /\ NoTx.shared = FALSE /\ NoTx.new = 0
      /\ NoTx.arg = 0 /\ NoTx.old = 0 /\ NoTx.reply = [id |-> 0, kind |-> None]
  BY DEF NoTx, NoReply
<1>2. DOMAIN NoTx.draft = {}
  BY <1>1
<1>3. 0 \in Ids
  BY Constants DEF Ids
<1>4. NoTx.todo \in Places(NoTx.op)
  BY <1>1 DEF Places, None
<1>5. TxTyped(NoTx)
  <2>1. NoTx.reply \in [id : Ids, kind : {None, "wrong", "right"}] /\ NoTx.reply.kind = None
    BY <1>1, <1>3
  <2>2. DOMAIN NoTx.draft \subseteq Rows /\ RowsTyped(NoTx.draft)
    BY <1>2 DEF RowsTyped
  <2>3. NoTx.shared \in BOOLEAN /\ ~NoTx.shared
    BY DEF NoTx
  <2>4. /\ DOMAIN NoTx = DOMAIN NoTx /\ NoTx.op \in Ops \union {None} /\ NoTx.new \in Ids
        /\ NoTx.arg \in Nat /\ NoTx.old \in Nat
    BY <1>1, <1>3
  <2>5. QED BY <1>2, <1>4, <2>1, <2>2, <2>3, <2>4 DEF TxTyped
<1>6. DraftInv(NoTx) /\ ReplyInv(NoTx) /\ PlaceInv(NoTx)
  BY <1>1, <1>2 DEF DraftInv, ReplyInv, PlaceInv, None
<1>7. New(NoTx)
  BY <1>1 DEF New, Issuers, None
<1>8. QED BY <1>1, <1>2, <1>5, <1>6, <1>7 DEF TxInv

LEMMA OpenCodes ==
  ASSUME NEW row \in OpenCode
  PROVE  /\ row \in CodeRow /\ row.id \in Ids /\ row.used \in BOOLEAN /\ row.tries \in 0 .. MaxGuesses
         /\ ~row.used => row.tries < MaxGuesses
         /\ Used(row) \in OpenCode /\ Used(row).id = row.id /\ Used(row).tries = row.tries /\ Used(row).used
         /\ ~row.used => /\ Missed(row) \in OpenCode /\ Missed(row).id = row.id /\ Missed(row).tries = row.tries + 1
<1>1. row \in CodeRow /\ (~row.used => row.tries < MaxGuesses)
  BY DEF OpenCode
<1>2. row.id \in Ids /\ row.used \in BOOLEAN /\ row.tries \in 0 .. MaxGuesses
  BY <1>1 DEF CodeRow
<1>3. Used(row) \in OpenCode /\ Used(row).id = row.id /\ Used(row).tries = row.tries /\ Used(row).used
  BY <1>1, <1>2 DEF Used, OpenCode, CodeRow
<1>4. ASSUME ~row.used
      PROVE  Missed(row) \in OpenCode /\ Missed(row).id = row.id /\ Missed(row).tries = row.tries + 1
  <2>1. row.tries + 1 \in 0 .. MaxGuesses
    BY <1>1, <1>2, <1>4, Constants
  <2> DEFINE over == (row.tries + 1 >= MaxGuesses)
  <2>2. Missed(row) = [row EXCEPT !.tries = row.tries + 1, !.used = over]
    BY DEF Missed
  <2>3. over \in BOOLEAN /\ (~over => row.tries + 1 < MaxGuesses)
    BY <2>1, Constants
  <2> HIDE DEF over
  <2>4. /\ Missed(row) \in CodeRow /\ Missed(row).id = row.id /\ Missed(row).tries = row.tries + 1
        /\ Missed(row).used = over
    <3> DEFINE n == row.tries + 1
    <3>1. n \in 0 .. MaxGuesses /\ Missed(row) = [row EXCEPT !.tries = n, !.used = over]
      BY <2>1, <2>2
    <3> HIDE DEF n
    <3>2. Missed(row) \in CodeRow /\ Missed(row).id = row.id /\ Missed(row).tries = n /\ Missed(row).used = over
      BY <1>1, <2>3, <3>1 DEF CodeRow
    <3>3. QED BY <3>2 DEF n
  <2>5. QED BY <2>3, <2>4 DEF OpenCode
<1>5. QED BY <1>1, <1>2, <1>3, <1>4

LEMMA IssuedCode ==
  ASSUME NEW id \in Ids
  PROVE  /\ Issued(id) \in OpenCode /\ Issued(id).id = id /\ Issued(id).used = FALSE /\ Issued(id).tries = 0
BY Constants DEF Issued, OpenCode, CodeRow

LEMMA WrittenFields ==
  ASSUME NEW f, NEW row, NEW v
  PROVE  /\ DOMAIN Written(f, row, v) = DOMAIN f \union {row} /\ Written(f, row, v)[row] = v
         /\ \A x \in DOMAIN f : x # row => Written(f, row, v)[x] = f[x]
BY DEF Written

LEMMA LatestFits ==
  ASSUME DbInv, NEW f, RowsTyped(f), NEW row \in Rows
  PROVE  Fits(row, Latest(f, row))
BY DEF DbInv, RowsTyped, Latest

\* What t is after statement s, which saw v and resulted in r.
After(t, s, v, r) ==
  [t EXCEPT !.draft = IF Bare(t, s) THEN t.draft ELSE Written(t.draft, RowOf(s), r.value),
            !.shared = t.shared \/ Shares(t, s),
            !.todo = IF r.then = "commit" THEN <<>>
                     ELSE IF t.op = "register" /\ s = "policy" /\ ~v THEN Tail(Tail(t.todo)) ELSE Tail(t.todo),
            !.reply = IF r.kind = None THEN t.reply ELSE [id |-> v.id, kind |-> r.kind]]

LEMMA AfterFields ==
  ASSUME NEW t, DOMAIN t = DOMAIN NoTx, NEW s, NEW v, NEW r
  PROVE  LET u == After(t, s, v, r) IN
         /\ DOMAIN u = DOMAIN NoTx /\ u.op = t.op /\ u.new = t.new /\ u.arg = t.arg /\ u.old = t.old
         /\ u.draft = IF Bare(t, s) THEN t.draft ELSE Written(t.draft, RowOf(s), r.value)
         /\ u.shared = (t.shared \/ Shares(t, s))
         /\ u.todo = IF r.then = "commit" THEN <<>>
                     ELSE IF t.op = "register" /\ s = "policy" /\ ~v THEN Tail(Tail(t.todo)) ELSE Tail(t.todo)
         /\ u.reply = IF r.kind = None THEN t.reply ELSE [id |-> v.id, kind |-> r.kind]
BY DEF After, NoTx

LEMMA ExecuteSplits ==
  ASSUME NEW p \in Requests, Execute(p), NEW s, s = Head(tx[p].todo), NEW v, v = Seen(tx[p], s),
         NEW r, r = Statement(tx[p], s, v)
  PROVE  /\ tx[p].todo # <<>> /\ \A o \in Requests : ~Blocks(o, p)
         /\ UNCHANGED <<mailVars, scene, db, age, begun, issued, expired>>
         /\ \/ r.then = "abort" /\ tx' = [tx EXCEPT ![p] = NoTx] /\ (r.kind # "wrong" => UNCHANGED spent)
            \/ r.then # "abort" /\ tx' = [tx EXCEPT ![p] = After(tx[p], s, v, r)] /\ UNCHANGED spent
BY DEF Execute, After

\* A transaction has moved, and has perhaps written one more row.
LEMMA Moves ==
  ASSUME NEW t, TxInv(t), NEW u, DOMAIN u = DOMAIN NoTx, u.op = t.op, t.op \in Ops, u.new = t.new, u.arg = t.arg,
         u.old = t.old, u.todo \in Places(u.op), u.shared \in BOOLEAN, u.shared => u.op \in {"grant", "register"},
         u.reply \in [id : Ids, kind : {None, "wrong", "right"}],
         NEW row \in Rows, NEW w, Fits(row, w), u.draft = t.draft \/ u.draft = Written(t.draft, row, w),
         row = "policy" /\ u.draft # t.draft => t.op = "policy",
         row = "sends" => t.op = "grant" /\ "grant" \in DOMAIN t.draft,
         row \in Codes /\ u.draft # t.draft => Follows(u, row)
  PROVE  TxTyped(u) /\ DraftInv(u)
<1>1. TxTyped(t) /\ DraftInv(t)
  BY DEF TxInv
<1>2. /\ DOMAIN u.draft \subseteq DOMAIN t.draft \union {row} /\ DOMAIN t.draft \subseteq DOMAIN u.draft
      /\ \A x \in DOMAIN t.draft : x # row => u.draft[x] = t.draft[x]
      /\ u.draft # t.draft => u.draft[row] = w
  <2>1. CASE u.draft = t.draft
    BY <2>1
  <2>2. CASE u.draft = Written(t.draft, row, w)
    <3> DEFINE d == t.draft
               g == u.draft
    <3>1. /\ DOMAIN g = DOMAIN d \union {row} /\ g[row] = w
          /\ \A x \in DOMAIN d : x # row => g[x] = d[x]
      BY <2>2 DEF Written
    <3> HIDE DEF d, g
    <3>2. /\ DOMAIN g \subseteq DOMAIN d \union {row} /\ DOMAIN d \subseteq DOMAIN g
          /\ \A x \in DOMAIN d : x # row => g[x] = d[x]
          /\ g # d => g[row] = w
      BY <3>1
    <3>3. QED BY <3>2 DEF d, g
  <2>3. QED BY <2>1, <2>2
<1>3. RowsTyped(u.draft)
  BY <1>1, <1>2 DEF TxTyped, RowsTyped
<1>4. TxTyped(u)
  BY <1>1, <1>3, Constants DEF TxTyped
<1>5. \A x \in Codes : x \in DOMAIN u.draft => Follows(u, x)
  <2>1. SUFFICES ASSUME NEW x \in Codes, x \in DOMAIN u.draft
                 PROVE  Follows(u, x)
    OBVIOUS
  <2>2. CASE x \in DOMAIN t.draft /\ u.draft[x] = t.draft[x]
    BY <1>1, <2>2 DEF DraftInv, Follows
  <2>3. CASE x = row /\ u.draft # t.draft
    BY <2>3
  <2>4. CASE u.draft = t.draft
    BY <1>1, <2>4, <2>1 DEF DraftInv, Follows
  <2>5. QED BY <1>2, <2>1, <2>2, <2>3, <2>4
<1>6. DraftInv(u)
  <2>1. "policy" \in DOMAIN u.draft => u.op = "policy"
    BY <1>1, <1>2 DEF DraftInv
  <2>2. "sends" \in DOMAIN u.draft => u.op = "grant" /\ "grant" \in DOMAIN u.draft
    BY <1>1, <1>2 DEF DraftInv
  <2>3. QED BY <1>5, <2>1, <2>2 DEF DraftInv
<1>7. QED BY <1>4, <1>6

LEMMA RowNames ==
  /\ \A s \in {"policy", "user", "token", "code", "grant", "sends"} : RowOf(s) = s
  /\ RowOf("prove") = "grant" /\ RowOf("void") = "grant" /\ RowOf("judge") = "code"
  /\ RowOf("exists") = "user" /\ RowOf("password") = "user"
BY DEF RowOf

\* The user's row, after the statements that change it.
LEMMA UserRows ==
  ASSUME NEW v \in UserRow
  PROVE  /\ v.exists \in BOOLEAN /\ v.disabled \in BOOLEAN
         /\ [v EXCEPT !.hash = @ + 1] \in UserRow /\ [v EXCEPT !.hash = @ + 1].exists = v.exists
         /\ \A b \in BOOLEAN : [v EXCEPT !.disabled = b] \in UserRow /\ [v EXCEPT !.disabled = b].exists = v.exists
         /\ [v EXCEPT !.exists = TRUE] \in UserRow
<1>1. v.exists \in BOOLEAN /\ v.disabled \in BOOLEAN /\ v.hash + 1 \in Nat
  BY DEF UserRow
<1>2. ASSUME NEW n \in Nat
      PROVE  [v EXCEPT !.hash = n] \in UserRow /\ [v EXCEPT !.hash = n].exists = v.exists
  BY DEF UserRow
<1>3. /\ \A b \in BOOLEAN : [v EXCEPT !.disabled = b] \in UserRow /\ [v EXCEPT !.disabled = b].exists = v.exists
      /\ [v EXCEPT !.exists = TRUE] \in UserRow
  BY DEF UserRow
<1>4. QED BY <1>1, <1>2, <1>3

LEMMA PairTails ==
  \A a, b : Head(<<a, b>>) = a /\ Tail(<<a, b>>) = <<b>> /\ Head(<<a>>) = a /\ Tail(<<a>>) = <<>>
OBVIOUS

\* The places of the longer transactions.
LEMMA LongTails ==
  /\ \A a, b, c : Head(<<a, b, c>>) = a /\ Tail(<<a, b, c>>) = <<b, c>>
  /\ \A a, b, c, d : Head(<<a, b, c, d>>) = a /\ Tail(<<a, b, c, d>>) = <<b, c, d>>
  /\ \A a, b, c, d, e : Head(<<a, b, c, d, e>>) = a /\ Tail(<<a, b, c, d, e>>) = <<b, c, d, e>>
OBVIOUS

\* Places that differ in length.
LEMMA Lengths ==
  ASSUME NEW a, NEW b, NEW c, NEW d, NEW e
  PROVE  /\ <<a>> # <<>> /\ <<a, b>> # <<>> /\ <<a, b, c>> # <<>>
         /\ <<a, b>> # <<e>> /\ <<a, b, c>> # <<e>> /\ <<a, b, c>> # <<d, e>>
<1>1. Len(<<a>>) = 1 /\ Len(<<a, b>>) = 2 /\ Len(<<a, b, c>>) = 3 /\ Len(<<e>>) = 1 /\ Len(<<d, e>>) = 2 /\ Len(<<>>) = 0
  OBVIOUS
<1>2. <<a>> # <<>>
  BY <1>1
<1>3. <<a, b>> # <<>>
  BY <1>1
<1>4. <<a, b, c>> # <<>>
  BY <1>1
<1>5. <<a, b>> # <<e>> 
  BY <1>1
<1>6. <<a, b, c>> # <<e>> 
  BY <1>1
<1>7. <<a, b, c>> # <<d, e>> 
  BY <1>1
<1>8. QED BY <1>2, <1>3, <1>4, <1>5, <1>6, <1>7

LEMMA LongLengths ==
  ASSUME NEW a, NEW b, NEW c, NEW d, NEW e
  PROVE  /\ <<b, c, d, e>> # <<a, b, c, d, e>> /\ <<c, d, e>> # <<a, b, c, d, e>> /\ <<d, e>> # <<a, b, c, d, e>>
         /\ <<e>> # <<a, b, c, d, e>> /\ <<>> # <<a, b, c, d, e>>
         /\ <<d, e>> # <<b, c, d, e>> /\ <<e>> # <<b, c, d, e>> /\ <<>> # <<b, c, d, e>>
         /\ <<d, e>> # <<c, d, e>> /\ <<e>> # <<c, d, e>> /\ <<>> # <<c, d, e>>
<1>1. <<b, c, d, e>> # <<a, b, c, d, e>>
  OBVIOUS
<1>2. <<c, d, e>> # <<a, b, c, d, e>>
  OBVIOUS
<1>3. <<d, e>> # <<a, b, c, d, e>>
  OBVIOUS
<1>4. <<e>> # <<a, b, c, d, e>> /\ <<>> # <<a, b, c, d, e>>
  OBVIOUS
<1>5. <<d, e>> # <<b, c, d, e>> /\ <<e>> # <<b, c, d, e>> /\ <<>> # <<b, c, d, e>>
  OBVIOUS
<1>6. <<d, e>> # <<c, d, e>> /\ <<e>> # <<c, d, e>> /\ <<>> # <<c, d, e>>
  OBVIOUS
<1>7. QED BY <1>1, <1>2, <1>3, <1>4, <1>5, <1>6

\* A statement that may only end the transaction.
LEMMA Requires ==
  ASSUME NEW ok \in BOOLEAN, NEW v
  PROVE  /\ Require(ok, v).kind = None /\ Require(ok, v).value = v /\ Require(ok, v).then \in {"go", "abort"}
         /\ Require(ok, v).then = "go" <=> ok
BY DEF Require, Go, Abort

LEMMA Goes ==
  ASSUME NEW v
  PROVE  Go(v).kind = None /\ Go(v).value = v /\ Go(v).then = "go"
BY DEF Go

PlainOps == {"link", "consume", "change", "update", "disable"}

\* Links, passwords and the administrator: the user's row and the link's.
LEMMA PlainResult ==
  ASSUME NEW t, t.op \in PlainOps, NEW s \in {"user", "token"}, NEW v, Fits(s, v), t.new \in Ids,
         NEW r, r = Statement(t, s, v)
  PROVE  /\ r.kind = None /\ r.then \in {"go", "abort"} /\ Fits(s, r.value)
         /\ s = "user" => r.value.exists = v.exists
<1>1. CASE s = "user"
  <2>1. v \in UserRow
    BY <1>1 DEF Fits
  <2> DEFINE more == [v EXCEPT !.hash = @ + 1]
             off == [v EXCEPT !.disabled = (t.arg = 1)]
  <2>2. /\ more \in UserRow /\ more.exists = v.exists /\ off \in UserRow /\ off.exists = v.exists
        /\ v.exists \in BOOLEAN /\ v.disabled \in BOOLEAN
    <3>1. (t.arg = 1) \in BOOLEAN
      OBVIOUS
    <3>2. QED BY <2>1, <3>1, UserRows
  <2>3. PICK w \in {v, more, off}, ok \in BOOLEAN : r = Require(ok, w) \/ r = Go(w)
    <3>1. CASE t.op = "link"
      <4>1. r = Require(v.exists /\ ~v.disabled, v)
        BY <1>1, <3>1 DEF Statement, RequestEmail
      <4>2. QED BY <4>1
    <3>2. CASE t.op = "consume"
      <4>1. r = Go(IF v.disabled THEN v ELSE more)
        BY <1>1, <3>2 DEF Statement, Consume
      <4>2. QED BY <4>1
    <3>3. CASE t.op = "change"
      <4>1. r = Require(v.hash = t.old /\ ~v.disabled, more)
        BY <1>1, <3>3 DEF Statement, ChangePassword
      <4>2. QED BY <4>1
    <3>4. CASE t.op = "update"
      <4>1. r = Require(v.exists, IF t.arg = 1 THEN more ELSE v)
        BY <1>1, <3>4 DEF Statement, UpdateUser
      <4>2. QED BY <4>1, <2>2
    <3>5. CASE t.op = "disable"
      <4>1. r = Require(v.exists, off)
        BY <1>1, <3>5 DEF Statement, Disable
      <4>2. QED BY <4>1, <2>2
    <3>6. QED BY <3>1, <3>2, <3>3, <3>4, <3>5 DEF PlainOps
  <2>4. w \in UserRow /\ w.exists = v.exists
    BY <2>1, <2>2
  <2>5. r.kind = None /\ r.then \in {"go", "abort"} /\ r.value = w
    BY <2>3, Requires, Goes
  <2>6. QED BY <1>1, <2>4, <2>5 DEF Fits
<1>2. CASE s = "token"
  <2>1. v \in OpenCode
    BY <1>2 DEF Fits
  <2>2. Used(v) \in OpenCode /\ Issued(t.new) \in OpenCode
    BY <2>1, OpenCodes, IssuedCode
  <2>3. PICK w \in {Used(v), Issued(t.new)}, ok \in BOOLEAN : r = Require(ok, w) \/ r = Go(w)
    <3>1. CASE t.op = "link"
      <4>1. r = Go(Issued(t.new))
        BY <1>2, <3>1 DEF Statement, RequestEmail
      <4>2. QED BY <4>1
    <3>2. CASE t.op = "consume"
      <4>1. r = Require(Live(v) /\ v.id = t.arg, Used(v))
        BY <1>2, <3>2 DEF Statement, Consume
      <4>2. QED BY <4>1
    <3>3. CASE t.op \in {"change", "update", "disable"}
      <4>1. r = Go(Used(v))
        BY <1>2, <3>3 DEF Statement, ChangePassword, UpdateUser, Disable
      <4>2. QED BY <4>1
    <3>4. QED BY <3>1, <3>2, <3>3 DEF PlainOps
  <2>4. r.kind = None /\ r.then \in {"go", "abort"} /\ r.value = w
    BY <2>3, Requires, Goes
  <2>5. QED BY <1>2, <2>2, <2>4 DEF Fits
<1>3. QED BY <1>1, <1>2

LEMMA TypedTx ==
  ASSUME NEW t, TxInv(t)
  PROVE  /\ DOMAIN t = DOMAIN NoTx /\ t.op \in Ops \union {None} /\ t.todo \in Places(t.op) /\ t.shared \in BOOLEAN
         /\ t.new \in Ids /\ t.reply \in [id : Ids, kind : {None, "wrong", "right"}] /\ RowsTyped(t.draft)
         /\ t.reply.kind # None => t.op \in {"reset", "register"}
BY DEF TxInv, TxTyped, ReplyInv, Guesses

\* Nobody but a registration makes the user appear.
LEMMA UserSeen ==
  ASSUME DbInv, NEW t, TxInv(t), t.op # "register", Latest(t.draft, "user").exists
  PROVE  db["user"].exists
BY DEF Latest, TxInv, PlaceInv

LEMMA PlainStep ==
  ASSUME DbInv, NEW t, TxInv(t), t.op \in PlainOps, t.todo # <<>>, NEW s, s = Head(t.todo), NEW v, v = Seen(t, s),
         NEW r, r = Statement(t, s, v)
  PROVE  r.kind = None /\ (r.then # "abort" => TxInv(After(t, s, v, r)))
<1>1. /\ DOMAIN t = DOMAIN NoTx /\ t.op \in Ops /\ t.todo \in Places(t.op) /\ t.shared \in BOOLEAN /\ t.new \in Ids
      /\ t.reply \in [id : Ids, kind : {None, "wrong", "right"}] /\ RowsTyped(t.draft) /\ t.reply.kind = None
  BY TypedTx, Constants DEF PlainOps
<1>2. s \in {"user", "token"} /\ Tail(t.todo) \in Places(t.op)
  <2>1. t.todo \in {<<"user", "token">>, <<"token">>, <<"token", "user">>, <<"user">>}
    BY <1>1 DEF PlainOps, Places
  <2>2. Places(t.op) = IF t.op = "consume" THEN {<<"token", "user">>, <<"user">>, <<>>}
                       ELSE {<<"user", "token">>, <<"token">>, <<>>}
    BY DEF PlainOps, Places
  <2>3. s \in {"user", "token"}
    BY <2>1, PairTails
  <2>4. CASE t.op = "consume"
    <3>1. t.todo = <<"token", "user">> \/ t.todo = <<"user">>
      BY <1>1, <2>2, <2>4
    <3>2. Tail(t.todo) = <<"user">> \/ Tail(t.todo) = <<>>
      BY <3>1, PairTails
    <3>3. QED BY <2>2, <2>3, <2>4, <3>2
  <2>5. CASE t.op # "consume"
    <3>1. t.todo = <<"user", "token">> \/ t.todo = <<"token">>
      BY <1>1, <2>2, <2>5
    <3>2. Tail(t.todo) = <<"token">> \/ Tail(t.todo) = <<>>
      BY <3>1, PairTails
    <3>3. QED BY <2>2, <2>3, <2>5, <3>2
  <2>6. QED BY <2>4, <2>5
<1>3. RowOf(s) = s /\ s \in Rows /\ v = Latest(t.draft, s)
  BY <1>2, RowNames DEF Seen, Rows
<1>4. Fits(s, v)
  BY <1>1, <1>3, LatestFits
<1>5. /\ r.kind = None /\ r.then \in {"go", "abort"} /\ Fits(s, r.value)
      /\ s = "user" => r.value.exists = v.exists
  BY <1>1, <1>2, <1>4, PlainResult
<1> DEFINE u == After(t, s, v, r)
<1>6. ASSUME r.then # "abort"
      PROVE  TxInv(u)
  <2>1. ~Shares(t, s) /\ t.op # "register"
    BY <1>2 DEF Shares, PlainOps
  <2>2. /\ DOMAIN u = DOMAIN NoTx /\ u.op = t.op /\ u.new = t.new /\ u.arg = t.arg /\ u.old = t.old
        /\ u.draft = t.draft \/ (u.draft = Written(t.draft, s, r.value))
        /\ u.shared = (t.shared \/ Shares(t, s)) /\ u.todo = Tail(t.todo) /\ u.reply = t.reply
    <3>1. /\ DOMAIN u = DOMAIN NoTx /\ u.op = t.op /\ u.new = t.new /\ u.arg = t.arg /\ u.old = t.old
          /\ u.draft = IF Bare(t, s) THEN t.draft ELSE Written(t.draft, RowOf(s), r.value)
          /\ u.shared = (t.shared \/ Shares(t, s))
          /\ u.todo = IF r.then = "commit" THEN <<>>
                      ELSE IF t.op = "register" /\ s = "policy" /\ ~v THEN Tail(Tail(t.todo)) ELSE Tail(t.todo)
          /\ u.reply = IF r.kind = None THEN t.reply ELSE [id |-> v.id, kind |-> r.kind]
      BY <1>1, AfterFields
    <3> HIDE DEF u
    <3>2. QED BY <1>3, <1>5, <1>6, <2>1, <3>1
  <2> HIDE DEF u
  <2>3. u.shared = t.shared
    BY <1>1, <2>1, <2>2
  <2>4. ~t.shared
    BY <1>1 DEF TxInv, DraftInv, PlainOps
  <2>5. u.shared \in BOOLEAN /\ ~u.shared
    BY <1>1, <2>3, <2>4
  <2>6. s # "policy" /\ s # "sends" /\ s \notin Codes
    BY <1>2 DEF Codes
  <2>7. TxTyped(u) /\ DraftInv(u)
    BY <1>1, <1>2, <1>3, <1>5, <2>2, <2>5, <2>6, Moves
  <2>8. ReplyInv(u)
    BY <1>1, <2>2 DEF ReplyInv
  <2>9. "user" \in DOMAIN u.draft /\ u.draft["user"].exists => db["user"].exists
    <3>1. CASE u.draft = Written(t.draft, s, r.value)
      BY <1>2, <1>3, <1>5, <2>1, <3>1, UserSeen DEF Written, Latest
    <3>2. CASE u.draft = t.draft
      BY <2>1, <3>2, UserSeen DEF Latest
    <3>3. QED BY <2>2, <3>1, <3>2
  <2>10. PlaceInv(u)
    BY <2>2, <2>9 DEF PlaceInv, PlainOps
  <2>11. QED BY <2>7, <2>8, <2>10 DEF TxInv
<1>7. QED BY <1>5, <1>6

\* A guess that was told goes on to be, while the code's row is kept.
LEMMA ReplyGoesOn ==
  ASSUME NEW t, TxInv(t), t.todo # <<>>, NEW u, u.op = t.op, u.reply = t.reply,
         \A row \in Codes : row \in DOMAIN t.draft =>
           row \in DOMAIN u.draft /\ (t.draft[row].used => u.draft[row].used)
  PROVE  ReplyInv(u)
BY DEF TxInv, ReplyInv

\* Asking for a reset code.
LEMMA CodeStep ==
  ASSUME DbInv, NEW t, TxInv(t), t.op = "code", t.todo # <<>>, NEW s, s = Head(t.todo), NEW v, v = Seen(t, s),
         NEW r, r = Statement(t, s, v)
  PROVE  r.kind = None /\ (r.then # "abort" => TxInv(After(t, s, v, r)))
<1>1. /\ DOMAIN t = DOMAIN NoTx /\ t.op \in Ops /\ t.todo \in Places(t.op) /\ t.shared \in BOOLEAN /\ t.new \in Ids
      /\ t.reply \in [id : Ids, kind : {None, "wrong", "right"}] /\ RowsTyped(t.draft) /\ t.reply.kind = None
  BY TypedTx, Constants
<1>2. s \in {"user", "code"} /\ Tail(t.todo) \in Places(t.op)
  <2>1. Places(t.op) = {<<"user", "code">>, <<"code">>, <<>>}
    BY DEF Places
  <2>2. t.todo = <<"user", "code">> \/ t.todo = <<"code">>
    BY <1>1, <2>1
  <2>3. Tail(t.todo) = <<"code">> \/ Tail(t.todo) = <<>>
    BY <2>2, PairTails
  <2>4. QED BY <2>1, <2>2, <2>3, PairTails
<1>3. RowOf(s) = s /\ s \in Rows /\ v = Latest(t.draft, s)
  BY <1>2, RowNames DEF Seen, Rows
<1>4. Fits(s, v)
  BY <1>1, <1>3, LatestFits
<1>5. /\ r.kind = None /\ r.then \in {"go", "abort"} /\ Fits(s, r.value)
      /\ s = "user" => r.value.exists = v.exists
      /\ s = "code" => r.value = Issued(t.new)
  <2>1. CASE s = "user"
    <3>1. v \in UserRow
      BY <1>4, <2>1 DEF Fits
    <3> DEFINE ok == v.exists /\ ~v.disabled
    <3>2. ok \in BOOLEAN
      OBVIOUS
    <3>3. r = Require(ok, v)
      BY <2>1 DEF Statement, RequestResetCode
    <3> HIDE DEF ok
    <3>4. QED BY <1>4, <2>1, <3>2, <3>3, Requires
  <2>2. CASE s = "code"
    <3>1. r = Go(Issued(t.new))
      BY <2>2 DEF Statement, RequestResetCode
    <3>2. r.kind = None /\ r.then = "go" /\ r.value = Issued(t.new)
      BY <3>1, Goes
    <3>3. Issued(t.new) \in OpenCode
      BY <1>1, IssuedCode
    <3>4. QED BY <2>2, <3>2, <3>3 DEF Fits
  <2>3. QED BY <1>2, <2>1, <2>2
<1> DEFINE u == After(t, s, v, r)
<1>6. ASSUME r.then # "abort"
      PROVE  TxInv(u)
  <2>1. ~Shares(t, s) /\ ~Bare(t, s)
    BY <1>2 DEF Shares, Bare
  <2>2. /\ DOMAIN u = DOMAIN NoTx /\ u.op = t.op /\ u.new = t.new /\ u.arg = t.arg /\ u.old = t.old
        /\ u.draft = Written(t.draft, s, r.value)
        /\ u.shared = (t.shared \/ Shares(t, s)) /\ u.todo = Tail(t.todo) /\ u.reply = t.reply
    <3>1. /\ DOMAIN u = DOMAIN NoTx /\ u.op = t.op /\ u.new = t.new /\ u.arg = t.arg /\ u.old = t.old
          /\ u.draft = IF Bare(t, s) THEN t.draft ELSE Written(t.draft, RowOf(s), r.value)
          /\ u.shared = (t.shared \/ Shares(t, s))
          /\ u.todo = IF r.then = "commit" THEN <<>>
                      ELSE IF t.op = "register" /\ s = "policy" /\ ~v THEN Tail(Tail(t.todo)) ELSE Tail(t.todo)
          /\ u.reply = IF r.kind = None THEN t.reply ELSE [id |-> v.id, kind |-> r.kind]
      BY <1>1, AfterFields
    <3> HIDE DEF u
    <3>2. QED BY <1>3, <1>5, <1>6, <2>1, <3>1
  <2> HIDE DEF u
  <2>3. u.shared = t.shared /\ ~t.shared
    BY <1>1, <2>1, <2>2 DEF TxInv, DraftInv
  <2>4. u.shared \in BOOLEAN /\ ~u.shared
    BY <1>1, <2>3
  <2>5. s \in Codes => Follows(u, s)
    BY <1>2, <1>5, <2>2 DEF Codes, Follows, Written
  <2>6. TxTyped(u) /\ DraftInv(u)
    BY <1>1, <1>2, <1>3, <1>5, <2>2, <2>4, <2>5, Moves
  <2>7. ReplyInv(u)
    BY <1>1, <2>2 DEF ReplyInv
  <2>8. "user" \in DOMAIN u.draft /\ u.draft["user"].exists => db["user"].exists
    BY <1>2, <1>3, <1>5, <2>2, UserSeen DEF Written, Latest
  <2>9. PlaceInv(u)
    BY <2>2, <2>8 DEF PlaceInv
  <2>10. QED BY <2>6, <2>7, <2>9 DEF TxInv
<1>7. QED BY <1>5, <1>6

LEMMA PolicyStep ==
  ASSUME DbInv, NEW t, TxInv(t), t.op = "policy", t.todo # <<>>, NEW s, s = Head(t.todo), NEW v, v = Seen(t, s),
         NEW r, r = Statement(t, s, v)
  PROVE  r.kind = None /\ (r.then # "abort" => TxInv(After(t, s, v, r)))
<1>1. /\ DOMAIN t = DOMAIN NoTx /\ t.op \in Ops /\ t.todo \in Places(t.op) /\ t.shared \in BOOLEAN /\ t.new \in Ids
      /\ t.reply \in [id : Ids, kind : {None, "wrong", "right"}] /\ RowsTyped(t.draft) /\ t.reply.kind = None
  BY TypedTx, Constants
<1>2. s = "policy" /\ Tail(t.todo) = <<>> /\ <<>> \in Places(t.op)
  <2>1. Places(t.op) = {<<"policy">>, <<>>}
    BY DEF Places
  <2>2. QED BY <1>1, <2>1, PairTails
<1>3. RowOf(s) = s /\ s \in Rows /\ v = Latest(t.draft, s)
  BY <1>2, RowNames DEF Seen, Rows
<1>4. r = Go(t.arg = 1)
  BY <1>2 DEF Statement, SetRegistrationVerification
<1>5. r.kind = None /\ r.then = "go" /\ r.value \in BOOLEAN
  <2>1. (t.arg = 1) \in BOOLEAN
    OBVIOUS
  <2>2. r.kind = None /\ r.then = "go" /\ r.value = (t.arg = 1)
    BY <1>4, Goes
  <2>3. QED BY <2>1, <2>2
<1>6. Fits(s, r.value)
  BY <1>2, <1>5 DEF Fits
<1> DEFINE u == After(t, s, v, r)
<1>7. TxInv(u)
  <2>1. ~Shares(t, s) /\ ~Bare(t, s)
    BY <1>2 DEF Shares, Bare
  <2>2. /\ DOMAIN u = DOMAIN NoTx /\ u.op = t.op /\ u.new = t.new /\ u.arg = t.arg /\ u.old = t.old
        /\ u.draft = Written(t.draft, s, r.value)
        /\ u.shared = (t.shared \/ Shares(t, s)) /\ u.todo = <<>> /\ u.reply = t.reply
    <3>1. /\ DOMAIN u = DOMAIN NoTx /\ u.op = t.op /\ u.new = t.new /\ u.arg = t.arg /\ u.old = t.old
          /\ u.draft = IF Bare(t, s) THEN t.draft ELSE Written(t.draft, RowOf(s), r.value)
          /\ u.shared = (t.shared \/ Shares(t, s))
          /\ u.todo = IF r.then = "commit" THEN <<>>
                      ELSE IF t.op = "register" /\ s = "policy" /\ ~v THEN Tail(Tail(t.todo)) ELSE Tail(t.todo)
          /\ u.reply = IF r.kind = None THEN t.reply ELSE [id |-> v.id, kind |-> r.kind]
      BY <1>1, AfterFields
    <3> HIDE DEF u
    <3>2. QED BY <1>2, <1>3, <1>5, <2>1, <3>1
  <2> HIDE DEF u
  <2>3. u.shared = t.shared /\ ~t.shared
    BY <1>1, <2>1, <2>2 DEF TxInv, DraftInv
  <2>4. u.shared \in BOOLEAN /\ ~u.shared
    BY <1>1, <2>3
  <2>5. s \notin Codes /\ s # "sends"
    BY <1>2 DEF Codes
  <2>6. TxTyped(u) /\ DraftInv(u)
    BY <1>1, <1>2, <1>3, <1>6, <2>2, <2>4, <2>5, Moves
  <2>7. ReplyInv(u)
    BY <1>1, <2>2 DEF ReplyInv
  <2>8. "user" \in DOMAIN u.draft /\ u.draft["user"].exists => db["user"].exists
    BY <1>2, <2>2, UserSeen DEF Written, Latest
  <2>9. PlaceInv(u)
    BY <2>2, <2>8 DEF PlaceInv
  <2>10. QED BY <2>6, <2>7, <2>9 DEF TxInv
<1>8. QED BY <1>5, <1>7

\* Asking for a registration code: the limits are those of the locked row.
LEMMA GrantStep ==
  ASSUME DbInv, NEW t, TxInv(t), t.op = "grant", t.todo # <<>>, NEW s, s = Head(t.todo), NEW v, v = Seen(t, s),
         NEW r, r = Statement(t, s, v)
  PROVE  r.kind = None /\ (r.then # "abort" => TxInv(After(t, s, v, r)))
<1>1. /\ DOMAIN t = DOMAIN NoTx /\ t.op \in Ops /\ t.todo \in Places(t.op) /\ t.shared \in BOOLEAN /\ t.new \in Ids
      /\ t.reply \in [id : Ids, kind : {None, "wrong", "right"}] /\ RowsTyped(t.draft) /\ t.reply.kind = None
  BY TypedTx, Constants
<1>2. Places(t.op) = {<<"policy", "exists", "grant", "sends">>, <<"exists", "grant", "sends">>, <<"grant", "sends">>,
                      <<"sends">>, <<>>}
  BY DEF Places
<1>3. \/ t.todo = <<"policy", "exists", "grant", "sends">> /\ s = "policy" /\ Tail(t.todo) = <<"exists", "grant", "sends">>
      \/ t.todo = <<"exists", "grant", "sends">> /\ s = "exists" /\ Tail(t.todo) = <<"grant", "sends">>
      \/ t.todo = <<"grant", "sends">> /\ s = "grant" /\ Tail(t.todo) = <<"sends">>
      \/ t.todo = <<"sends">> /\ s = "sends" /\ Tail(t.todo) = <<>>
  <2>1. CASE t.todo = <<"policy", "exists", "grant", "sends">>
    BY <2>1, LongTails
  <2>2. CASE t.todo = <<"exists", "grant", "sends">>
    BY <2>2, LongTails
  <2>3. CASE t.todo = <<"grant", "sends">>
    BY <2>3, PairTails
  <2>4. CASE t.todo = <<"sends">>
    BY <2>4, PairTails
  <2>5. QED BY <1>1, <1>2, <2>1, <2>2, <2>3, <2>4
<1>4. /\ s \in {"policy", "exists", "grant", "sends"} /\ Tail(t.todo) \in Places(t.op)
      /\ RowOf(s) = (IF s = "exists" THEN "user" ELSE s) /\ RowOf(s) \in Rows
  BY <1>2, <1>3, RowNames DEF Rows
<1>5. v = Latest(t.draft, RowOf(s)) /\ Fits(RowOf(s), v)
  BY <1>1, <1>4, LatestFits DEF Seen
<1>6. /\ s # "sends" => DOMAIN t.draft = {}
      /\ s = "sends" => /\ "grant" \in DOMAIN t.draft /\ "sends" \notin DOMAIN t.draft
                        /\ db["grant"].id = 0 \/ age.late \/ db["sends"] < MaxSends
  <2>1. s # "sends" => t.todo \notin {<<"sends">>, <<>>}
    BY <1>3
  <2>2. s = "sends" => t.todo = <<"sends">>
    BY <1>3
  <2>3. QED BY <2>1, <2>2 DEF TxInv, PlaceInv
<1>7. /\ r.kind = None /\ r.then \in {"go", "abort"}
      /\ s \in {"grant", "sends"} => Fits(s, r.value)
      /\ s = "grant" => r.value = Issued(t.new)
      /\ s = "grant" /\ r.then = "go" => db["grant"].id = 0 \/ age.late \/ db["sends"] < MaxSends
  <2>1. CASE s = "policy"
    <3>1. v \in BOOLEAN /\ r = Require(v, v)
      BY <1>4, <1>5, <2>1 DEF Fits, Statement, RequestRegistrationCode
    <3>2. QED BY <2>1, <3>1, Requires
  <2>2. CASE s = "exists"
    <3> DEFINE ok == ~v.exists
    <3>1. ok \in BOOLEAN
      OBVIOUS
    <3>2. r = Require(ok, v)
      BY <2>2 DEF Statement, RequestRegistrationCode
    <3> HIDE DEF ok
    <3>3. QED BY <2>2, <3>1, <3>2, Requires
  <2>3. CASE s = "grant"
    <3> DEFINE ok == v.id = 0 \/ (~age.recent /\ (age.late \/ db.sends < MaxSends))
    <3>1. ok \in BOOLEAN /\ (ok => v.id = 0 \/ age.late \/ db["sends"] < MaxSends)
      OBVIOUS
    <3>2. r = Require(ok, Issued(t.new))
      BY <2>3 DEF Statement, RequestRegistrationCode
    <3>3. v = db["grant"]
      BY <1>4, <1>5, <1>6, <2>3 DEF Latest
    <3> HIDE DEF ok
    <3>4. r.kind = None /\ r.then \in {"go", "abort"} /\ r.value = Issued(t.new) /\ (r.then = "go" => ok)
      BY <3>1, <3>2, Requires
    <3>5. Fits("grant", Issued(t.new))
      BY <1>1, IssuedCode DEF Fits
    <3>6. QED BY <2>3, <3>1, <3>3, <3>4, <3>5
  <2>4. CASE s = "sends"
    <3> DEFINE n == IF age.late THEN 1 ELSE v + 1
    <3>1. r = Go(n)
      BY <2>4 DEF Statement, RequestRegistrationCode
    <3>2. v = db["sends"] /\ v \in 0 .. MaxSends
      BY <1>4, <1>5, <1>6, <2>4 DEF Latest, Fits
    <3>3. n \in 0 .. MaxSends
      <4>1. db["grant"].id = 0 => v = 0
        BY <3>2 DEF DbInv
      <4>2. CASE age.late
        BY <4>2, Constants
      <4>3. CASE ~age.late
        <5>1. n = v + 1 /\ v < MaxSends
          BY <1>6, <2>4, <3>2, <4>1, <4>3, Constants
        <5>2. QED BY <3>2, <5>1, Constants
      <4>4. QED BY <4>2, <4>3
    <3> HIDE DEF n
    <3>4. r.kind = None /\ r.then = "go" /\ r.value = n
      BY <3>1, Goes
    <3>5. QED BY <2>4, <3>3, <3>4 DEF Fits
  <2>5. QED BY <1>4, <2>1, <2>2, <2>3, <2>4
<1> DEFINE u == After(t, s, v, r)
<1>8. ASSUME r.then # "abort"
      PROVE  TxInv(u)
  <2>1. Bare(t, s) <=> s \in {"policy", "exists"}
    BY <1>4 DEF Bare
  <2>2. /\ DOMAIN u = DOMAIN NoTx /\ u.op = t.op /\ u.new = t.new /\ u.arg = t.arg /\ u.old = t.old
        /\ u.draft = IF s \in {"policy", "exists"} THEN t.draft ELSE Written(t.draft, s, r.value)
        /\ u.shared = (t.shared \/ Shares(t, s)) /\ u.todo = Tail(t.todo) /\ u.reply = t.reply
    <3>1. /\ DOMAIN u = DOMAIN NoTx /\ u.op = t.op /\ u.new = t.new /\ u.arg = t.arg /\ u.old = t.old
          /\ u.draft = IF Bare(t, s) THEN t.draft ELSE Written(t.draft, RowOf(s), r.value)
          /\ u.shared = (t.shared \/ Shares(t, s))
          /\ u.todo = IF r.then = "commit" THEN <<>>
                      ELSE IF t.op = "register" /\ s = "policy" /\ ~v THEN Tail(Tail(t.todo)) ELSE Tail(t.todo)
          /\ u.reply = IF r.kind = None THEN t.reply ELSE [id |-> v.id, kind |-> r.kind]
      BY <1>1, AfterFields
    <3> HIDE DEF u
    <3>2. QED BY <1>4, <1>7, <1>8, <2>1, <3>1
  <2> HIDE DEF u
  <2>3. u.shared \in BOOLEAN
    BY <2>2
  <2>4. /\ s \in {"policy", "exists"} => u.draft = t.draft
        /\ s \in {"grant", "sends"} => u.draft = Written(t.draft, s, r.value)
    BY <2>2
  <2>5. s = "grant" => Follows(u, s)
    BY <1>7, <2>2 DEF Follows, Written
  <2>6. TxTyped(u) /\ DraftInv(u)
    <3>1. CASE s \in {"grant", "sends"}
      <4>1. s = "sends" => t.op = "grant" /\ "grant" \in DOMAIN t.draft
        BY <1>6
      <4>2. s \in Rows /\ s # "policy" /\ Fits(s, r.value) /\ u.draft = Written(t.draft, s, r.value)
        BY <1>7, <2>4, <3>1 DEF Rows
      <4>3. s \in Codes => Follows(u, s)
        BY <2>5, <3>1 DEF Codes
      <4>4. u.todo \in Places(u.op)
        BY <1>4, <2>2
      <4>5. QED BY <1>1, <2>2, <2>3, <4>1, <4>2, <4>3, <4>4, Moves
    <3>2. CASE s \in {"policy", "exists"}
      <4>1. "user" \in Rows /\ Fits("user", Latest(t.draft, "user")) /\ u.draft = t.draft
        BY <1>1, <2>4, <3>2, LatestFits DEF Rows
      <4>2. u.todo \in Places(u.op)
        BY <1>4, <2>2
      <4>3. QED BY <1>1, <2>2, <2>3, <4>1, <4>2, Moves DEF Codes
    <3>3. QED BY <1>4, <3>1, <3>2
  <2>7. ReplyInv(u)
    BY <1>1, <2>2 DEF ReplyInv
  <2>8. "user" \in DOMAIN u.draft /\ u.draft["user"].exists => db["user"].exists
    <3>1. "user" \in DOMAIN u.draft => "user" \in DOMAIN t.draft /\ u.draft["user"] = t.draft["user"]
      BY <1>4, <2>4 DEF Written
    <3>2. QED BY <3>1, UserSeen DEF Latest
  <2>9. /\ u.todo \in {<<"sends">>, <<>>} => s \in {"grant", "sends"}
        /\ u.todo = <<"sends">> => s = "grant"
    <3>1. CASE s = "policy"
      <4>1. u.todo = <<"exists", "grant", "sends">>
        BY <1>3, <2>2, <3>1
      <4>2. QED BY <4>1, Lengths
    <3>2. CASE s = "exists"
      <4>1. u.todo = <<"grant", "sends">>
        BY <1>3, <2>2, <3>2
      <4>2. QED BY <4>1, Lengths
    <3>3. CASE s = "sends"
      <4>1. u.todo = <<>>
        BY <1>3, <2>2, <3>3
      <4>2. QED BY <3>3, <4>1, Lengths
    <3>4. QED BY <1>4, <3>1, <3>2, <3>3
  <2>10. PlaceInv(u)
    <3>1. u.todo \notin {<<"sends">>, <<>>} => DOMAIN u.draft = {}
      BY <1>3, <1>6, <2>2, <2>4
    <3>2. u.todo \in {<<"sends">>, <<>>} => "grant" \in DOMAIN u.draft
      <4>1. u.todo \in {<<"sends">>, <<>>} => s \in {"grant", "sends"}
        BY <2>9
      <4>2. s \in {"grant", "sends"} => "grant" \in DOMAIN u.draft
        BY <1>6, <2>4 DEF Written
      <4>3. QED BY <4>1, <4>2
    <3>3. u.todo = <<"sends">> => /\ "sends" \notin DOMAIN u.draft
                                  /\ db["grant"].id = 0 \/ age.late \/ db["sends"] < MaxSends
      <4>1. u.todo = <<"sends">> => s = "grant"
        BY <2>9
      <4>2. s = "grant" => "sends" \notin DOMAIN u.draft
        BY <1>6, <2>4 DEF Written
      <4>3. QED BY <1>7, <1>8, <4>1, <4>2
    <3>4. QED BY <2>2, <2>8, <3>1, <3>2, <3>3 DEF PlaceInv
  <2>11. QED BY <2>6, <2>7, <2>10 DEF TxInv
<1>9. QED BY <1>7, <1>8

\* Registration: who writes the user was allowed to, and stays so.
LEMMA RegisterStep ==
  ASSUME DbInv, NEW t, TxInv(t), t.op = "register", t.todo # <<>>, NEW s, s = Head(t.todo), NEW v, v = Seen(t, s),
         NEW r, r = Statement(t, s, v)
  PROVE  (r.then = "abort" => r.kind # "wrong") /\ (r.then # "abort" => TxInv(After(t, s, v, r)))
<1>1. /\ DOMAIN t = DOMAIN NoTx /\ t.op \in Ops /\ t.todo \in Places(t.op) /\ t.shared \in BOOLEAN /\ t.new \in Ids
      /\ t.reply \in [id : Ids, kind : {None, "wrong", "right"}] /\ RowsTyped(t.draft)
  BY TypedTx, Constants
<1>2. Places(t.op) = {<<"policy", "prove", "user", "void">>, <<"prove", "user", "void">>, <<"user", "void">>,
                      <<"void">>, <<>>}
  BY DEF Places
<1>3. \/ t.todo = <<"policy", "prove", "user", "void">> /\ s = "policy" /\ Tail(t.todo) = <<"prove", "user", "void">>
      \/ t.todo = <<"prove", "user", "void">> /\ s = "prove" /\ Tail(t.todo) = <<"user", "void">>
      \/ t.todo = <<"user", "void">> /\ s = "user" /\ Tail(t.todo) = <<"void">>
      \/ t.todo = <<"void">> /\ s = "void" /\ Tail(t.todo) = <<>>
  <2>1. CASE t.todo = <<"policy", "prove", "user", "void">>
    BY <2>1, LongTails
  <2>2. CASE t.todo = <<"prove", "user", "void">>
    BY <2>2, LongTails
  <2>3. CASE t.todo = <<"user", "void">>
    BY <2>3, PairTails
  <2>4. CASE t.todo = <<"void">>
    BY <2>4, PairTails
  <2>5. QED BY <1>1, <1>2, <2>1, <2>2, <2>3, <2>4
<1>4. /\ s \in {"policy", "prove", "user", "void"} /\ Tail(t.todo) \in Places(t.op)
      /\ RowOf(s) = (IF s \in {"prove", "void"} THEN "grant" ELSE s) /\ RowOf(s) \in Rows
  BY <1>2, <1>3, RowNames DEF Rows
<1>5. v = Latest(t.draft, RowOf(s)) /\ Fits(RowOf(s), v)
  BY <1>1, <1>4, LatestFits DEF Seen
<1>6. DraftInv(t) /\ ReplyInv(t) /\ PlaceInv(t)
  BY DEF TxInv
<1> DEFINE u == After(t, s, v, r)
<1>7. /\ DOMAIN u = DOMAIN NoTx /\ u.op = t.op /\ u.new = t.new /\ u.arg = t.arg /\ u.old = t.old
      /\ u.draft = IF Bare(t, s) THEN t.draft ELSE Written(t.draft, RowOf(s), r.value)
      /\ u.shared = (t.shared \/ Shares(t, s))
      /\ u.todo = IF r.then = "commit" THEN <<>>
                  ELSE IF t.op = "register" /\ s = "policy" /\ ~v THEN Tail(Tail(t.todo)) ELSE Tail(t.todo)
      /\ u.reply = IF r.kind = None THEN t.reply ELSE [id |-> v.id, kind |-> r.kind]
  BY <1>1, AfterFields
<1>8. /\ u.shared \in BOOLEAN /\ (u.shared => u.op \in {"grant", "register"}) /\ (t.shared => u.shared)
      /\ s = "policy" => u.shared
  BY <1>7 DEF Shares
<1>9. None = "none" /\ u.op = "register" /\ t.op = "register"
  BY <1>7, Constants
<1> HIDE DEF u
<1>10. CASE s = "policy"
  <2>1. t.todo = Program[t.op] /\ t.todo = <<"policy", "prove", "user", "void">>
    BY <1>3, <1>10 DEF Program
  <2>2. DOMAIN t.draft = {} /\ t.reply.kind = None
    BY <1>6, <2>1 DEF PlaceInv
  <2>3. r = Go(v) /\ v = db["policy"] /\ v \in BOOLEAN
    BY <1>4, <1>5, <1>10, <2>2 DEF Statement, Register, Latest, Fits
  <2>4. r.kind = None /\ r.then = "go" /\ r.value = v
    BY <2>3, Goes
  <2>5. Bare(t, s)
    BY <1>10 DEF Bare
  <2>6. u.draft = t.draft /\ u.reply = t.reply /\ u.shared
    BY <1>7, <1>8, <1>9, <1>10, <2>4, <2>5
  <2>7. IF v THEN u.todo = <<"prove", "user", "void">> ELSE u.todo = <<"user", "void">>
    <3>1. Tail(t.todo) = <<"prove", "user", "void">> /\ Tail(Tail(t.todo)) = <<"user", "void">>
      BY <2>1, LongTails
    <3>2. QED BY <1>7, <1>9, <1>10, <2>4, <3>1
  <2>8. u.todo \in Places(u.op)
    BY <1>2, <1>7, <2>7
  <2>9. TxTyped(u) /\ DraftInv(u)
    <3>1. "user" \in Rows /\ Fits("user", Latest(t.draft, "user"))
      BY <1>1, LatestFits DEF Rows
    <3>2. QED BY <1>1, <1>7, <1>8, <2>6, <2>8, <3>1, Moves DEF Codes
  <2>10. ReplyInv(u)
    BY <2>2, <2>6 DEF ReplyInv
  <2>11. u.todo # <<"policy", "prove", "user", "void">>
    BY <2>7, Lengths
  <2>12. u.todo = <<"user", "void">> => Allowed(u)
    <3>1. CASE v
      BY <2>7, <3>1, Lengths
    <3>2. CASE ~v
      BY <2>3, <2>6, <3>2 DEF Allowed
    <3>3. QED BY <3>1, <3>2
  <2>13. PlaceInv(u)
    BY <1>9, <2>2, <2>6, <2>12 DEF PlaceInv
  <2>14. QED BY <1>9, <2>4, <2>9, <2>10, <2>13 DEF TxInv, u
<1>11. CASE s = "prove"
  <2>1. t.todo = <<"prove", "user", "void">> /\ Tail(t.todo) = <<"user", "void">>
    BY <1>3, <1>11
  <2>2. DOMAIN t.draft = {} /\ t.shared
    BY <1>6, <2>1 DEF PlaceInv
  <2>3. v = db["grant"] /\ v \in OpenCode
    BY <1>4, <1>5, <1>11, <2>2 DEF Latest, Fits
  <2>4. r = IF ~Live(v) \/ v.tries >= MaxGuesses THEN Abort(v) ELSE Judged(t, v)
    BY <1>11 DEF Statement, Register
  <2>5. CASE ~Live(v) \/ v.tries >= MaxGuesses
    <3>1. r.kind = None /\ r.then = "abort"
      BY <2>4, <2>5 DEF Abort
    <3>2. QED BY <1>9, <3>1
  <2>6. CASE Live(v) /\ ~(v.tries >= MaxGuesses)
    <3>1. ~v.used /\ r = Judged(t, v)
      BY <2>4, <2>6 DEF Live
    <3>2. /\ Used(v) \in OpenCode /\ Used(v).id = v.id /\ Used(v).tries = v.tries /\ Used(v).used
          /\ Missed(v) \in OpenCode /\ Missed(v).id = v.id /\ Missed(v).tries = v.tries + 1
          /\ v.id \in Ids /\ v.tries \in Nat
      BY <2>3, <3>1, OpenCodes
    <3>3. ~Bare(t, s)
      BY <1>11, <1>9, <1>5, <3>1 DEF Bare, Seen
    <3>4. u.draft = Written(t.draft, "grant", r.value)
      BY <1>4, <1>7, <1>11, <3>3
    <3>5. DOMAIN u.draft = {"grant"} /\ u.draft["grant"] = r.value
      BY <2>2, <3>4 DEF Written
    <3>6. CASE t.arg # v.id
      <4>1. r.then = "commit" /\ r.kind = "wrong" /\ r.value = Missed(v)
        BY <3>1, <3>6 DEF Judged, Rejected, Commit
      <4>2. u.todo = <<>> /\ u.reply = [id |-> v.id, kind |-> "wrong"]
        BY <1>7, <1>9, <4>1
      <4>3. Follows(u, "grant")
        BY <1>9, <2>3, <3>1, <3>2, <3>5, <4>1 DEF Follows, Guesses
      <4>4. TxTyped(u) /\ DraftInv(u)
        <5>1. "grant" \in Rows /\ Fits("grant", r.value)
          BY <3>2, <4>1 DEF Rows, Fits
        <5>2. u.todo \in Places(u.op)
          BY <1>2, <1>7, <4>2
        <5>3. u.reply \in [id : Ids, kind : {None, "wrong", "right"}]
          BY <3>2, <4>2
        <5>4. QED BY <1>1, <1>7, <1>8, <3>4, <4>3, <5>1, <5>2, <5>3, Moves
      <4>5. ReplyInv(u)
        BY <1>9, <2>3, <3>1, <3>2, <3>5, <4>1, <4>2 DEF ReplyInv, Guesses, Codes
      <4>6. PlaceInv(u)
        BY <1>9, <3>5, <4>2 DEF PlaceInv, Program
      <4>7. QED BY <4>1, <4>4, <4>5, <4>6 DEF TxInv, u
    <3>7. CASE t.arg = v.id
      <4>1. r.then = "go" /\ r.kind = "right" /\ r.value = Used(v)
        BY <3>1, <3>7 DEF Judged, Go
      <4>2. u.todo = <<"user", "void">> /\ u.reply = [id |-> v.id, kind |-> "right"]
        BY <1>7, <1>9, <1>11, <2>1, <4>1
      <4>3. Follows(u, "grant")
        BY <1>9, <2>3, <3>1, <3>2, <3>5, <4>1 DEF Follows, Guesses
      <4>4. TxTyped(u) /\ DraftInv(u)
        <5>1. "grant" \in Rows /\ Fits("grant", r.value)
          BY <3>2, <4>1 DEF Rows, Fits
        <5>2. u.todo \in Places(u.op)
          BY <1>2, <1>7, <4>2
        <5>3. u.reply \in [id : Ids, kind : {None, "wrong", "right"}]
          BY <3>2, <4>2
        <5>4. QED BY <1>1, <1>7, <1>8, <3>4, <4>3, <5>1, <5>2, <5>3, Moves
      <4>5. ReplyInv(u)
        BY <1>9, <2>3, <3>1, <3>2, <3>5, <4>1, <4>2 DEF ReplyInv, Guesses, Codes
      <4>6. Allowed(u)
        BY <1>8, <2>2, <2>3, <4>2 DEF Allowed
      <4>7. u.todo # <<"prove", "user", "void">> /\ u.todo # <<"policy", "prove", "user", "void">>
        BY <4>2, Lengths
      <4>8. PlaceInv(u)
        BY <1>9, <3>5, <4>2, <4>6, <4>7 DEF PlaceInv, Program
      <4>9. QED BY <4>1, <4>4, <4>5, <4>8 DEF TxInv, u
    <3>8. QED BY <3>6, <3>7
  <2>7. QED BY <2>5, <2>6
<1>12. CASE s = "user"
  <2>1. t.todo = <<"user", "void">> /\ Tail(t.todo) = <<"void">>
    BY <1>3, <1>12
  <2>2. Allowed(t)
    BY <1>6, <2>1 DEF PlaceInv
  <2>3. v \in UserRow
    BY <1>4, <1>5, <1>12 DEF Fits
  <2> DEFINE ok == ~v.exists
             w == [v EXCEPT !.exists = TRUE]
  <2>4. ok \in BOOLEAN
    OBVIOUS
  <2>5. w \in UserRow
    BY <2>3, UserRows
  <2>6. r = Require(ok, w)
    BY <1>12 DEF Statement, Register
  <2> HIDE DEF ok, w
  <2>7. r.kind = None /\ r.value = w /\ r.then \in {"go", "abort"}
    BY <2>4, <2>6, Requires
  <2>8. ASSUME r.then # "abort"
        PROVE  TxInv(u)
    <3>1. ~Bare(t, s)
      BY <1>12 DEF Bare
    <3>2. u.draft = Written(t.draft, "user", w) /\ u.todo = <<"void">> /\ u.reply = t.reply
      BY <1>4, <1>7, <1>12, <2>1, <2>7, <2>8, <3>1
    <3>3. TxTyped(u) /\ DraftInv(u)
      <4>1. "user" \in Rows /\ Fits("user", w)
        BY <2>5 DEF Rows, Fits
      <4>2. u.todo \in Places(u.op) /\ u.reply \in [id : Ids, kind : {None, "wrong", "right"}]
        BY <1>1, <1>2, <1>7, <3>2
      <4>3. "user" # "policy" /\ "user" # "sends" /\ "user" \notin Codes
        BY DEF Codes
      <4>4. QED BY <1>1, <1>7, <1>8, <3>2, <4>1, <4>2, <4>3, Moves
    <3>4. ReplyInv(u)
      <4>1. \A row \in Codes : row \in DOMAIN t.draft => row \in DOMAIN u.draft /\ u.draft[row] = t.draft[row]
        BY <3>2 DEF Written, Codes
      <4>2. QED BY <1>7, <3>2, <4>1, ReplyGoesOn
    <3>5. Allowed(u)
      BY <1>8, <2>2, <3>2 DEF Allowed
    <3>6. u.todo # <<"prove", "user", "void">> /\ u.todo # <<"policy", "prove", "user", "void">> /\ u.todo # <<"user", "void">>
      BY <3>2, Lengths
    <3>7. PlaceInv(u)
      BY <1>9, <3>5, <3>6 DEF PlaceInv, Program
    <3>8. QED BY <3>3, <3>4, <3>7 DEF TxInv
  <2>9. QED BY <1>9, <2>7, <2>8 DEF u
<1>13. CASE s = "void"
  <2>1. t.todo = <<"void">> /\ Tail(t.todo) = <<>>
    BY <1>3, <1>13
  <2>2. v \in OpenCode /\ v = Latest(t.draft, "grant")
    BY <1>4, <1>5, <1>13 DEF Fits
  <2>3. r.kind = None /\ r.value = Used(v) /\ r.then = "go"
    <3>1. r = Go(Used(v))
      BY <1>13 DEF Statement, Register
    <3>2. QED BY <3>1, Goes
  <2>4. u.draft = t.draft \/ u.draft = Written(t.draft, "grant", Used(v))
    BY <1>4, <1>7, <1>13, <2>3
  <2>5. u.todo = <<>> /\ u.reply = t.reply /\ u.shared = t.shared
    BY <1>1, <1>7, <1>13, <2>1, <2>3 DEF Shares
  <2>6. u.draft # t.draft => Follows(u, "grant")
    <3>1. ASSUME u.draft # t.draft
          PROVE  Follows(u, "grant")
      <4>1. u.draft["grant"] = Used(v)
        BY <2>4, <3>1 DEF Written
      <4>2. /\ v.id = db["grant"].id /\ db["grant"].tries <= v.tries
        <5>1. CASE "grant" \in DOMAIN t.draft
          BY <1>6, <1>9, <2>2, <5>1 DEF DraftInv, Follows, Codes, Latest
        <5>2. CASE "grant" \notin DOMAIN t.draft
          <6>1. v = db["grant"] /\ v.tries \in Nat
            BY <2>2, <5>2, OpenCodes DEF Latest
          <6>2. QED BY <6>1
        <5>3. QED BY <5>1, <5>2
      <4>3. Used(v).id = v.id /\ Used(v).tries = v.tries /\ Used(v).used
        BY <2>2, OpenCodes
      <4>4. QED BY <1>9, <4>1, <4>2, <4>3 DEF Follows, Guesses
    <3>2. QED BY <3>1
  <2>7. TxTyped(u) /\ DraftInv(u)
    <3>1. "grant" \in Rows /\ Fits("grant", Used(v))
      BY <2>2, OpenCodes DEF Rows, Fits
    <3>2. u.todo \in Places(u.op) /\ u.reply \in [id : Ids, kind : {None, "wrong", "right"}]
      BY <1>1, <1>2, <1>7, <2>5
    <3>3. QED BY <1>1, <1>7, <1>8, <2>4, <2>6, <3>1, <3>2, Moves
  <2>8. ReplyInv(u)
    <3>1. ASSUME NEW row \in Codes, row \in DOMAIN t.draft
          PROVE  row \in DOMAIN u.draft /\ (t.draft[row].used => u.draft[row].used)
      <4>1. CASE u.draft = t.draft
        BY <3>1, <4>1
      <4>2. CASE u.draft = Written(t.draft, "grant", Used(v))
        <5>1. Used(v).used
          BY <2>2, OpenCodes
        <5>2. QED BY <3>1, <4>2, <5>1 DEF Written
      <4>3. QED BY <2>4, <4>1, <4>2
    <3>2. QED BY <1>7, <2>5, <3>1, ReplyGoesOn
  <2>9. "user" \in DOMAIN u.draft => "user" \in DOMAIN t.draft /\ u.draft["user"] = t.draft["user"]
    BY <2>4 DEF Written
  <2>10. Allowed(t) => Allowed(u)
    BY <1>8, <2>5 DEF Allowed
  <2>11. PlaceInv(u)
    BY <1>6, <1>9, <2>5, <2>9, <2>10 DEF PlaceInv, Program
  <2>12. QED BY <1>9, <2>3, <2>7, <2>8, <2>11 DEF TxInv, u
<1>14. QED BY <1>4, <1>10, <1>11, <1>12, <1>13

\* Resetting the password: the code stays locked from the guess on.
LEMMA ResetStep ==
  ASSUME DbInv, NEW t, TxInv(t), t.op = "reset", t.todo # <<>>, NEW s, s = Head(t.todo), NEW v, v = Seen(t, s),
         NEW r, r = Statement(t, s, v)
  PROVE  (r.then = "abort" => r.kind # "wrong") /\ (r.then # "abort" => TxInv(After(t, s, v, r)))
<1>1. /\ DOMAIN t = DOMAIN NoTx /\ t.op \in Ops /\ t.todo \in Places(t.op) /\ t.shared \in BOOLEAN /\ t.new \in Ids
      /\ t.reply \in [id : Ids, kind : {None, "wrong", "right"}] /\ RowsTyped(t.draft)
  BY TypedTx, Constants
<1>2. Places(t.op) = {<<"code", "user", "judge", "password", "token">>, <<"user", "judge", "password", "token">>,
                      <<"judge", "password", "token">>, <<"password", "token">>, <<"token">>, <<>>}
  BY DEF Places
<1>3. \/ /\ t.todo = <<"code", "user", "judge", "password", "token">> /\ s = "code"
         /\ Tail(t.todo) = <<"user", "judge", "password", "token">>
      \/ /\ t.todo = <<"user", "judge", "password", "token">> /\ s = "user"
         /\ Tail(t.todo) = <<"judge", "password", "token">>
      \/ t.todo = <<"judge", "password", "token">> /\ s = "judge" /\ Tail(t.todo) = <<"password", "token">>
      \/ t.todo = <<"password", "token">> /\ s = "password" /\ Tail(t.todo) = <<"token">>
      \/ t.todo = <<"token">> /\ s = "token" /\ Tail(t.todo) = <<>>
  <2>1. CASE t.todo = <<"code", "user", "judge", "password", "token">>
    BY <2>1, LongTails
  <2>2. CASE t.todo = <<"user", "judge", "password", "token">>
    BY <2>2, LongTails
  <2>3. CASE t.todo = <<"judge", "password", "token">>
    BY <2>3, LongTails
  <2>4. CASE t.todo = <<"password", "token">>
    BY <2>4, PairTails
  <2>5. CASE t.todo = <<"token">>
    BY <2>5, PairTails
  <2>6. QED BY <1>1, <1>2, <2>1, <2>2, <2>3, <2>4, <2>5
<1>4. /\ s \in {"code", "user", "judge", "password", "token"} /\ Tail(t.todo) \in Places(t.op)
      /\ s = "judge" => RowOf(s) = "code"
      /\ s = "password" => RowOf(s) = "user"
      /\ s \in {"code", "user", "token"} => RowOf(s) = s
      /\ RowOf(s) \in Rows
  BY <1>2, <1>3, RowNames DEF Rows
<1>5. v = Latest(t.draft, RowOf(s)) /\ Fits(RowOf(s), v)
  BY <1>1, <1>4, LatestFits DEF Seen
<1>6. DraftInv(t) /\ ReplyInv(t) /\ PlaceInv(t)
  BY DEF TxInv
<1>7. t.op # "register"
  OBVIOUS
<1>8. "user" \in DOMAIN t.draft /\ t.draft["user"].exists => db["user"].exists
  BY <1>7, UserSeen DEF Latest
<1> DEFINE u == After(t, s, v, r)
<1>9. /\ DOMAIN u = DOMAIN NoTx /\ u.op = t.op /\ u.new = t.new /\ u.arg = t.arg /\ u.old = t.old
      /\ u.draft = IF Bare(t, s) THEN t.draft ELSE Written(t.draft, RowOf(s), r.value)
      /\ u.shared = t.shared /\ u.shared \in BOOLEAN /\ ~u.shared
      /\ u.todo = IF r.then = "commit" THEN <<>> ELSE Tail(t.todo)
      /\ u.reply = IF r.kind = None THEN t.reply ELSE [id |-> v.id, kind |-> r.kind]
  <2>1. /\ DOMAIN u = DOMAIN NoTx /\ u.op = t.op /\ u.new = t.new /\ u.arg = t.arg /\ u.old = t.old
        /\ u.draft = IF Bare(t, s) THEN t.draft ELSE Written(t.draft, RowOf(s), r.value)
        /\ u.shared = (t.shared \/ Shares(t, s))
        /\ u.todo = IF r.then = "commit" THEN <<>>
                    ELSE IF t.op = "register" /\ s = "policy" /\ ~v THEN Tail(Tail(t.todo)) ELSE Tail(t.todo)
        /\ u.reply = IF r.kind = None THEN t.reply ELSE [id |-> v.id, kind |-> r.kind]
    BY <1>1, AfterFields
  <2> HIDE DEF u
  <2>2. ~t.shared /\ ~Shares(t, s)
    BY <1>4, <1>6 DEF DraftInv, Shares
  <2>3. u.shared = t.shared
    BY <1>1, <2>1, <2>2
  <2>4. QED BY <1>1, <1>7, <2>1, <2>2, <2>3
<1>10. None = "none" /\ u.op = "reset" /\ t.op = "reset"
  BY <1>9, Constants
<1> HIDE DEF u
\* What u is typed by, once its row and its reply are.
<1>11. ASSUME NEW row \in Rows, NEW w, Fits(row, w), u.draft = t.draft \/ u.draft = Written(t.draft, row, w),
              row \in {"code", "user", "token"}, row = "code" /\ u.draft # t.draft => Follows(u, row),
              u.reply \in [id : Ids, kind : {None, "wrong", "right"}],
              r.then # "commit" => u.todo = Tail(t.todo)
       PROVE  TxTyped(u) /\ DraftInv(u)
  <2>1. u.todo \in Places(u.op)
    BY <1>2, <1>4, <1>9
  <2>2. row # "policy" /\ row # "sends" /\ (row \in Codes => row = "code")
    BY <1>11 DEF Codes
  <2>3. QED BY <1>1, <1>9, <1>11, <2>1, <2>2, Moves
\* And the places, once the user's row and the code's are.
<1>12. ASSUME u.todo # Program["reset"], "user" \in DOMAIN u.draft /\ u.draft["user"].exists => db["user"].exists,
              u.todo \in {<<"user", "judge", "password", "token">>, <<"judge", "password", "token">>} =>
                "code" \in DOMAIN u.draft /\ u.draft["code"] = db["code"] /\ ~db["code"].used
       PROVE  PlaceInv(u)
  BY <1>10, <1>12 DEF PlaceInv
<1>13. Program["reset"] = <<"code", "user", "judge", "password", "token">>
  BY DEF Program
<1>14. CASE s = "code"
  <2>1. t.todo = Program[t.op] /\ Tail(t.todo) = <<"user", "judge", "password", "token">>
    BY <1>3, <1>13, <1>14
  <2>2. DOMAIN t.draft = {} /\ t.reply.kind = None
    BY <1>6, <1>10, <2>1 DEF PlaceInv
  <2>3. v = db["code"] /\ Fits("code", v) /\ v \in OpenCode
    BY <1>4, <1>5, <1>14, <2>2 DEF Latest, Fits
  <2> DEFINE ok == Live(v)
  <2>4. ok \in BOOLEAN /\ (ok => ~v.used)
    BY DEF Live
  <2>5. r = Require(ok, v)
    BY <1>14 DEF Statement, ConsumeResetCode
  <2> HIDE DEF ok
  <2>6. r.kind = None /\ r.value = v /\ r.then \in {"go", "abort"} /\ (r.then = "go" <=> ok)
    BY <2>4, <2>5, Requires
  <2>7. ASSUME r.then # "abort"
        PROVE  TxInv(u)
    <3>1. ~v.used
      BY <2>4, <2>6, <2>7
    <3>2. ~Bare(t, s)
      BY <1>5, <1>10, <1>14, <3>1 DEF Bare, Seen
    <3>3. /\ u.draft = Written(t.draft, "code", v) /\ u.todo = <<"user", "judge", "password", "token">>
          /\ u.reply = t.reply
      BY <1>4, <1>9, <1>14, <2>1, <2>6, <2>7, <3>2
    <3>4. DOMAIN u.draft = {"code"} /\ u.draft["code"] = db["code"]
      BY <2>2, <2>3, <3>3 DEF Written
    <3>5. v.tries \in Nat
      BY <2>3, OpenCodes
    <3>6. Follows(u, "code")
      BY <1>10, <2>3, <3>4, <3>5 DEF Follows, Guesses
    <3>7. TxTyped(u) /\ DraftInv(u)
      <4>1. "code" \in Rows
        BY DEF Rows
      <4>2. QED BY <1>1, <1>9, <1>11, <2>3, <2>6, <2>7, <3>3, <3>6, <4>1
    <3>8. ReplyInv(u)
      BY <2>2, <3>3 DEF ReplyInv
    <3>9. u.todo # Program["reset"]
      BY <1>13, <3>3, LongLengths
    <3>10. PlaceInv(u)
      BY <1>12, <2>3, <3>1, <3>4, <3>9
    <3>11. QED BY <3>7, <3>8, <3>10 DEF TxInv
  <2>8. QED BY <1>10, <2>6, <2>7 DEF u
<1>15. CASE s = "user"
  <2>1. t.todo = <<"user", "judge", "password", "token">> /\ Tail(t.todo) = <<"judge", "password", "token">>
    BY <1>3, <1>15
  <2>2. "code" \in DOMAIN t.draft /\ t.draft["code"] = db["code"] /\ ~db["code"].used
    BY <1>6, <1>10, <2>1 DEF PlaceInv
  <2>3. Fits("user", v) /\ v = Latest(t.draft, "user")
    BY <1>4, <1>5, <1>15
  <2> DEFINE ok == ~v.disabled
  <2>4. ok \in BOOLEAN
    OBVIOUS
  <2>5. r = Require(ok, v)
    BY <1>15 DEF Statement, ConsumeResetCode
  <2> HIDE DEF ok
  <2>6. r.kind = None /\ r.value = v /\ r.then \in {"go", "abort"}
    BY <2>4, <2>5, Requires
  <2>7. ASSUME r.then # "abort"
        PROVE  TxInv(u)
    <3>1. ~Bare(t, s)
      BY <1>10, <1>15 DEF Bare
    <3>2. u.draft = Written(t.draft, "user", v) /\ u.todo = <<"judge", "password", "token">> /\ u.reply = t.reply
      BY <1>4, <1>9, <1>15, <2>1, <2>6, <2>7, <3>1
    <3>3. "code" \in DOMAIN u.draft /\ u.draft["code"] = t.draft["code"] /\ u.draft["user"] = v
      BY <2>2, <3>2 DEF Written
    <3>4. v.exists => db["user"].exists
      BY <1>7, <2>3, UserSeen
    <3>5. TxTyped(u) /\ DraftInv(u)
      <4>1. "user" \in Rows
        BY DEF Rows
      <4>2. QED BY <1>1, <1>9, <1>11, <2>3, <2>6, <2>7, <3>2, <4>1
    <3>6. ReplyInv(u)
      <4>1. \A row \in Codes : row \in DOMAIN t.draft => row \in DOMAIN u.draft /\ u.draft[row] = t.draft[row]
        BY <3>2 DEF Written, Codes
      <4>2. QED BY <1>9, <3>2, <4>1, ReplyGoesOn
    <3>7. u.todo # Program["reset"]
      BY <1>13, <3>2, LongLengths
    <3>8. PlaceInv(u)
      BY <1>12, <2>2, <3>3, <3>4, <3>7
    <3>9. QED BY <3>5, <3>6, <3>8 DEF TxInv
  <2>8. QED BY <1>10, <2>6, <2>7 DEF u
<1>16. CASE s = "judge"
  <2>1. t.todo = <<"judge", "password", "token">> /\ Tail(t.todo) = <<"password", "token">>
    BY <1>3, <1>16
  <2>2. "code" \in DOMAIN t.draft /\ t.draft["code"] = db["code"] /\ ~db["code"].used
    BY <1>6, <1>10, <2>1 DEF PlaceInv
  <2>3. v = db["code"] /\ v \in OpenCode /\ ~v.used
    BY <1>4, <1>5, <1>16, <2>2 DEF Latest, Fits
  <2>4. r = Judged(t, v)
    BY <1>16 DEF Statement, ConsumeResetCode
  <2>5. /\ Used(v) \in OpenCode /\ Used(v).id = v.id /\ Used(v).tries = v.tries /\ Used(v).used
        /\ Missed(v) \in OpenCode /\ Missed(v).id = v.id /\ Missed(v).tries = v.tries + 1
        /\ v.id \in Ids /\ v.tries \in Nat
    BY <2>3, OpenCodes
  <2>6. ~Bare(t, s)
    BY <1>10, <1>16 DEF Bare
  <2>7. u.draft = Written(t.draft, "code", r.value)
    BY <1>4, <1>9, <1>16, <2>6
  <2>8. /\ "code" \in DOMAIN u.draft /\ u.draft["code"] = r.value
        /\ "user" \in DOMAIN u.draft => "user" \in DOMAIN t.draft /\ u.draft["user"] = t.draft["user"]
    BY <2>7 DEF Written
  <2>9. \/ r.then = "commit" /\ r.kind = "wrong" /\ r.value = Missed(v)
        \/ r.then = "go" /\ r.kind = "right" /\ r.value = Used(v)
    BY <2>4 DEF Judged, Rejected, Commit, Go
  <2>10. u.reply = [id |-> v.id, kind |-> r.kind] /\ (u.todo = <<>> \/ u.todo = <<"password", "token">>)
         /\ (r.kind = "wrong" => u.todo = <<>>)
    BY <1>9, <1>10, <2>1, <2>9
  <2>11. Follows(u, "code")
    BY <1>10, <2>3, <2>5, <2>8, <2>9 DEF Follows, Guesses
  <2>12. TxTyped(u) /\ DraftInv(u)
    <3>1. "code" \in Rows /\ Fits("code", r.value)
      BY <2>5, <2>9 DEF Rows, Fits
    <3>2. u.reply \in [id : Ids, kind : {None, "wrong", "right"}]
      BY <2>5, <2>9, <2>10
    <3>3. r.then # "commit" => u.todo = Tail(t.todo)
      BY <1>9
    <3>4. QED BY <1>11, <2>7, <2>11, <3>1, <3>2, <3>3
  <2>13. ReplyInv(u)
    BY <1>10, <2>3, <2>5, <2>8, <2>9, <2>10 DEF ReplyInv, Guesses, Codes
  <2>14. /\ u.todo # Program["reset"] /\ u.todo # <<"user", "judge", "password", "token">>
         /\ u.todo # <<"judge", "password", "token">>
    BY <1>13, <2>10, LongLengths
  <2>15. PlaceInv(u)
    BY <1>8, <1>12, <2>8, <2>14
  <2>16. QED BY <2>9, <2>12, <2>13, <2>15 DEF TxInv, u
<1>17. CASE s \in {"password", "token"}
  <2>1. Tail(t.todo) = <<"token">> \/ Tail(t.todo) = <<>>
    BY <1>3, <1>17
  <2> DEFINE row == RowOf(s)
  <2>2. /\ r.kind = None /\ r.then = "go" /\ Fits(row, r.value) /\ row \in {"user", "token"}
        /\ row = "user" => r.value.exists = v.exists /\ v = Latest(t.draft, "user")
    <3>1. CASE s = "password"
      <4>1. v \in UserRow /\ row = "user" /\ v = Latest(t.draft, "user")
        BY <1>4, <1>5, <3>1 DEF Fits
      <4>2. r = Go([v EXCEPT !.hash = @ + 1])
        BY <3>1 DEF Statement, ConsumeResetCode
      <4>3. [v EXCEPT !.hash = @ + 1] \in UserRow /\ [v EXCEPT !.hash = @ + 1].exists = v.exists
        BY <4>1, UserRows
      <4>4. r.kind = None /\ r.then = "go" /\ r.value = [v EXCEPT !.hash = @ + 1]
        BY <4>2, Goes
      <4>5. QED BY <4>1, <4>3, <4>4 DEF Fits
    <3>2. CASE s = "token"
      <4>1. v \in OpenCode /\ row = "token"
        BY <1>4, <1>5, <3>2 DEF Fits
      <4>2. r = Go(Used(v))
        BY <3>2 DEF Statement, ConsumeResetCode
      <4>3. r.kind = None /\ r.then = "go" /\ r.value = Used(v)
        BY <4>2, Goes
      <4>4. Used(v) \in OpenCode
        BY <4>1, OpenCodes
      <4>5. QED BY <4>1, <4>3, <4>4 DEF Fits
    <3>3. QED BY <1>17, <3>1, <3>2
  <2>3. u.draft = t.draft \/ u.draft = Written(t.draft, row, r.value)
    BY <1>9
  <2> HIDE DEF row
  <2>4. u.todo = Tail(t.todo) /\ u.reply = t.reply
    BY <1>9, <2>2
  <2>5. TxTyped(u) /\ DraftInv(u)
    <3>1. row \in Rows /\ row # "code"
      BY <2>2 DEF Rows
    <3>2. QED BY <1>1, <1>11, <2>2, <2>3, <2>4, <3>1
  <2>6. ReplyInv(u)
    <3>1. \A x \in Codes : x \in DOMAIN t.draft => x \in DOMAIN u.draft /\ u.draft[x] = t.draft[x]
      BY <2>2, <2>3 DEF Written, Codes
    <3>2. QED BY <1>9, <2>4, <3>1, ReplyGoesOn
  <2>7. "user" \in DOMAIN u.draft /\ u.draft["user"].exists => db["user"].exists
    <3>1. CASE u.draft = t.draft
      BY <1>8, <3>1
    <3>2. CASE u.draft = Written(t.draft, row, r.value)
      BY <1>7, <1>8, <2>2, <3>2, UserSeen DEF Written
    <3>3. QED BY <2>3, <3>1, <3>2
  <2>8. /\ u.todo # Program["reset"] /\ u.todo # <<"user", "judge", "password", "token">>
        /\ u.todo # <<"judge", "password", "token">>
    BY <1>13, <2>1, <2>4, LongLengths
  <2>9. PlaceInv(u)
    BY <1>12, <2>7, <2>8
  <2>10. QED BY <2>2, <2>5, <2>6, <2>9 DEF TxInv, u
<1>18. QED BY <1>4, <1>14, <1>15, <1>16, <1>17

-----------------------------------------------------------------------------
(* The actions.                                                             *)

\* Every statement keeps what its transaction relies on.
LEMMA StatementStep ==
  ASSUME DbInv, NEW t, TxInv(t), t.todo # <<>>, NEW s, s = Head(t.todo), NEW v, v = Seen(t, s),
         NEW r, r = Statement(t, s, v)
  PROVE  (r.then = "abort" => r.kind # "wrong") /\ (r.then # "abort" => TxInv(After(t, s, v, r)))
<1>1. t.op \in Ops \union {None} /\ t.todo \in Places(t.op)
  BY TypedTx
<1>2. t.op \in Ops
  <2>1. None \notin {"link", "code", "reset", "consume", "change", "update", "disable", "policy", "grant", "register"}
    BY Constants
  <2>2. t.op = None => t.todo = <<>>
    BY <1>1, <2>1 DEF Places, None
  <2>3. QED BY <1>1, <2>2
<1>3. CASE t.op \in PlainOps
  BY <1>3, PlainStep, Constants
<1>4. CASE t.op = "code"
  BY <1>4, CodeStep, Constants
<1>5. CASE t.op = "policy"
  BY <1>5, PolicyStep, Constants
<1>6. CASE t.op = "grant"
  BY <1>6, GrantStep, Constants
<1>7. CASE t.op = "register"
  BY <1>7, RegisterStep
<1>8. CASE t.op = "reset"
  BY <1>8, ResetStep
<1>9. QED BY <1>2, <1>3, <1>4, <1>5, <1>6, <1>7, <1>8, Constants DEF PlainOps

\* A statement that did not have to wait locked what nobody else has.
LEMMA Unblocked ==
  ASSUME NEW t, NEW o, TxInv(t), Apart(t, o), Apart(o, t), NEW s, ~Conflict(t, o, s), NEW v, NEW r
  PROVE  Apart(After(t, s, v, r), o) /\ Apart(o, After(t, s, v, r))
<1> DEFINE u == After(t, s, v, r)
<1>1. /\ u.draft = IF Bare(t, s) THEN t.draft ELSE Written(t.draft, RowOf(s), r.value)
      /\ u.shared => t.shared \/ Shares(t, s)
  <2>1. DOMAIN t = DOMAIN NoTx
    BY TypedTx
  <2>2. /\ DOMAIN u = DOMAIN NoTx /\ u.op = t.op /\ u.new = t.new /\ u.arg = t.arg /\ u.old = t.old
        /\ u.draft = IF Bare(t, s) THEN t.draft ELSE Written(t.draft, RowOf(s), r.value)
        /\ u.shared = (t.shared \/ Shares(t, s))
        /\ u.todo = IF r.then = "commit" THEN <<>>
                    ELSE IF t.op = "register" /\ s = "policy" /\ ~v THEN Tail(Tail(t.todo)) ELSE Tail(t.todo)
        /\ u.reply = IF r.kind = None THEN t.reply ELSE [id |-> v.id, kind |-> r.kind]
    BY <2>1, AfterFields
  <2> HIDE DEF u
  <2>3. QED BY <2>2
<1> HIDE DEF u
<1>2. RowOf(s) = "policy" => s = "policy"
  BY DEF RowOf
<1>3. /\ ~Bare(t, s) => RowOf(s) \notin DOMAIN o.draft /\ ~(s = "policy" /\ o.shared)
      /\ Shares(t, s) => "policy" \notin DOMAIN o.draft
  BY DEF Conflict
<1>4. /\ DOMAIN t.draft \intersect DOMAIN o.draft = {} /\ (t.shared => "policy" \notin DOMAIN o.draft)
      /\ o.shared => "policy" \notin DOMAIN t.draft
  BY DEF Apart
<1>5. /\ DOMAIN u.draft \intersect DOMAIN o.draft = {} /\ (o.shared => "policy" \notin DOMAIN u.draft)
  <2>1. CASE Bare(t, s)
    BY <1>1, <1>4, <2>1
  <2>2. CASE ~Bare(t, s)
    <3>1. DOMAIN u.draft = DOMAIN t.draft \union {RowOf(s)}
      BY <1>1, <2>2 DEF Written
    <3>2. QED BY <1>2, <1>3, <1>4, <2>2, <3>1
  <2>3. QED BY <2>1, <2>2
<1>6. u.shared => "policy" \notin DOMAIN o.draft
  BY <1>1, <1>3, <1>4
<1>7. QED BY <1>5, <1>6 DEF Apart, u

\* What the transactions of the others rely on, when the rows they have locked stay.
LEMMA OtherKept ==
  ASSUME NEW q \in Requests, TxInv(tx[q]), tx'[q] = tx[q],
         \A row \in DOMAIN tx[q].draft : db'[row] = db[row],
         tx[q].shared => db'["policy"] = db["policy"],
         tx[q].op = "grant" /\ tx[q].todo = <<"sends">> =>
           (db["grant"].id = 0 \/ age.late \/ db["sends"] < MaxSends =>
              db'["grant"].id = 0 \/ age'.late \/ db'["sends"] < MaxSends)
  PROVE  TxInv(tx[q])'
<1>1. TxTyped(tx[q]) /\ DraftInv(tx[q]) /\ ReplyInv(tx[q]) /\ PlaceInv(tx[q])
  BY DEF TxInv
<1>2. TxTyped(tx[q])'
  BY <1>1
<1>3. DraftInv(tx[q])'
  BY <1>1 DEF DraftInv, Follows
<1>4. ReplyInv(tx[q])'
  BY <1>1 DEF ReplyInv
<1>5. tx[q].op = "register" /\ Allowed(tx[q]) => Allowed(tx[q])'
  BY <1>1 DEF Allowed, ReplyInv, Guesses, Codes, None
<1>6. PlaceInv(tx[q])'
  BY <1>1, <1>5 DEF PlaceInv
<1>7. QED BY <1>2, <1>3, <1>4, <1>6 DEF TxInv

\* One transaction has moved, and nothing else.
LEMMA TxMoves ==
  ASSUME UsersInv, NEW p \in Requests, NEW u, tx' = [tx EXCEPT ![p] = u],
         UNCHANGED <<mailVars, scene, db, age, begun, issued, expired, spent>>, TxInv(u), New(u),
         \A o \in Requests \ {p} : /\ Apart(u, tx[o]) /\ Apart(tx[o], u)
                                   /\ u.op \in Issuers /\ tx[o].op \in Issuers => u.new # tx[o].new
  PROVE  UsersInv'
<1>1. DOMAIN tx' = Requests /\ tx'[p] = u /\ \A o \in Requests \ {p} : tx'[o] = tx[o]
  BY DEF UsersInv, LockInv
<1>2. MailInv' /\ DbInv' /\ SpentInv'
  <2>1. MailInv'
    BY MailSame DEF UsersInv
  <2>2. DbInv'
    BY DEF UsersInv, DbInv
  <2>3. SpentInv'
    BY DEF UsersInv, SpentInv, Counted
  <2>4. QED BY <2>1, <2>2, <2>3
<1>3. ASSUME NEW o \in Requests
      PROVE  TxInv(tx[o])'
  <2>1. CASE o = p
    <3>1. tx'[o] = u
      BY <1>1, <2>1
    <3>2. TxTyped(u) /\ DraftInv(u) /\ ReplyInv(u) /\ PlaceInv(u)
      BY DEF TxInv
    <3>3. TxTyped(tx[o])'
      BY <3>1, <3>2
    <3>4. DraftInv(tx[o])'
      BY <3>1, <3>2 DEF DraftInv, Follows
    <3>5. ReplyInv(tx[o])'
      BY <3>1, <3>2 DEF ReplyInv
    <3>6. PlaceInv(tx[o])'
      BY <3>1, <3>2 DEF PlaceInv, Allowed
    <3>7. QED BY <3>3, <3>4, <3>5, <3>6 DEF TxInv
  <2>2. CASE o # p
    <3>1. TxInv(tx[o]) /\ tx'[o] = tx[o]
      BY <1>1, <2>2 DEF UsersInv, LockInv
    <3>2. QED BY <3>1, OtherKept
  <2>3. QED BY <2>1, <2>2
<1>4. \A o, q \in Requests : o # q => Apart(tx[o], tx[q])'
  <2>1. ASSUME NEW o \in Requests, NEW q \in Requests, o # q
        PROVE  Apart(tx'[o], tx'[q])
    BY <1>1, <2>1 DEF UsersInv, LockInv
  <2>2. QED BY <2>1 DEF Apart
<1>5. FreshInv'
  <2>1. FreshInv
    BY DEF UsersInv
  <2>2. \A o \in Requests : New(tx[o])'
    BY <1>1, <2>1 DEF FreshInv, New
  <2>3. \A o, q \in Requests : o # q /\ tx'[o].op \in Issuers /\ tx'[q].op \in Issuers => tx'[o].new # tx'[q].new
    BY <1>1, <2>1 DEF FreshInv
  <2>4. QED BY <2>1, <2>2, <2>3 DEF FreshInv
<1>6. QED BY <1>1, <1>2, <1>3, <1>4, <1>5 DEF UsersInv, LockInv

\* A transaction that is given up leaves nothing behind.
LEMMA DropsTx ==
  ASSUME UsersInv, NEW p \in Requests, tx' = [tx EXCEPT ![p] = NoTx],
         UNCHANGED <<mailVars, scene, db, age, begun, issued, expired, spent>>
  PROVE  UsersInv'
<1>1. TxInv(NoTx) /\ New(NoTx) /\ DOMAIN NoTx.draft = {} /\ ~NoTx.shared
  BY NothingYet
<1>2. NoTx.op \notin Issuers
  BY NothingYet DEF Issuers, None
<1>3. \A o \in Requests : Apart(NoTx, tx[o]) /\ Apart(tx[o], NoTx)
  BY <1>1 DEF Apart
<1>4. QED BY <1>1, <1>2, <1>3, TxMoves

LEMMA ExecuteKeeps ==
  ASSUME UsersInv, NEW p \in Requests, Execute(p)
  PROVE  UsersInv'
<1> DEFINE t == tx[p]
           s == Head(t.todo)
           v == Seen(t, s)
           r == Statement(t, s, v)
<1>1. /\ t.todo # <<>> /\ \A o \in Requests : ~Blocks(o, p)
      /\ UNCHANGED <<mailVars, scene, db, age, begun, issued, expired>>
      /\ \/ r.then = "abort" /\ tx' = [tx EXCEPT ![p] = NoTx] /\ (r.kind # "wrong" => UNCHANGED spent)
         \/ r.then # "abort" /\ tx' = [tx EXCEPT ![p] = After(t, s, v, r)] /\ UNCHANGED spent
  BY ExecuteSplits
<1>2. DbInv /\ TxInv(t)
  BY DEF UsersInv, LockInv
<1>3. (r.then = "abort" => r.kind # "wrong") /\ (r.then # "abort" => TxInv(After(t, s, v, r)))
  BY <1>1, <1>2, StatementStep
<1>4. \A o \in Requests \ {p} : /\ Apart(t, tx[o]) /\ Apart(tx[o], t) /\ ~Conflict(t, tx[o], s)
                                /\ t.op \in Issuers /\ tx[o].op \in Issuers => t.new # tx[o].new
  BY <1>1 DEF UsersInv, LockInv, FreshInv, Blocks
<1>5. DOMAIN t = DOMAIN NoTx
  BY <1>2, TypedTx
<1> HIDE DEF t, s, v, r
<1>6. CASE r.then = "abort"
  BY <1>1, <1>3, <1>6, DropsTx
<1>7. CASE r.then # "abort"
  <2> DEFINE u == After(t, s, v, r)
  <2>1. u.op = t.op /\ u.new = t.new
    BY <1>5 DEF After, NoTx
  <2>2. \A o \in Requests \ {p} : Apart(u, tx[o]) /\ Apart(tx[o], u)
    BY <1>2, <1>4, Unblocked
  <2>3. TxInv(u) /\ tx' = [tx EXCEPT ![p] = u] /\ UNCHANGED <<mailVars, scene, db, age, begun, issued, expired, spent>>
    BY <1>1, <1>3, <1>7
  <2>4. New(t)
    BY DEF UsersInv, FreshInv, t
  <2> HIDE DEF u
  <2>5. New(u)
    BY <2>1, <2>4 DEF New
  <2>6. QED BY <1>4, <2>1, <2>2, <2>3, <2>5, TxMoves
<1>8. QED BY <1>6, <1>7

LEMMA VictimKeeps ==
  ASSUME UsersInv, NEW p \in Requests, Victim(p)
  PROVE  UsersInv'
BY DropsTx DEF Victim

LEMMA ExpireKeeps ==
  ASSUME UsersInv, Expire
  PROVE  UsersInv'
<1>1. UNCHANGED <<mailVars, scene, db, tx, begun, issued, spent>>
  BY DEF Expire
<1>2. MailInv' /\ SpentInv'
  <2>1. MailInv'
    BY <1>1, MailSame DEF UsersInv
  <2>2. SpentInv'
    BY <1>1 DEF UsersInv, SpentInv, Counted
  <2>3. QED BY <2>1, <2>2
<1>3. DbInv
  BY DEF UsersInv
<1>4. issued \in Nat /\ issued <= MaxOps /\ MaxOps \in Nat
  BY Constants DEF UsersInv, FreshInv
<1>5. expired' \subseteq Ids
  BY <1>3, <1>4 DEF Expire, DbInv, Ids
<1>6. age' \in [recent : BOOLEAN, late : BOOLEAN] /\ (age'.late => db["sends"] > 0) /\ (age.late => age'.late)
  <2>1. age \in [recent : BOOLEAN, late : BOOLEAN] /\ (age.late => db["sends"] > 0)
    BY <1>3 DEF DbInv
  <2> DEFINE some == (db["sends"] > 0)
  <2>2. age' = age \/ age' = [age EXCEPT !.recent = FALSE] \/ age' = [recent |-> FALSE, late |-> some]
    BY DEF Expire
  <2>3. some \in BOOLEAN /\ (age.late => some)
    BY <2>1
  <2> HIDE DEF some
  <2>4. age' \in [recent : BOOLEAN, late : BOOLEAN] /\ (age'.late => age.late \/ some) /\ (age.late => age'.late)
    <3>1. CASE age' = age
      BY <2>1, <3>1
    <3>2. CASE age' = [age EXCEPT !.recent = FALSE]
      <4>1. age' \in [recent : BOOLEAN, late : BOOLEAN] /\ age'.late = age.late
        BY <2>1, <3>2
      <4>2. QED BY <4>1
    <3>3. CASE age' = [recent |-> FALSE, late |-> some]
      <4>1. age' \in [recent : BOOLEAN, late : BOOLEAN] /\ age'.late = some
        BY <2>3, <3>3
      <4>2. QED BY <2>3, <4>1
    <3>4. QED BY <2>2, <3>1, <3>2, <3>3
  <2>5. QED BY <2>1, <2>4 DEF some
<1>7. DbInv'
  BY <1>1, <1>3, <1>5, <1>6 DEF DbInv
<1>8. \A o \in Requests : TxInv(tx[o])'
  <2>1. ASSUME NEW o \in Requests
        PROVE  TxInv(tx[o])'
    <3>1. TxInv(tx[o]) /\ tx'[o] = tx[o]
      BY <1>1 DEF UsersInv, LockInv
    <3>2. QED BY <1>1, <1>6, <3>1, OtherKept
  <2>2. QED BY <2>1
<1>9. \A o, q \in Requests : o # q => Apart(tx[o], tx[q])'
  BY <1>1 DEF UsersInv, LockInv, Apart
<1>10. FreshInv'
  BY <1>1 DEF UsersInv, FreshInv, New
<1>11. QED BY <1>1, <1>2, <1>7, <1>8, <1>9, <1>10 DEF UsersInv, LockInv

\* The mail queue moves, and the requests do not.
LEMMA UsersSame ==
  ASSUME UsersInv, UNCHANGED users, MailInv'
  PROVE  UsersInv'
<1>1. UNCHANGED <<scene, db, age, tx, begun, issued, expired, spent>>
  BY DEF users
<1>2. DbInv' /\ SpentInv' /\ FreshInv'
  BY <1>1 DEF UsersInv, DbInv, SpentInv, Counted, FreshInv, New
<1>3. \A o \in Requests : TxInv(tx[o])'
  <2>1. ASSUME NEW o \in Requests
        PROVE  TxInv(tx[o])'
    <3>1. TxInv(tx[o]) /\ tx'[o] = tx[o]
      BY <1>1 DEF UsersInv, LockInv
    <3>2. QED BY <1>1, <3>1, OtherKept
  <2>2. QED BY <2>1
<1>4. \A o, q \in Requests : o # q => Apart(tx[o], tx[q])'
  BY <1>1 DEF UsersInv, LockInv, Apart
<1>5. QED BY <1>1, <1>2, <1>3, <1>4 DEF UsersInv, LockInv

\* A request comes: it has locked nothing yet, and what it will issue is new.
LEMMA BeginKeeps ==
  ASSUME UsersInv, NEW p \in Requests, Begin(p)
  PROVE  UsersInv'
<1>1. PICK op \in scene.may :
        /\ issued' = IF op \in {"link", "code", "grant"} THEN issued + 1 ELSE issued
        /\ \E g \in Arguments(op) :
             tx' = [tx EXCEPT ![p] = [NoTx EXCEPT !.op = op, !.todo = Program[op], !.new = issued', !.arg = g,
                                                  !.old = db.user.hash]]
  BY DEF Begin
<1>2. PICK g \in Arguments(op) :
        tx' = [tx EXCEPT ![p] = [NoTx EXCEPT !.op = op, !.todo = Program[op], !.new = issued', !.arg = g,
                                             !.old = db.user.hash]]
  BY <1>1
<1>3. begun' = begun + 1 /\ UNCHANGED <<mailVars, scene, db, age, expired, spent>> /\ begun < scene.ops /\ tx[p].op = None
  BY DEF Begin
<1>4. /\ begun \in Nat /\ issued \in Nat /\ issued <= begun /\ scene.ops \in Nat /\ scene.ops <= MaxOps /\ MaxOps \in Nat
      /\ op \in Ops
  <2>1. scene \in Scene
    BY DEF UsersInv, DbInv
  <2>2. scene.ops \in 0 .. MaxOps /\ scene.may \subseteq Ops
    BY <2>1 DEF Scene, Ops
  <2>3. begun \in Nat /\ issued \in Nat /\ issued <= begun
    BY Constants DEF UsersInv, FreshInv
  <2>4. QED BY <2>2, <2>3, Constants
<1>5. /\ begun' \in 0 .. MaxOps /\ issued' \in 0 .. begun' /\ issued' \in Ids /\ issued <= issued' /\ g \in Nat
      /\ op \in Issuers => issued' = issued + 1
  <2>1. issued' = issued \/ issued' = issued + 1
    BY <1>1
  <2>2. begun + 1 <= MaxOps
    BY <1>3, <1>4
  <2>3. g \in Nat
    BY <1>2, <1>4 DEF Arguments
  <2>4. op \in Issuers => issued' = issued + 1
    BY <1>1 DEF Issuers
  <2>5. QED BY <1>3, <1>4, <2>1, <2>2, <2>3, <2>4 DEF Ids
<1> DEFINE u == [NoTx EXCEPT !.op = op, !.todo = Program[op], !.new = issued', !.arg = g, !.old = db.user.hash]
<1>6. /\ DOMAIN u = DOMAIN NoTx /\ u.op = op /\ u.todo = Program[op] /\ u.new = issued' /\ u.arg = g
      /\ u.old = db["user"].hash /\ DOMAIN u.draft = {} /\ u.shared = FALSE /\ u.reply = NoReply
  BY DEF NoTx
<1>7. /\ DOMAIN tx' = Requests /\ tx'[p] = u /\ \A o \in Requests \ {p} : tx'[o] = tx[o]
  BY <1>2 DEF UsersInv, LockInv
<1> HIDE DEF u
<1>8. MailInv' /\ DbInv' /\ SpentInv'
  <2>1. MailInv'
    BY <1>3, MailSame DEF UsersInv
  <2>2. DbInv'
    BY <1>3 DEF UsersInv, DbInv
  <2>3. SpentInv'
    BY <1>3 DEF UsersInv, SpentInv, Counted
  <2>4. QED BY <2>1, <2>2, <2>3
<1>9. NoReply \in [id : Ids, kind : {None, "wrong", "right"}] /\ NoReply.kind = None
  BY Constants DEF NoReply, Ids
<1>10. Program[op] \in Places(op)
  BY <1>4, Constants DEF Program, Places
<1>11. TxTyped(u)
  <2>1. RowsTyped(u.draft)
    BY <1>6 DEF RowsTyped
  <2>2. db["user"].hash \in Nat
    <3>1. Fits("user", db["user"])
      BY DEF UsersInv, DbInv, RowsTyped, Rows
    <3>2. QED BY <3>1 DEF Fits, UserRow
  <2>3. op # None
    BY <1>4, Constants
  <2>4. u.shared \in BOOLEAN
    BY <1>6
  <2>5. QED BY <1>4, <1>5, <1>6, <1>9, <1>10, <2>1, <2>2, <2>3, <2>4 DEF TxTyped
<1>12. TxInv(tx[p])'
  <2>1. TxTyped(tx[p])'
    BY <1>7, <1>11
  <2>2. DraftInv(tx[p])'
    BY <1>6, <1>7 DEF DraftInv
  <2>3. ReplyInv(tx[p])'
    BY <1>6, <1>7, <1>9 DEF ReplyInv
  <2>4. PlaceInv(tx[p])'
    <3>1. CASE op = "reset"
      <4>1. u.todo = <<"code", "user", "judge", "password", "token">>
        BY <1>6, <3>1 DEF Program
      <4>2. u.todo # <<"user", "judge", "password", "token">> /\ u.todo # <<"judge", "password", "token">>
        BY <4>1, LongLengths
      <4>3. QED BY <1>6, <1>7, <1>9, <3>1, <4>2 DEF PlaceInv
    <3>2. CASE op = "register"
      <4>1. u.todo = <<"policy", "prove", "user", "void">>
        BY <1>6, <3>2 DEF Program
      <4>2. u.todo # <<"prove", "user", "void">> /\ u.todo # <<"user", "void">>
        BY <4>1, LongLengths
      <4>3. QED BY <1>6, <1>7, <1>9, <3>2, <4>2 DEF PlaceInv
    <3>3. CASE op = "grant"
      <4>1. u.todo = <<"policy", "exists", "grant", "sends">>
        BY <1>6, <3>3 DEF Program
      <4>2. u.todo # <<"sends">> /\ u.todo # <<>>
        BY <4>1, LongLengths
      <4>3. QED BY <1>6, <1>7, <3>3, <4>2 DEF PlaceInv
    <3>4. CASE op \notin {"reset", "register", "grant"}
      BY <1>6, <1>7, <3>4 DEF PlaceInv
    <3>5. QED BY <3>1, <3>2, <3>3, <3>4
  <2>5. QED BY <2>1, <2>2, <2>3, <2>4 DEF TxInv
<1>13. ASSUME NEW o \in Requests
       PROVE  TxInv(tx[o])'
  <2>1. CASE o = p
    BY <1>12, <2>1
  <2>2. CASE o # p
    <3>1. TxInv(tx[o]) /\ tx'[o] = tx[o]
      BY <1>7, <2>2 DEF UsersInv, LockInv
    <3>2. QED BY <1>3, <3>1, OtherKept
  <2>3. QED BY <2>1, <2>2
<1>14. \A o, q \in Requests : o # q => Apart(tx[o], tx[q])'
  <2>1. ASSUME NEW o \in Requests, NEW q \in Requests, o # q
        PROVE  Apart(tx'[o], tx'[q])
    <3>1. CASE o = p \/ q = p
      BY <1>6, <1>7, <2>1, <3>1 DEF Apart
    <3>2. CASE o # p /\ q # p
      BY <1>7, <2>1, <3>2 DEF UsersInv, LockInv
    <3>3. QED BY <3>1, <3>2
  <2>2. QED BY <2>1 DEF Apart
<1>15. FreshInv'
  <2>1. FreshInv
    BY DEF UsersInv
  <2>2. db["code"].id \in Nat /\ db["grant"].id \in Nat
    <3>1. Fits("code", db["code"]) /\ Fits("grant", db["grant"])
      BY DEF UsersInv, DbInv, RowsTyped, Rows
    <3>2. QED BY <3>1, OpenCodes DEF Fits, Ids
  <2>3. db'["code"].id <= issued' /\ db'["grant"].id <= issued'
    BY <1>3, <1>4, <1>5, <2>1, <2>2 DEF FreshInv, Ids
  <2>4. ASSUME NEW o \in Requests
        PROVE  New(tx[o])'
    <3>1. CASE o = p
      <4>1. ASSUME op \in Issuers
            PROVE  /\ issued' \in 1 .. issued' /\ issued' # db["code"].id /\ issued' # db["grant"].id
                   /\ spent[issued'] = Zero
        <5>1. issued' = issued + 1 /\ issued' > issued
          BY <1>4, <1>5, <4>1
        <5>2. spent[issued'] = Zero
          BY <1>5, <2>1, <5>1 DEF FreshInv
        <5>3. db["code"].id # issued' /\ db["grant"].id # issued'
          BY <1>4, <2>1, <2>2, <5>1 DEF FreshInv
        <5>4. QED BY <1>4, <5>1, <5>2, <5>3
      <4>2. QED BY <1>3, <1>6, <1>7, <3>1, <4>1 DEF New
    <3>2. CASE o # p
      <4>1. New(tx[o]) /\ tx'[o] = tx[o]
        BY <1>7, <2>1, <3>2 DEF FreshInv
      <4>2. \A n \in 1 .. issued : n \in 1 .. issued'
        BY <1>4, <1>5 DEF Ids
      <4>3. QED BY <1>3, <4>1, <4>2 DEF New
    <3>3. QED BY <3>1, <3>2
  <2>5. ASSUME NEW o \in Requests, NEW q \in Requests, o # q, tx'[o].op \in Issuers, tx'[q].op \in Issuers
        PROVE  tx'[o].new # tx'[q].new
    <3>1. \A x \in Requests : tx[x].op \in Issuers => tx[x].new \in Nat /\ tx[x].new <= issued
      BY <1>4, <2>1 DEF FreshInv, New
    <3>2. CASE o = p
      <4>1. tx'[q] = tx[q] /\ tx'[o].new = issued + 1
        BY <1>5, <1>6, <1>7, <2>5, <3>2
      <4>2. QED BY <1>4, <2>5, <3>1, <4>1
    <3>3. CASE q = p
      <4>1. tx'[o] = tx[o] /\ tx'[q].new = issued + 1
        BY <1>5, <1>6, <1>7, <2>5, <3>3
      <4>2. QED BY <1>4, <2>5, <3>1, <4>1
    <3>4. CASE o # p /\ q # p
      BY <1>7, <2>1, <2>5, <3>4 DEF FreshInv
    <3>5. QED BY <3>2, <3>3, <3>4
  <2>6. \A i \in Ids : i > issued' => spent'[i] = Zero
    <3>1. \A i \in Ids : i > issued' => i > issued
      BY <1>4, <1>5 DEF Ids
    <3>2. QED BY <1>3, <2>1, <3>1 DEF FreshInv
  <2>7. QED BY <1>5, <2>3, <2>4, <2>5, <2>6 DEF FreshInv
<1>16. QED BY <1>7, <1>8, <1>13, <1>14, <1>15 DEF UsersInv, LockInv

\* What is known of a transaction that is about to commit.
LEMMA CommitFacts ==
  ASSUME UsersInv, NEW p \in Requests, CommitTx(p)
  PROVE  /\ DbInv /\ TxInv(tx[p]) /\ New(tx[p]) /\ tx[p].op # None /\ tx[p].todo = <<>>
         /\ DOMAIN db' = Rows /\ \A row \in Rows : db'[row] = Latest(tx[p].draft, row)
         /\ \A row \in Rows \ DOMAIN tx[p].draft : db'[row] = db[row]
         /\ \A row \in DOMAIN tx[p].draft : row \in Rows /\ db'[row] = tx[p].draft[row]
         /\ DOMAIN tx' = Requests /\ tx'[p] = NoTx /\ \A o \in Requests \ {p} : tx'[o] = tx[o]
         /\ scene' = scene /\ begun' = begun /\ issued' = issued /\ expired' = expired
<1>1. DbInv /\ TxInv(tx[p]) /\ New(tx[p])
  BY DEF UsersInv, LockInv, FreshInv
<1>2. DOMAIN tx[p].draft \subseteq Rows
  BY <1>1, TypedTx DEF RowsTyped
<1>3. DOMAIN db = Rows
  BY <1>1 DEF DbInv
<1>4. db' = [row \in Rows |-> Latest(tx[p].draft, row)]
  BY <1>3 DEF CommitTx
<1>5. DOMAIN db' = Rows /\ \A row \in Rows : db'[row] = Latest(tx[p].draft, row)
  BY <1>4
<1>6. DOMAIN tx' = Requests /\ tx'[p] = NoTx /\ \A o \in Requests \ {p} : tx'[o] = tx[o]
  BY DEF UsersInv, LockInv, CommitTx
<1>7. tx[p].op # None /\ tx[p].todo = <<>> /\ scene' = scene /\ begun' = begun /\ issued' = issued /\ expired' = expired
  BY DEF CommitTx
<1>8. /\ \A row \in Rows \ DOMAIN tx[p].draft : db'[row] = db[row]
      /\ \A row \in DOMAIN tx[p].draft : row \in Rows /\ db'[row] = tx[p].draft[row]
  BY <1>2, <1>5 DEF Latest
<1>9. QED BY <1>1, <1>5, <1>6, <1>7, <1>8

\* The row of a code, once it is committed.
LEMMA CommittedCode ==
  ASSUME UsersInv, NEW p \in Requests, CommitTx(p), NEW row \in Codes
  PROVE  /\ db[row] \in OpenCode /\ db'[row] \in OpenCode /\ db'[row].id <= issued
         /\ \/ row \notin DOMAIN tx[p].draft /\ db'[row] = db[row]
            \/ /\ row \in DOMAIN tx[p].draft /\ tx[p].op = row /\ db'[row] = Issued(tx[p].new)
               /\ tx[p].new \in 1 .. issued /\ tx[p].new # db["code"].id /\ tx[p].new # db["grant"].id
               /\ spent[tx[p].new] = Zero
            \/ /\ row \in DOMAIN tx[p].draft /\ tx[p].op = Guesses(row) /\ db'[row] = tx[p].draft[row]
               /\ db'[row].id = db[row].id
               /\ db[row].tries <= db'[row].tries /\ (db[row].used => db'[row].used)
<1> DEFINE t == tx[p]
<1>1. /\ DbInv /\ TxInv(t) /\ New(t) /\ row \in Rows
      /\ db'[row] = Latest(t.draft, row)
      /\ row \notin DOMAIN t.draft => db'[row] = db[row]
      /\ row \in DOMAIN t.draft => db'[row] = t.draft[row]
  BY CommitFacts DEF Rows, Codes
<1>2. Fits(row, db[row]) /\ Fits(row, Latest(t.draft, row))
  BY <1>1, LatestFits, TypedTx DEF DbInv, RowsTyped
<1>3. db[row] \in OpenCode /\ db'[row] \in OpenCode
  BY <1>1, <1>2 DEF Fits, Codes
<1>4. db["code"].id <= issued /\ db["grant"].id <= issued
  BY DEF UsersInv, FreshInv
<1>5. CASE row \notin DOMAIN t.draft
  BY <1>1, <1>3, <1>4, <1>5 DEF Codes
<1>6. CASE row \in DOMAIN t.draft
  <2>1. Follows(t, row)
    BY <1>1, <1>6 DEF TxInv, DraftInv
  <2>2. CASE t.op = row /\ t.draft[row] = Issued(t.new)
    <3>1. /\ t.new \in 1 .. issued /\ t.new # db["code"].id /\ t.new # db["grant"].id /\ spent[t.new] = Zero
      BY <1>1, <2>2 DEF New, Issuers, Codes
    <3>2. db'[row] = Issued(t.new) /\ Issued(t.new).id = t.new
      BY <1>1, <1>6, <2>2 DEF Issued
    <3>3. t.new <= issued
      BY <3>1
    <3>4. QED BY <1>3, <1>6, <2>2, <3>1, <3>2, <3>3
  <2>3. CASE /\ t.op = Guesses(row) /\ t.draft[row].id = db[row].id
             /\ db[row].tries <= t.draft[row].tries /\ (db[row].used => t.draft[row].used)
    BY <1>1, <1>3, <1>4, <1>6, <2>3 DEF Codes
  <2>4. QED BY <2>1, <2>2, <2>3 DEF Follows
<1>7. QED BY <1>5, <1>6

\* The rows that are committed.
LEMMA CommitDb ==
  ASSUME UsersInv, NEW p \in Requests, CommitTx(p)
  PROVE  DbInv'
<1> DEFINE t == tx[p]
<1>1. /\ DbInv /\ TxInv(t) /\ t.todo = <<>> /\ t.op # None
      /\ DOMAIN db' = Rows /\ \A row \in Rows : db'[row] = Latest(t.draft, row)
      /\ \A row \in Rows \ DOMAIN t.draft : db'[row] = db[row]
      /\ scene' = scene /\ expired' = expired
  BY CommitFacts
<1>2. RowsTyped(db')
  <2>1. \A row \in Rows : Fits(row, Latest(t.draft, row))
    BY <1>1, LatestFits, TypedTx
  <2>2. QED BY <1>1, <2>1 DEF RowsTyped
<1>3. /\ db["code"].id \in Nat /\ db["grant"].id \in Nat /\ db'["code"].id \in Nat /\ db'["grant"].id \in Nat
      /\ "code" \in Codes /\ "grant" \in Codes /\ Guesses("code") = "reset" /\ Guesses("grant") = "register"
      /\ issued \in Nat
  <2>1. "code" \in Codes /\ "grant" \in Codes
    BY DEF Codes
  <2>2. db["code"] \in OpenCode /\ db["grant"] \in OpenCode /\ db'["code"] \in OpenCode /\ db'["grant"] \in OpenCode
    BY <2>1, CommittedCode
  <2>3. QED BY <2>1, <2>2, OpenCodes DEF Guesses, Ids, UsersInv, FreshInv
<1>4. DraftInv(t) /\ PlaceInv(t)
  BY <1>1 DEF TxInv
<1>5. \/ "code" \notin DOMAIN t.draft /\ db'["code"] = db["code"]
      \/ /\ t.op = "code" /\ db'["code"].id = t.new /\ t.new \in 1 .. issued /\ t.new # db["grant"].id
      \/ /\ t.op = "reset" /\ db'["code"].id = db["code"].id /\ (db["code"].used => db'["code"].used)
  <2> DEFINE row == "code"
  <2>1. row \in Codes
    BY <1>3
  <2> HIDE DEF row
  <2>2. \/ row \notin DOMAIN t.draft /\ db'[row] = db[row]
        \/ /\ row \in DOMAIN t.draft /\ t.op = row /\ db'[row] = Issued(t.new)
           /\ t.new \in 1 .. issued /\ t.new # db["code"].id /\ t.new # db["grant"].id
        \/ /\ row \in DOMAIN t.draft /\ t.op = Guesses(row)
           /\ db'[row].id = db[row].id /\ (db[row].used => db'[row].used)
    BY <2>1, CommittedCode
  <2>3. Issued(t.new).id = t.new
    BY DEF Issued
  <2>4. QED BY <1>3, <2>2, <2>3 DEF row
<1>6. \/ "grant" \notin DOMAIN t.draft /\ db'["grant"] = db["grant"]
      \/ /\ t.op = "grant" /\ db'["grant"].id = t.new /\ t.new \in 1 .. issued /\ t.new # db["code"].id
      \/ /\ t.op = "register" /\ db'["grant"].id = db["grant"].id /\ (db["grant"].used => db'["grant"].used)
  <2> DEFINE row == "grant"
  <2>1. row \in Codes
    BY <1>3
  <2> HIDE DEF row
  <2>2. \/ row \notin DOMAIN t.draft /\ db'[row] = db[row]
        \/ /\ row \in DOMAIN t.draft /\ t.op = row /\ db'[row] = Issued(t.new)
           /\ t.new \in 1 .. issued /\ t.new # db["code"].id /\ t.new # db["grant"].id
        \/ /\ row \in DOMAIN t.draft /\ t.op = Guesses(row)
           /\ db'[row].id = db[row].id /\ (db[row].used => db'[row].used)
    BY <2>1, CommittedCode
  <2>3. Issued(t.new).id = t.new
    BY DEF Issued
  <2>4. QED BY <1>3, <2>2, <2>3 DEF row
<1>7. /\ db["code"].id = db["grant"].id => db["code"].id = 0
      /\ db["code"].id = 0 => db["code"].used
      /\ db["grant"].id = 0 => db["grant"].used /\ db["sends"] = 0
  BY <1>1 DEF DbInv
<1>8. db'["code"].id = db'["grant"].id => db'["code"].id = 0
  BY <1>3, <1>5, <1>6, <1>7
<1>9. db'["code"].id = 0 => db'["code"].used
  BY <1>3, <1>5, <1>7
<1>10. "sends" \in DOMAIN t.draft => t.op = "grant"
  BY <1>4 DEF DraftInv
<1>11. t.op # "grant" => db'["sends"] = db["sends"]
  BY <1>1, <1>10 DEF Rows
<1>12. db'["grant"].id = 0 => db'["grant"].used /\ db'["sends"] = 0
  <2>1. t.op = "grant" => "grant" \in DOMAIN t.draft
    BY <1>1, <1>4 DEF PlaceInv
  <2>2. ASSUME db'["grant"].id = 0
        PROVE  t.op # "grant"
    BY <1>3, <1>6, <2>1, <2>2
  <2>3. QED BY <1>3, <1>6, <1>7, <1>11, <2>2
<1>13. age' \in [recent : BOOLEAN, late : BOOLEAN] /\ (age'.late => db'["sends"] > 0)
  <2>1. age \in [recent : BOOLEAN, late : BOOLEAN] /\ (age.late => db["sends"] > 0)
    BY <1>1 DEF DbInv
  <2>2. CASE t.op = "grant"
    <3>1. age' = [recent |-> TRUE, late |-> FALSE]
      BY <2>2 DEF CommitTx
    <3>2. QED BY <3>1
  <2>3. CASE t.op # "grant"
    <3>1. age' = age
      BY <2>3 DEF CommitTx
    <3>2. QED BY <1>11, <2>1, <2>3, <3>1
  <2>4. QED BY <2>2, <2>3
<1>14. QED BY <1>1, <1>2, <1>8, <1>9, <1>12, <1>13 DEF DbInv

\* The transactions of the others, after a commit: what they have locked has stayed.
LEMMA CommitOthers ==
  ASSUME UsersInv, NEW p \in Requests, CommitTx(p), NEW q \in Requests, q # p
  PROVE  TxInv(tx[q])'
<1> DEFINE t == tx[p]
           o == tx[q]
<1>1. /\ TxInv(t) /\ t.todo = <<>> /\ \A row \in Rows \ DOMAIN t.draft : db'[row] = db[row]
      /\ tx'[q] = o
  BY CommitFacts
<1>2. TxInv(o) /\ Apart(t, o) /\ Apart(o, t)
  BY DEF UsersInv, LockInv
<1>3. RowsTyped(o.draft) /\ RowsTyped(t.draft)
  BY <1>1, <1>2, TypedTx
<1>4. \A row \in DOMAIN o.draft : db'[row] = db[row]
  BY <1>1, <1>2, <1>3 DEF Apart, RowsTyped
<1>5. o.shared => db'["policy"] = db["policy"]
  BY <1>1, <1>2 DEF Apart, Rows
<1>6. ASSUME o.op = "grant", o.todo = <<"sends">>
      PROVE  db'["grant"] = db["grant"] /\ db'["sends"] = db["sends"] /\ age' = age
  <2>1. "grant" \in DOMAIN o.draft
    BY <1>2, <1>6 DEF TxInv, PlaceInv
  <2>2. "grant" \notin DOMAIN t.draft
    BY <1>2, <2>1 DEF Apart
  <2>3. "sends" \notin DOMAIN t.draft /\ t.op # "grant"
    BY <1>1, <2>2 DEF TxInv, DraftInv, PlaceInv
  <2>4. age' = age
    BY <2>3 DEF CommitTx
  <2>5. QED BY <1>1, <2>2, <2>3, <2>4 DEF Rows
<1>7. QED BY <1>1, <1>2, <1>4, <1>5, <1>6, OtherKept

\* The answer that a commit records: to a guess at one of the two codes, which was open.
LEMMA CommitTold ==
  ASSUME UsersInv, NEW p \in Requests, CommitTx(p)
  PROVE  \/ tx[p].reply.kind = None /\ spent' = spent
         \/ \E row \in Codes :
              /\ row \in DOMAIN tx[p].draft /\ tx[p].op = Guesses(row) /\ ~db[row].used
              /\ db[row].id \in 1 .. issued
              /\ \A i \in Ids : i # db[row].id => spent'[i] = spent[i]
              /\ DOMAIN spent' = Ids
              /\ \/ /\ tx[p].reply.kind = "right" /\ db'[row].used
                    /\ spent'[db[row].id] = [wrong |-> spent[db[row].id].wrong, right |-> spent[db[row].id].right + 1]
                 \/ /\ tx[p].reply.kind = "wrong" /\ db'[row].tries = db[row].tries + 1
                    /\ spent'[db[row].id] = [wrong |-> spent[db[row].id].wrong + 1, right |-> spent[db[row].id].right]
<1> DEFINE t == tx[p]
<1>1. /\ DbInv /\ TxInv(t) /\ \A row \in DOMAIN t.draft : db'[row] = t.draft[row]
  BY CommitFacts
<1>2. spent' = IF t.reply.kind = None THEN spent ELSE [spent EXCEPT ![t.reply.id][t.reply.kind] = @ + 1]
  BY DEF CommitTx, Told
<1>3. CASE t.reply.kind = None
  BY <1>2, <1>3
<1>4. CASE t.reply.kind # None
  <2>1. PICK row \in Codes :
          /\ row \in DOMAIN t.draft /\ t.op = Guesses(row) /\ t.reply.id = db[row].id /\ ~db[row].used
          /\ t.reply.kind = "right" => t.draft[row].used
          /\ t.reply.kind = "wrong" => t.draft[row].tries = db[row].tries + 1
    BY <1>1, <1>4 DEF TxInv, ReplyInv
  <2>2. t.reply.kind \in {"wrong", "right"}
    BY <1>1, <1>4, TypedTx
  <2> DEFINE i == db[row].id
  <2>3. i \in Ids /\ i \in 1 .. issued
    <3>1. db[row] \in OpenCode
      BY CommittedCode
    <3>2. i \in 0 .. MaxOps
      BY <3>1, OpenCodes DEF Ids
    <3>3. i # 0
      BY <1>1, <2>1 DEF DbInv, Codes
    <3>4. db["code"].id <= issued /\ db["grant"].id <= issued /\ issued \in Nat
      BY Constants DEF UsersInv, FreshInv
    <3>5. i <= issued
      BY <3>4 DEF Codes
    <3>6. QED BY <3>2, <3>3, <3>4, <3>5, Constants DEF Ids
  <2>4. spent \in [Ids -> [wrong : 0 .. MaxGuesses, right : {0, 1}]]
    BY DEF UsersInv, SpentInv
  <2>5. spent[i] \in [wrong : 0 .. MaxGuesses, right : {0, 1}]
    BY <2>3, <2>4
  <2> DEFINE k == t.reply.kind
             x == [spent[i] EXCEPT ![k] = spent[i][k] + 1]
  <2>6. spent' = [spent EXCEPT ![i] = x]
    <3>1. spent' = [spent EXCEPT ![i][k] = @ + 1]
      BY <1>2, <1>4, <2>1
    <3>2. QED BY <3>1
  <2> DEFINE a == spent[i].wrong + 1
             b == spent[i].right + 1
  <2>7. \/ k = "right" /\ x = [wrong |-> spent[i].wrong, right |-> b]
        \/ k = "wrong" /\ x = [wrong |-> a, right |-> spent[i].right]
    <3>1. CASE k = "right"
      <4>1. x = [spent[i] EXCEPT !.right = b]
        BY <3>1
      <4> HIDE DEF x, a, b
      <4>2. x = [wrong |-> spent[i].wrong, right |-> b]
        BY <2>5, <4>1
      <4>3. QED BY <3>1, <4>2
    <3>2. CASE k = "wrong"
      <4>1. x = [spent[i] EXCEPT !.wrong = a]
        BY <3>2
      <4> HIDE DEF x, a, b
      <4>2. x = [wrong |-> a, right |-> spent[i].right]
        BY <2>5, <4>1
      <4>3. QED BY <3>2, <4>2
    <3>3. QED BY <2>2, <3>1, <3>2
  <2> HIDE DEF x
  <2>8. spent'[i] = x /\ DOMAIN spent' = Ids /\ \A j \in Ids : j # i => spent'[j] = spent[j]
    BY <2>3, <2>4, <2>6
  <2> HIDE DEF i, k, a, b
  <2>9. \/ k = "right" /\ db'[row].used /\ spent'[i] = [wrong |-> spent[i].wrong, right |-> b]
        \/ k = "wrong" /\ db'[row].tries = db[row].tries + 1 /\ spent'[i] = [wrong |-> a, right |-> spent[i].right]
    BY <1>1, <2>1, <2>7, <2>8 DEF k
  <2>10. QED BY <2>1, <2>3, <2>8, <2>9 DEF i, k, a, b
<1>5. QED BY <1>3, <1>4

\* What is spent stays what the rows count.
LEMMA CommitSpent ==
  ASSUME UsersInv, NEW p \in Requests, CommitTx(p)
  PROVE  SpentInv'
<1> DEFINE t == tx[p]
<1>1. /\ spent \in [Ids -> [wrong : 0 .. MaxGuesses, right : {0, 1}]] /\ Counted(db["code"]) /\ Counted(db["grant"])
      /\ MaxGuesses \in Nat
  BY Constants DEF UsersInv, SpentInv
<1>2. DbInv
  BY DEF UsersInv
<1>3. ASSUME NEW row \in Codes
      PROVE  /\ db[row] \in OpenCode /\ db'[row] \in OpenCode /\ Counted(db[row])
             /\ db[row].id \in Ids /\ db[row].used \in BOOLEAN /\ db[row].tries \in 0 .. MaxGuesses
             /\ db'[row].id \in Ids /\ db'[row].used \in BOOLEAN /\ db'[row].tries \in 0 .. MaxGuesses
  <2>1. db[row] \in OpenCode /\ db'[row] \in OpenCode
    BY CommittedCode
  <2>2. QED BY <1>1, <2>1, OpenCodes DEF Codes
<1>4. CASE t.reply.kind = None /\ spent' = spent
  <2>1. ASSUME NEW row \in Codes
        PROVE  /\ spent'[db'[row].id].wrong <= db'[row].tries
               /\ spent'[db'[row].id].right = 0 \/ (spent'[db'[row].id].right = 1 /\ db'[row].used)
    <3>1. Counted(db[row]) /\ db[row].tries \in Nat /\ db'[row].tries \in Nat /\ db[row].id \in Ids
      BY <1>3
    <3>2. spent[db[row].id].wrong \in Nat
      BY <1>1, <3>1
    <3>3. \/ db'[row] = db[row]
          \/ db'[row] = Issued(t.new) /\ spent[t.new] = Zero
          \/ db'[row].id = db[row].id /\ db[row].tries <= db'[row].tries /\ (db[row].used => db'[row].used)
      BY CommittedCode
    <3>4. CASE db'[row] = db[row]
      BY <1>4, <3>1, <3>4 DEF Counted
    <3>5. CASE db'[row] = Issued(t.new) /\ spent[t.new] = Zero
      BY <1>4, <3>5 DEF Issued, Zero
    <3>6. CASE db'[row].id = db[row].id /\ db[row].tries <= db'[row].tries /\ (db[row].used => db'[row].used)
      <4>1. spent[db[row].id].wrong <= db'[row].tries
        BY <3>1, <3>2, <3>6 DEF Counted
      <4>2. QED BY <1>4, <3>1, <3>6, <4>1 DEF Counted
    <3>7. QED BY <3>3, <3>4, <3>5, <3>6
  <2>2. QED BY <1>1, <1>4, <2>1 DEF SpentInv, Counted, Codes
<1>5. CASE \E row \in Codes :
             /\ row \in DOMAIN tx[p].draft /\ tx[p].op = Guesses(row) /\ ~db[row].used
             /\ db[row].id \in 1 .. issued
             /\ \A i \in Ids : i # db[row].id => spent'[i] = spent[i]
             /\ DOMAIN spent' = Ids
             /\ \/ /\ tx[p].reply.kind = "right" /\ db'[row].used
                   /\ spent'[db[row].id] = [wrong |-> spent[db[row].id].wrong, right |-> spent[db[row].id].right + 1]
                \/ /\ tx[p].reply.kind = "wrong" /\ db'[row].tries = db[row].tries + 1
                   /\ spent'[db[row].id] = [wrong |-> spent[db[row].id].wrong + 1, right |-> spent[db[row].id].right]
  <2>1. PICK row \in Codes :
             /\ row \in DOMAIN tx[p].draft /\ tx[p].op = Guesses(row) /\ ~db[row].used
             /\ db[row].id \in 1 .. issued
             /\ \A i \in Ids : i # db[row].id => spent'[i] = spent[i]
             /\ DOMAIN spent' = Ids
             /\ \/ /\ tx[p].reply.kind = "right" /\ db'[row].used
                   /\ spent'[db[row].id] = [wrong |-> spent[db[row].id].wrong, right |-> spent[db[row].id].right + 1]
                \/ /\ tx[p].reply.kind = "wrong" /\ db'[row].tries = db[row].tries + 1
                   /\ spent'[db[row].id] = [wrong |-> spent[db[row].id].wrong + 1, right |-> spent[db[row].id].right]
    BY <1>5
  <2> DEFINE i == db[row].id
  <2>2. /\ i \in Ids /\ Counted(db[row]) /\ db'[row].tries \in 0 .. MaxGuesses /\ db[row].tries \in 0 .. MaxGuesses
        /\ spent[i].wrong \in 0 .. MaxGuesses /\ spent[i].right = 0 /\ spent[i].wrong <= db[row].tries
    <3>1. /\ i \in Ids /\ Counted(db[row]) /\ db'[row].tries \in 0 .. MaxGuesses /\ db[row].tries \in 0 .. MaxGuesses
      BY <1>3
    <3>2. spent[i] \in [wrong : 0 .. MaxGuesses, right : {0, 1}]
      BY <1>1, <3>1
    <3>3. QED BY <2>1, <3>1, <3>2 DEF Counted
  <2>3. /\ db'[row].id = i /\ db[row].tries <= db'[row].tries
    <3>1. Guesses(row) # row
      BY DEF Guesses, Codes
    <3>2. QED BY <2>1, <3>1, CommittedCode
  <2>4. /\ spent'[i].wrong <= db'[row].tries /\ spent'[i].wrong \in Nat
        /\ spent'[i].right = 0 \/ (spent'[i].right = 1 /\ db'[row].used)
        /\ spent'[i] = [wrong |-> spent'[i].wrong, right |-> spent'[i].right]
    <3>1. CASE db'[row].used /\ spent'[i] = [wrong |-> spent[i].wrong, right |-> spent[i].right + 1]
      <4>1. spent'[i].wrong = spent[i].wrong /\ spent'[i].right = 1
        BY <2>2, <3>1
      <4>2. QED BY <2>2, <2>3, <3>1, <4>1
    <3>2. CASE db'[row].tries = db[row].tries + 1 /\ spent'[i] = [wrong |-> spent[i].wrong + 1, right |-> spent[i].right]
      <4>1. spent'[i].wrong = spent[i].wrong + 1 /\ spent'[i].right = 0
        BY <2>2, <3>2
      <4>2. QED BY <2>2, <3>2, <4>1
    <3>3. QED BY <2>1, <3>1, <3>2
  <2>5. spent' \in [Ids -> [wrong : 0 .. MaxGuesses, right : {0, 1}]]
    <3>1. spent'[i].wrong \in 0 .. MaxGuesses /\ spent'[i].right \in {0, 1}
      BY <1>1, <2>2, <2>4
    <3>2. spent'[i] \in [wrong : 0 .. MaxGuesses, right : {0, 1}]
      <4> DEFINE a == spent'[i].wrong
                 b == spent'[i].right
      <4>1. spent'[i] = [wrong |-> a, right |-> b] /\ a \in 0 .. MaxGuesses /\ b \in {0, 1}
        BY <2>4, <3>1
      <4> HIDE DEF a, b
      <4>2. QED BY <4>1
    <3>3. \A j \in Ids : spent'[j] \in [wrong : 0 .. MaxGuesses, right : {0, 1}]
      BY <1>1, <2>1, <3>2
    <3>4. spent' = [j \in Ids |-> spent'[j]]
      BY <1>1 DEF CommitTx, Told
    <3>5. QED BY <3>3, <3>4
  <2>6. ASSUME NEW x \in Codes
        PROVE  Counted(db[x])'
    <3>1. CASE x = row
      BY <2>3, <2>4, <3>1 DEF Counted
    <3>2. CASE x # row
      <4>1. x \notin DOMAIN t.draft
        <5>1. Guesses(row) # x /\ Guesses(row) # Guesses(x)
          BY <3>2 DEF Guesses, Codes
        <5>2. QED BY <2>1, <5>1, CommittedCode
      <4>2. db'[x] = db[x] /\ Counted(db[x]) /\ db[x].id \in Ids
        BY <1>3, <4>1, CommittedCode
      <4>3. db[x].id # i
        <5>1. i # 0
          BY <2>1
        <5>2. db["code"].id = db["grant"].id => db["code"].id = 0
          BY <1>2 DEF DbInv
        <5>3. QED BY <3>2, <5>1, <5>2 DEF Codes
      <4>4. spent'[db[x].id] = spent[db[x].id]
        BY <2>1, <4>2, <4>3
      <4>5. QED BY <4>2, <4>4 DEF Counted
    <3>3. QED BY <3>1, <3>2
  <2>7. QED BY <2>5, <2>6 DEF SpentInv, Codes
<1>6. QED BY <1>4, <1>5, CommitTold

LEMMA CommitFresh ==
  ASSUME UsersInv, NEW p \in Requests, CommitTx(p)
  PROVE  FreshInv'
<1> DEFINE t == tx[p]
<1>1. /\ FreshInv /\ tx'[p] = NoTx /\ issued' = issued /\ begun' = begun
      /\ \A o \in Requests \ {p} : tx'[o] = tx[o]
  BY CommitFacts DEF UsersInv
<1>2. NoTx.op \notin Issuers
  BY NothingYet DEF Issuers, None
<1>3. /\ "code" \in Codes /\ "grant" \in Codes /\ issued \in Nat /\ issued <= MaxOps /\ MaxOps \in Nat
  BY <1>1, Constants DEF Codes, FreshInv
<1>4. db'["code"].id <= issued /\ db'["grant"].id <= issued
  BY <1>3, CommittedCode
\* Only what a guessed code counts has changed, and that code is an old one.
<1>5. \A i \in Ids : i # db["code"].id /\ i # db["grant"].id => spent'[i] = spent[i]
  BY CommitTold DEF Codes
<1>6. db["code"].id <= issued /\ db["grant"].id <= issued
  BY <1>1 DEF FreshInv
<1>7. \A i \in Ids : i > issued => spent'[i] = Zero
  <2>1. ASSUME NEW i \in Ids, i > issued
        PROVE  spent'[i] = Zero
    <3>1. db["code"].id \in Nat /\ db["grant"].id \in Nat /\ i \in Nat
      <4>1. db["code"] \in OpenCode /\ db["grant"] \in OpenCode
        BY <1>3, CommittedCode
      <4>2. QED BY <2>1, <4>1, OpenCodes DEF Ids
    <3>2. i # db["code"].id /\ i # db["grant"].id
      BY <1>3, <1>6, <2>1, <3>1
    <3>3. QED BY <1>1, <1>5, <2>1, <3>2 DEF FreshInv
  <2>2. QED BY <2>1
<1>8. ASSUME NEW o \in Requests, o # p, tx[o].op \in Issuers
      PROVE  /\ tx[o].new \in 1 .. issued /\ spent'[tx[o].new] = Zero
             /\ tx[o].new # db'["code"].id /\ tx[o].new # db'["grant"].id
  <2> DEFINE n == tx[o].new
  <2>1. /\ n \in 1 .. issued /\ n # db["code"].id /\ n # db["grant"].id /\ spent[n] = Zero
        /\ t.op \in Issuers => t.new # n
    BY <1>1, <1>8 DEF FreshInv, New
  <2>2. n \in Ids
    BY <1>3, <2>1 DEF Ids
  <2>3. spent'[n] = Zero
    BY <1>5, <2>1, <2>2
  <2>4. ASSUME NEW row \in Codes
        PROVE  n # db'[row].id
    <3>1. \/ db'[row].id = db[row].id
          \/ t.op = row /\ db'[row] = Issued(t.new)
      BY CommittedCode
    <3>2. CASE db'[row].id = db[row].id
      BY <2>1, <3>2 DEF Codes
    <3>3. CASE t.op = row /\ db'[row] = Issued(t.new)
      <4>1. t.op \in Issuers /\ db'[row].id = t.new
        BY <3>3 DEF Issuers, Codes, Issued
      <4>2. QED BY <2>1, <4>1
    <3>4. QED BY <3>1, <3>2, <3>3
  <2>5. QED BY <1>3, <2>1, <2>3, <2>4
<1>9. \A o \in Requests : New(tx[o])'
  <2>1. ASSUME NEW o \in Requests
        PROVE  New(tx[o])'
    <3>1. CASE o = p
      BY <1>1, <1>2, <3>1 DEF New
    <3>2. CASE o # p
      BY <1>1, <1>8, <2>1, <3>2 DEF New
    <3>3. QED BY <3>1, <3>2
  <2>2. QED BY <2>1
<1>10. ASSUME NEW o \in Requests, NEW q \in Requests, o # q, tx'[o].op \in Issuers, tx'[q].op \in Issuers
       PROVE  tx'[o].new # tx'[q].new
  <2>1. o # p /\ q # p
    BY <1>1, <1>2, <1>10
  <2>2. QED BY <1>1, <1>10, <2>1 DEF FreshInv
<1>11. QED BY <1>1, <1>4, <1>7, <1>9, <1>10 DEF FreshInv

LEMMA CommitKeeps ==
  ASSUME UsersInv, NEW p \in Requests, CommitTx(p)
  PROVE  UsersInv'
<1>1. DbInv' /\ SpentInv' /\ FreshInv'
  BY CommitDb, CommitSpent, CommitFresh
<1>2. MailInv'
  <2>1. MailInv /\ UNCHANGED post /\ (mails' = mails \/ mails' = Append(mails, Unsent))
    BY DEF UsersInv, CommitTx
  <2>2. CASE mails' = mails
    BY <2>1, <2>2, MailSame DEF mailVars
  <2>3. CASE mails' = Append(mails, Unsent)
    BY <2>1, <2>3, EnqueueStep
  <2>4. QED BY <2>1, <2>2, <2>3
<1>3. DOMAIN tx' = Requests /\ tx'[p] = NoTx /\ \A o \in Requests \ {p} : tx'[o] = tx[o]
  BY CommitFacts
<1>4. ASSUME NEW o \in Requests
      PROVE  TxInv(tx[o])'
  <2>1. CASE o = p
    <3>1. /\ tx'[o] = NoTx /\ NoTx.op = None /\ NoTx.todo = <<>> /\ DOMAIN NoTx.draft = {} /\ ~NoTx.shared
          /\ NoTx.reply.kind = None /\ TxTyped(NoTx)
      BY <1>3, <2>1, NothingYet DEF TxInv
    <3>2. TxTyped(tx[o])'
      BY <3>1
    <3>3. DraftInv(tx[o])' /\ ReplyInv(tx[o])'
      BY <3>1 DEF DraftInv, ReplyInv
    <3>4. PlaceInv(tx[o])'
      BY <3>1 DEF PlaceInv, None
    <3>5. QED BY <3>2, <3>3, <3>4 DEF TxInv
  <2>2. CASE o # p
    BY <2>2, CommitOthers
  <2>3. QED BY <2>1, <2>2
<1>5. \A o, q \in Requests : o # q => Apart(tx[o], tx[q])'
  <2>1. ASSUME NEW o \in Requests, NEW q \in Requests, o # q
        PROVE  Apart(tx'[o], tx'[q])
    <3>1. DOMAIN NoTx.draft = {} /\ ~NoTx.shared
      BY NothingYet
    <3>2. CASE o = p \/ q = p
      BY <1>3, <2>1, <3>1, <3>2 DEF Apart
    <3>3. CASE o # p /\ q # p
      BY <1>3, <2>1, <3>3 DEF UsersInv, LockInv
    <3>4. QED BY <3>2, <3>3
  <2>2. QED BY <2>1 DEF Apart
<1>6. QED BY <1>1, <1>2, <1>3, <1>4, <1>5 DEF UsersInv, LockInv

LEMMA UsersInit ==
  ASSUME Init
  PROVE  UsersInv
<1>1. /\ scene \in Scenes /\ MailInit
      /\ db = [policy |-> scene.policy, user |-> [exists |-> scene.exists, disabled |-> FALSE, hash |-> 0],
               token |-> Blank, code |-> Blank, grant |-> Blank, sends |-> 0]
      /\ age = [recent |-> FALSE, late |-> FALSE]
      /\ tx = [p \in Requests |-> NoTx]
      /\ begun = 0 /\ issued = 0 /\ expired = {}
      /\ spent = [i \in Ids |-> [wrong |-> 0, right |-> 0]]
  BY DEF Init
<1>2. scene \in Scene /\ scene.policy \in BOOLEAN /\ scene.exists \in BOOLEAN
  BY <1>1, ScenesAssumption DEF Scene
<1>3. MaxOps \in Nat /\ MaxGuesses \in Nat /\ MaxGuesses >= 1 /\ MaxSends \in Nat /\ 0 \in Ids
  BY Constants DEF Ids
<1>4. MailInv
  <2>1. mails = <<>> /\ post = [w \in Posters |-> Resting]
    BY <1>1 DEF MailInit
  <2>2. mails \in Seq(MailRow) /\ DOMAIN mails = {}
    BY <2>1
  <2>3. WorkInv
    BY <2>1 DEF WorkInv, Resting
  <2>4. CountInv
    BY <2>2 DEF CountInv
  <2>5. QED BY <2>2, <2>3, <2>4 DEF MailInv
<1>5. Blank \in OpenCode /\ Blank.id = 0 /\ Blank.used = TRUE /\ Blank.tries = 0
  BY <1>3 DEF Blank, OpenCode, CodeRow
<1>6. /\ DOMAIN db = Rows /\ db["policy"] = scene.policy
      /\ db["user"] = [exists |-> scene.exists, disabled |-> FALSE, hash |-> 0]
      /\ db["token"] = Blank /\ db["code"] = Blank /\ db["grant"] = Blank /\ db["sends"] = 0
  BY <1>1 DEF Rows
<1>7. RowsTyped(db)
  <2>1. db["user"] \in UserRow
    BY <1>2, <1>6 DEF UserRow
  <2>2. ASSUME NEW row \in Rows
        PROVE  Fits(row, db[row])
    <3>1. CASE row = "policy"
      BY <1>2, <1>6, <3>1 DEF Fits
    <3>2. CASE row = "user"
      BY <2>1, <3>2 DEF Fits
    <3>3. CASE row \in {"token", "code", "grant"}
      BY <1>5, <1>6, <3>3 DEF Fits
    <3>4. CASE row = "sends"
      BY <1>3, <1>6, <3>4 DEF Fits
    <3>5. QED BY <3>1, <3>2, <3>3, <3>4 DEF Rows
  <2>3. QED BY <1>6, <2>2 DEF RowsTyped
<1>8. DbInv
  BY <1>1, <1>2, <1>5, <1>6, <1>7 DEF DbInv
<1>9. LockInv
  <2>1. \A p \in Requests : tx[p] = NoTx
    BY <1>1
  <2>2. \A p \in Requests : TxInv(tx[p])
    BY <2>1, NothingYet
  <2>3. \A p, o \in Requests : p # o => Apart(tx[p], tx[o])
    BY <2>1, NothingYet DEF Apart
  <2>4. QED BY <1>1, <2>2, <2>3 DEF LockInv
<1>10. \A i \in Ids : spent[i] = Zero
  BY <1>1 DEF Zero
<1>11. FreshInv
  <2>1. \A p \in Requests : tx[p] = NoTx /\ New(tx[p]) /\ tx[p].op \notin Issuers
    BY <1>1, NothingYet DEF Issuers, None
  <2>2. QED BY <1>1, <1>3, <1>5, <1>6, <1>10, <2>1 DEF FreshInv
<1>12. SpentInv
  <2>1. Zero \in [wrong : 0 .. MaxGuesses, right : {0, 1}] /\ Zero.wrong = 0 /\ Zero.right = 0
    BY <1>3 DEF Zero
  <2>2. spent \in [Ids -> [wrong : 0 .. MaxGuesses, right : {0, 1}]]
    BY <1>1, <2>1 DEF Zero
  <2>3. QED BY <1>3, <1>5, <1>6, <1>10, <2>1, <2>2 DEF SpentInv, Counted
<1>13. QED BY <1>4, <1>8, <1>9, <1>11, <1>12 DEF UsersInv

LEMMA UsersStep ==
  ASSUME UsersInv, [Next]_vars
  PROVE  UsersInv'
<1>1. ASSUME NEW p \in Requests, Begin(p) \/ Execute(p) \/ CommitTx(p) \/ Victim(p)
      PROVE  UsersInv'
  BY <1>1, BeginKeeps, ExecuteKeeps, CommitKeeps, VictimKeeps
<1>2. CASE Expire
  BY <1>2, ExpireKeeps
<1>3. ASSUME NEW w \in Posters, Deliver(w) \/ (Drop(w) /\ UNCHANGED users)
      PROVE  UsersInv'
  <2>1. MailInv /\ UNCHANGED users /\ (Claim(w) \/ Send(w) \/ Mark(w) \/ Delay(w) \/ Drop(w))
    BY <1>3 DEF UsersInv, Deliver
  <2>2. MailInv'
    BY <2>1, ClaimStep, OutcomeStep
  <2>3. QED BY <2>1, <2>2, UsersSame
<1>4. ASSUME NEW m \in 1 .. MaxOps, Wait(m)
      PROVE  UsersInv'
  <2>1. MailInv /\ UNCHANGED users /\ TimePasses(m)
    BY <1>4 DEF UsersInv, Wait
  <2>2. MailInv'
    BY <2>1, TimeStep
  <2>3. QED BY <2>1, <2>2, UsersSame
<1>5. CASE UNCHANGED vars
  <2>1. MailInv /\ UNCHANGED users /\ UNCHANGED mailVars
    BY <1>5 DEF UsersInv, vars, users, mailVars
  <2>2. MailInv'
    BY <2>1, MailSame
  <2>3. QED BY <2>1, <2>2, UsersSame
<1>6. QED BY <1>1, <1>2, <1>3, <1>4, <1>5 DEF Next, Ask

-----------------------------------------------------------------------------
(* The theorems.                                                            *)

\* In every reachable state, the mails, the rows, the locks and the guesses
\* are as the invariant says.
THEOREM UsersInductive == Spec => []UsersInv
<1>1. Init => UsersInv
  BY UsersInit
<1>2. UsersInv /\ [Next]_vars => UsersInv'
  BY UsersStep
<1>3. QED BY <1>1, <1>2, PTL DEF Spec

\* Every row stays in its range: no code is tried, and no hour has codes sent,
\* more often than it may be, and no more is issued than was asked for.
THEOREM TypeCorrect == Spec => []TypeOK
<1>1. UsersInv => TypeOK
  <2>1. SUFFICES ASSUME UsersInv
                 PROVE  TypeOK
    OBVIOUS
  <2>2. MailType
    BY <2>1, MailGives DEF UsersInv
  <2>3. DbInv /\ DOMAIN db = Rows /\ \A row \in Rows : Fits(row, db[row])
    BY <2>1 DEF UsersInv, DbInv, RowsTyped
  <2>4. /\ db["policy"] \in BOOLEAN /\ db["user"] \in UserRow /\ db["token"] \in OpenCode /\ db["code"] \in OpenCode
        /\ db["grant"] \in OpenCode /\ db["sends"] \in 0 .. MaxSends
    BY <2>3 DEF Fits, Rows
  <2>5. {db.token, db.code, db.grant} \subseteq CodeRow
    BY <2>4 DEF OpenCode
  <2>6. \A p \in Requests : DOMAIN tx[p].draft \subseteq DOMAIN db
    BY <2>1, <2>3, TypedTx DEF UsersInv, LockInv, RowsTyped
  <2>7. begun \in 0 .. MaxOps /\ issued \in Ids
    BY <2>1, Constants DEF UsersInv, FreshInv, Ids
  <2>8. age \in [recent : BOOLEAN, late : BOOLEAN] /\ expired \subseteq Ids
    BY <2>3 DEF DbInv
  <2>9. QED BY <2>2, <2>4, <2>5, <2>6, <2>7, <2>8 DEF TypeOK, UserRow
<1>2. QED BY <1>1, UsersInductive, PTL

\* Guesses, new codes and other requests may overlap in any way: a code is
\* never answered "wrong" more often than it may be, and takes effect once.
THEOREM CodeBudgetTheorem == Spec => []CodeBudget
<1>1. UsersInv => CodeBudget
  <2>1. SUFFICES ASSUME UsersInv, NEW i \in Ids
                 PROVE  spent[i].wrong <= MaxGuesses /\ spent[i].right <= 1
    BY DEF CodeBudget
  <2>2. spent[i] \in [wrong : 0 .. MaxGuesses, right : {0, 1}]
    BY <2>1 DEF UsersInv, SpentInv
  <2>3. QED BY <2>2, Constants
<1>2. QED BY <1>1, UsersInductive, PTL

\* However many processes run the queue, every delivery beyond the first goes
\* back to a process that died or to a lost reply.
THEOREM MailOnceTheorem == Spec => []MailOnce
<1>1. UsersInv => MailOnce
  BY MailGives DEF UsersInv
<1>2. QED BY <1>1, UsersInductive, PTL

\* The user appears by a registration that the policy let through, or that
\* was told that its code is right.
LEMMA Registered ==
  ASSUME UsersInv, [Next]_vars, ~db.user.exists, db'.user.exists
  PROVE  ~db.policy \/ Proven
<1>1. PICK p \in Requests : CommitTx(p)
  BY DEF Next, Ask, Begin, Execute, Victim, Expire, Deliver, Wait, users, vars
<1>2. TxInv(tx[p]) /\ db'["user"] = Latest(tx[p].draft, "user")
  BY <1>1, CommitFacts DEF Rows
<1>3. "user" \in DOMAIN tx[p].draft /\ tx[p].draft["user"].exists
  BY <1>2 DEF Latest
<1>4. Allowed(tx[p])
  BY <1>2, <1>3 DEF TxInv, PlaceInv
<1>5. CASE ~db["policy"]
  BY <1>5
<1>6. CASE tx[p].reply.kind = "right" /\ tx[p].reply.id = db["grant"].id
  <2>1. tx[p].reply \in [id : Ids, kind : {None, "wrong", "right"}]
    BY <1>2, TypedTx
  <2>2. tx[p].reply = [id |-> db.grant.id, kind |-> "right"]
    BY <1>6, <2>1
  <2>3. QED BY <2>2 DEF Proven
<1>7. QED BY <1>4, <1>5, <1>6 DEF Allowed

\* A registration that began before the administrator asked for codes does
\* not slip through, whatever runs beside it.
THEOREM ProvenRegistrationTheorem == Spec => ProvenRegistration
<1>1. UsersInv /\ [Next]_vars => [~db.user.exists /\ db'.user.exists => ~db.policy \/ Proven]_vars
  BY Registered
<1>2. QED BY <1>1, UsersInductive, PTL DEF Spec, ProvenRegistration

=============================================================================
