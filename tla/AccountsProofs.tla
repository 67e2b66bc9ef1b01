--------------------------- MODULE AccountsProofs ---------------------------
(***************************************************************************)
(* Proofs about platform accounts, as they are used in Access: for any     *)
(* services, users, identities and scenes, sign-ins keep their order, an   *)
(* identity is private or shared, a session ends once, and an account is   *)
(* found invalid only for the cookie that was refused.                     *)
(***************************************************************************)
EXTENDS BrokerProofs

-----------------------------------------------------------------------------
(* The inductive invariants.                                                *)

\* Operations that have drawn a turn and are not over.
HasTurn(f) == signer[f].op \in {"connect", "qr", "disconnect"} /\ signer[f].pc \notin {"idle", "login"}

\* Whose operations are ordered with each other.
SamePlace(f, g) == signer[f].svc = signer[g].svc /\ place(f) = place(g)

\* No two operations have the same turn, none that is not over counts as ended,
\* and who holds the mutex has the latest.
TurnInv ==
  /\ \A s \in Services, p \in Owners \X Roles : ended[s][p] <= turn[s][p]
  /\ \A f \in Signers : HasTurn(f) =>
       /\ signer[f].turn <= turn[signer[f].svc][place(f)]
       /\ signer[f].turn # ended[signer[f].svc][place(f)]
  /\ \A f, g \in Signers : HasTurn(f) /\ HasTurn(g) /\ SamePlace(f, g) /\ f # g =>
       signer[f].turn # signer[g].turn
  /\ \A f \in Signers : signer[f].pc \in {"locks", "write"} /\ HasTurn(f) =>
       signer[f].turn = turn[signer[f].svc][place(f)]

\* All that there is of an identity is shared, or nothing of it is.
AllShared(i) == \A a \in Table : a[2] = i /\ rows[a].role # "absent" => rows[a].role = "shared"
NoneShared(i) == \A a \in Table : a[2] = i => rows[a].role # "shared"

\* What an operation that writes relies on.
Relied(f) == IF signer[f].op \in {"save", "check"} THEN AllShared(signer[f].id) ELSE NoneShared(signer[f].id)

\* What a transaction has found holds until it is over: its identity is locked.
LockInv ==
  /\ \A f, g \in Signers : signer[f].pc = "write" /\ signer[g].pc = "write" /\ f # g =>
       signer[f].id # signer[g].id
  /\ \A f \in Signers : signer[f].pc = "write" => Relied(f)

\* A request holds the cookie of the revision it asked for.
UseInv ==
  \A c \in Callers :
    LET row == rows[AccountOf[c]] IN
    /\ use[c].want <= row.rev
    /\ use[c].pc \in {"auth", "ready", "blame"} /\ use[c].want = row.rev => use[c].cookie = row.cookie

\* An operation that is at work is one of the five; only a sign-out drops.
Shaped(f) ==
  /\ signer[f].op = "none" <=> signer[f].pc = "idle"
  /\ signer[f].op = "disconnect" <=> signer[f].pc = "drop"

ShapeInv == \A f \in Signers : Shaped(f)

AccountsInv ==
  /\ AccountsTypeOK /\ ShapeInv /\ TurnInv /\ LockInv
  /\ PrivateXorShared /\ OneActiveSession /\ UseInv

-----------------------------------------------------------------------------
(* Operations, field by field.                                              *)

SignerOK == signer \in [Signers -> Signer]

\* What an operation is and where it is, whatever its session says.
Kept(g) ==
  /\ signer'[g].op = signer[g].op /\ signer'[g].pc = signer[g].pc
  /\ signer'[g].svc = signer[g].svc /\ signer'[g].owner = signer[g].owner
  /\ signer'[g].role = signer[g].role /\ signer'[g].id = signer[g].id
  /\ signer'[g].turn = signer[g].turn

\* A session is told something: what no longer is active was, or was before.
Told(g) == signer'[g].status = signer[g].status \/ signer[g].status \in Active

Others(f) == \A g \in Signers \ {f} : signer'[g] = signer[g]

Pcs == {"idle", "login", "auth", "mutex", "locks", "write", "drop"}
Statuses == Active \union {"none", "connected", "expired", "cancelled", "error"}

LEMMA SignerFields ==
  ASSUME SignerOK, NEW f \in Signers
  PROVE  /\ signer[f] \in Signer
         /\ signer[f].op \in {"none", "connect", "qr", "save", "check", "disconnect"}
         /\ signer[f].pc \in Pcs /\ signer[f].svc \in Services /\ signer[f].owner \in Owners
         /\ signer[f].role \in Roles /\ signer[f].id \in Ids /\ signer[f].turn \in Nat
         /\ signer[f].cookie \in 0 .. MaxOps + 1 /\ signer[f].status \in Statuses
         /\ place(f) \in Owners \X Roles
BY DEF SignerOK, Signer, Pcs, Statuses, place

LEMMA ActiveMembers ==
  /\ Active = {"starting", "waiting_scan"} /\ Roles = {"primary", "test"}
  /\ "cancelled" \notin Active /\ "none" \notin Active
BY DEF Active, Roles

LEMMA AccountsConstants ==
  /\ Broking \in Services /\ Admins \subseteq Owners /\ MaxOps \in Nat
  /\ Owners # {} /\ Ids # {} /\ AccountOf \in [Callers -> Table]
BY AccountsAssumption DEF Table

LEMMA UpdateStep ==
  ASSUME SignerOK, NEW f \in Signers, NEW next \in Signer, signer' = [signer EXCEPT ![f] = next]
  PROVE  SignerOK' /\ Others(f) /\ signer'[f] = next
BY DEF SignerOK, Others

LEMMA OverFields ==
  ASSUME SignerOK, NEW f \in Signers, NEW status \in Statuses
  PROVE  /\ Over(f, status) \in Signer
         /\ Over(f, status).op = "none" /\ Over(f, status).pc = "idle"
         /\ Over(f, status).svc = signer[f].svc /\ Over(f, status).owner = signer[f].owner
         /\ Over(f, status).role = signer[f].role /\ Over(f, status).id = signer[f].id
         /\ Over(f, status).turn = 0
         /\ \/ Over(f, status).status = signer[f].status
            \/ Over(f, status).status = status /\ signer[f].status \in Active
<1>1. signer[f] \in Signer /\ signer[f].status \in Statuses /\ 0 \in 0 .. MaxOps + 1
  BY SignerFields, AccountsConstants
<1>2. /\ Finished(f, status) \in Statuses
      /\ \/ Finished(f, status) = signer[f].status
         \/ Finished(f, status) = status /\ signer[f].status \in Active
  BY <1>1 DEF Finished
<1>3. Over(f, status) = [signer[f] EXCEPT !.op = "none", !.pc = "idle", !.turn = 0, !.cookie = 0,
                                          !.status = Finished(f, status)]
  BY DEF Over
<1>4. Over(f, status) \in Signer
  <2> DEFINE y == Finished(f, status)
             z == [signer[f] EXCEPT !.op = "none", !.pc = "idle", !.turn = 0, !.cookie = 0]
  <2>1. y \in Statuses
    BY <1>2
  <2>2. Over(f, status) = [z EXCEPT !.status = y]
    BY <1>3
  <2>3. z \in Signer
    BY <1>1 DEF Signer
  <2> HIDE DEF y, z
  <2>4. QED BY <2>1, <2>2, <2>3 DEF Signer, Statuses
<1> DEFINE x == Finished(f, status)
<1> HIDE DEF x
<1>5. Over(f, status) = [signer[f] EXCEPT !.op = "none", !.pc = "idle", !.turn = 0, !.cookie = 0, !.status = x]
  BY <1>3 DEF x
<1>6. /\ Over(f, status).op = "none" /\ Over(f, status).pc = "idle"
      /\ Over(f, status).svc = signer[f].svc /\ Over(f, status).owner = signer[f].owner
      /\ Over(f, status).role = signer[f].role /\ Over(f, status).id = signer[f].id
      /\ Over(f, status).turn = 0 /\ Over(f, status).status = x
  BY <1>1, <1>5 DEF Signer
<1>7. QED BY <1>2, <1>4, <1>6 DEF x

LEMMA FreshFields ==
  ASSUME SignerOK, NEW f \in Signers, NEW s \in Services, NEW o \in Owners, NEW r \in Roles,
         NEW op \in {"none", "connect", "qr", "save", "check", "disconnect"}, NEW pc \in Pcs
  PROVE  /\ Fresh(f, op, pc, s, o, r) \in Signer
         /\ Fresh(f, op, pc, s, o, r).op = op /\ Fresh(f, op, pc, s, o, r).pc = pc
         /\ Fresh(f, op, pc, s, o, r).svc = s /\ Fresh(f, op, pc, s, o, r).owner = o
         /\ Fresh(f, op, pc, s, o, r).role = r /\ Fresh(f, op, pc, s, o, r).status = "none"
<1>1. signer[f] \in Signer
  BY SignerFields
<1>2. QED BY <1>1 DEF Fresh, Signer, Pcs

-----------------------------------------------------------------------------
(* What each action does to the operations.                                 *)

\* A new operation of f, for which nothing is held yet.
Begins(f, op, pc, s, o, r) ==
  /\ SignerOK' /\ signer[f].pc = "idle" /\ ops' \in 0 .. MaxOps
  /\ signer'[f].op = op /\ signer'[f].pc = pc
  /\ signer'[f].svc = s /\ signer'[f].owner = o /\ signer'[f].role = r

\* f draws the next turn of its place while nobody holds the mutex there.
Draws(f) ==
  LET s == signer'[f].svc p == <<signer'[f].owner, signer'[f].role>> IN
  /\ TakeTurn(s, p)
  /\ signer'[f].turn = turn'[s][p]

LEMMA BeginStep ==
  ASSUME AccountsTypeOK, NEW f \in Signers, Begin(f)
  PROVE  signer[f].pc = "idle" /\ ops' \in 0 .. MaxOps /\ ops' \in 0 .. MaxOps + 1
BY AccountsConstants DEF Begin, AccountsTypeOK

\* One place of a table of numbers is set.
LEMMA SetAt ==
  ASSUME NEW S, NEW P, NEW t \in [S -> [P -> Nat]], NEW s \in S, NEW p \in P, NEW n \in Nat, NEW u,
         u = [t EXCEPT ![s] = [t[s] EXCEPT ![p] = n]]
  PROVE  /\ u \in [S -> [P -> Nat]] /\ u[s][p] = n
         /\ \A z \in S, q \in P : z # s \/ q # p => u[z][q] = t[z][q]
<1> DEFINE row == [t[s] EXCEPT ![p] = n]
<1>1. row \in [P -> Nat] /\ row[p] = n /\ \A q \in P : q # p => row[q] = t[s][q]
  OBVIOUS
<1>2. u = [t EXCEPT ![s] = row]
  OBVIOUS
<1> HIDE DEF row
<1>3. u \in [S -> [P -> Nat]] /\ u[s] = row /\ \A z \in S : z # s => u[z] = t[z]
  BY <1>1, <1>2
<1>4. QED BY <1>1, <1>3

LEMMA TakeTurnStep ==
  ASSUME AccountsTypeOK, NEW s \in Services, NEW p \in Owners \X Roles, TakeTurn(s, p)
  PROVE  /\ turn' \in [Services -> [Owners \X Roles -> Nat]]
         /\ turn'[s][p] = turn[s][p] + 1 /\ turn'[s][p] \in Nat
         /\ \A z \in Services, q \in Owners \X Roles : z # s \/ q # p => turn'[z][q] = turn[z][q]
<1> DEFINE P == Owners \X Roles
<1>1. /\ turn \in [Services -> [P -> Nat]] /\ p \in P
      /\ turn' = [turn EXCEPT ![s] = [turn[s] EXCEPT ![p] = turn[s][p] + 1]]
  BY DEF AccountsTypeOK, TakeTurn
<1> HIDE DEF P
<1>2. turn[s][p] \in Nat /\ turn[s][p] + 1 \in Nat
  BY <1>1
<1>3. /\ turn' \in [Services -> [P -> Nat]] /\ turn'[s][p] = turn[s][p] + 1
      /\ \A z \in Services, q \in P : z # s \/ q # p => turn'[z][q] = turn[z][q]
  BY <1>1, <1>2, SetAt
<1>4. QED BY <1>2, <1>3 DEF P

LEMMA ConnectStep ==
  ASSUME AccountsTypeOK, NEW f \in Signers, NEW s \in Services, NEW o \in Owners, NEW r \in Roles,
         Connect(f, s, o, r)
  PROVE  /\ Begins(f, "connect", "auth", s, o, r) /\ Others(f) /\ Draws(f)
         /\ signer'[f].status = "none" /\ UNCHANGED <<rows, ended, known, use>>
<1>1. SignerOK /\ signer[f].pc = "idle" /\ ops' \in 0 .. MaxOps /\ ops' \in 0 .. MaxOps + 1
  BY BeginStep DEF Connect, AccountsTypeOK, SignerOK
<1>2. TakeTurn(s, <<o, r>>) /\ turn'[s][<<o, r>>] \in Nat
  BY TakeTurnStep DEF Connect
<1> DEFINE n == Fresh(f, "connect", "auth", s, o, r)
           next == [n EXCEPT !.turn = turn'[s][<<o, r>>], !.cookie = ops']
<1>3. /\ n \in Signer /\ n.op = "connect" /\ n.pc = "auth" /\ n.svc = s /\ n.owner = o
      /\ n.role = r /\ n.status = "none"
  BY <1>1, FreshFields DEF Pcs
<1>4. signer' = [signer EXCEPT ![f] = next]
  BY DEF Connect
<1> HIDE DEF n
<1>5. /\ next \in Signer /\ next.op = "connect" /\ next.pc = "auth" /\ next.svc = s /\ next.owner = o
      /\ next.role = r /\ next.status = "none" /\ next.turn = turn'[s][<<o, r>>]
  BY <1>1, <1>2, <1>3 DEF Signer
<1> HIDE DEF next
<1>6. SignerOK' /\ Others(f) /\ signer'[f] = next
  BY <1>1, <1>4, <1>5, UpdateStep
<1>7. QED BY <1>1, <1>2, <1>5, <1>6 DEF Connect, Begins, Draws

LEMMA DisconnectStep ==
  ASSUME AccountsTypeOK, NEW f \in Signers, NEW s \in Services, NEW o \in Owners, NEW r \in Roles,
         Disconnect(f, s, o, r)
  PROVE  /\ Begins(f, "disconnect", "drop", s, o, r) /\ Others(f) /\ Draws(f)
         /\ signer'[f].status = "none" /\ UNCHANGED <<rows, ended, known, use>>
<1>1. SignerOK /\ signer[f].pc = "idle" /\ ops' \in 0 .. MaxOps
  BY BeginStep DEF Disconnect, AccountsTypeOK, SignerOK
<1>2. TakeTurn(s, <<o, r>>) /\ turn'[s][<<o, r>>] \in Nat
  BY TakeTurnStep DEF Disconnect
<1> DEFINE n == Fresh(f, "disconnect", "drop", s, o, r)
           next == [n EXCEPT !.turn = turn'[s][<<o, r>>]]
<1>3. /\ n \in Signer /\ n.op = "disconnect" /\ n.pc = "drop" /\ n.svc = s /\ n.owner = o
      /\ n.role = r /\ n.status = "none"
  BY <1>1, FreshFields DEF Pcs
<1>4. signer' = [signer EXCEPT ![f] = next]
  BY DEF Disconnect
<1> HIDE DEF n
<1>5. /\ next \in Signer /\ next.op = "disconnect" /\ next.pc = "drop" /\ next.svc = s /\ next.owner = o
      /\ next.role = r /\ next.status = "none" /\ next.turn = turn'[s][<<o, r>>]
  BY <1>2, <1>3 DEF Signer
<1> HIDE DEF next
<1>6. SignerOK' /\ Others(f) /\ signer'[f] = next
  BY <1>1, <1>4, <1>5, UpdateStep
<1>7. QED BY <1>1, <1>2, <1>5, <1>6 DEF Disconnect, Begins, Draws

LEMMA CollectorStep ==
  ASSUME AccountsTypeOK, NEW f \in Signers, NEW s \in Services, NEW o \in Owners,
         SaveCollector(f, s, o) \/ \E a \in Table : CheckCollector(f, s, o, a)
  PROVE  /\ Begins(f, signer'[f].op, "auth", s, o, "test") /\ signer'[f].op \in {"save", "check"}
         /\ Others(f)
         /\ signer'[f].status = "none" /\ UNCHANGED <<rows, turn, ended, known, use>>
<1>1. SignerOK /\ "test" \in Roles /\ "auth" \in Pcs
  BY ActiveMembers DEF AccountsTypeOK, SignerOK, Pcs
<1>2. CASE SaveCollector(f, s, o)
  <2>1. signer[f].pc = "idle" /\ ops' \in 0 .. MaxOps /\ ops' \in 0 .. MaxOps + 1
    BY <1>2, BeginStep DEF SaveCollector
  <2> DEFINE n == Fresh(f, "save", "auth", s, o, "test")
             next == [n EXCEPT !.cookie = ops']
  <2>2. /\ n \in Signer /\ n.op = "save" /\ n.pc = "auth" /\ n.svc = s /\ n.owner = o
        /\ n.role = "test" /\ n.status = "none"
    BY <1>1, FreshFields
  <2>3. signer' = [signer EXCEPT ![f] = next]
    BY <1>2 DEF SaveCollector
  <2> HIDE DEF n
  <2>4. /\ next \in Signer /\ next.op = "save" /\ next.pc = "auth" /\ next.svc = s /\ next.owner = o
        /\ next.role = "test" /\ next.status = "none"
    BY <2>1, <2>2 DEF Signer
  <2> HIDE DEF next
  <2>5. SignerOK' /\ Others(f) /\ signer'[f] = next
    BY <1>1, <2>3, <2>4, UpdateStep
  <2>6. QED BY <1>2, <2>1, <2>4, <2>5 DEF SaveCollector, Begins
<1>3. CASE \E a \in Table : CheckCollector(f, s, o, a)
  <2>1. PICK a \in Table : CheckCollector(f, s, o, a)
    BY <1>3
  <2>2. signer[f].pc = "idle" /\ ops' \in 0 .. MaxOps /\ a[2] \in Ids /\ rows[a].cookie \in 0 .. MaxOps + 1
    BY <2>1, BeginStep DEF CheckCollector, AccountsTypeOK, Row, Table
  <2> DEFINE n == Fresh(f, "check", "auth", s, o, "test")
             next == [n EXCEPT !.id = a[2], !.cookie = rows[a].cookie]
  <2>3. /\ n \in Signer /\ n.op = "check" /\ n.pc = "auth" /\ n.svc = s /\ n.owner = o
        /\ n.role = "test" /\ n.status = "none"
    BY <1>1, FreshFields
  <2>4. signer' = [signer EXCEPT ![f] = next]
    BY <2>1 DEF CheckCollector
  <2> HIDE DEF n
  <2>5. /\ next \in Signer /\ next.op = "check" /\ next.pc = "auth" /\ next.svc = s /\ next.owner = o
        /\ next.role = "test" /\ next.status = "none"
    BY <2>2, <2>3 DEF Signer
  <2> HIDE DEF next
  <2>6. SignerOK' /\ Others(f) /\ signer'[f] = next
    BY <1>1, <2>4, <2>5, UpdateStep
  <2>7. QED BY <2>1, <2>2, <2>5, <2>6 DEF CheckCollector, Begins
<1>4. QED BY <1>2, <1>3

LEMMA StartStep ==
  ASSUME AccountsTypeOK, NEW f \in Signers, NEW s \in Services, NEW o \in Owners, NEW r \in Roles,
         Start(f, s, o, r)
  PROVE  /\ Begins(f, "qr", "login", s, o, r) /\ signer'[f].status = "starting"
         /\ \A g \in Signers \ {f} :
              /\ Kept(g)
              /\ IF Superseded(g, s, o, r) THEN signer'[g].status = "cancelled"
                 ELSE signer'[g].status = signer[g].status
         /\ UNCHANGED <<rows, turn, ended, known, use>>
<1>1. SignerOK /\ signer[f].pc = "idle" /\ ops' \in 0 .. MaxOps
  BY BeginStep DEF Start, AccountsTypeOK, SignerOK
<1> DEFINE n == Fresh(f, "qr", "login", s, o, r)
           next == [n EXCEPT !.status = "starting"]
<1>2. /\ n \in Signer /\ n.op = "qr" /\ n.pc = "login" /\ n.svc = s /\ n.owner = o /\ n.role = r
  BY <1>1, FreshFields DEF Pcs
<1>3. signer' = [g \in Signers |->
         IF g = f THEN next
         ELSE IF Superseded(g, s, o, r) THEN [signer[g] EXCEPT !.status = "cancelled"] ELSE signer[g]]
  BY DEF Start
<1> HIDE DEF n
<1>4. /\ next \in Signer /\ next.op = "qr" /\ next.pc = "login" /\ next.svc = s /\ next.owner = o
      /\ next.role = r /\ next.status = "starting"
  BY <1>2, ActiveMembers DEF Signer
<1> HIDE DEF next
<1>5. ASSUME NEW g \in Signers
      PROVE  /\ [signer[g] EXCEPT !.status = "cancelled"] \in Signer /\ signer[g] \in Signer
             /\ g # f /\ signer'[g] = [signer[g] EXCEPT !.status = "cancelled"] =>
                  Kept(g) /\ signer'[g].status = "cancelled"
  BY <1>1, SignerFields DEF Signer, Kept
<1>6. SignerOK'
  BY <1>3, <1>4, <1>5 DEF SignerOK
<1>7. ASSUME NEW g \in Signers \ {f}
      PROVE  /\ Kept(g)
             /\ IF Superseded(g, s, o, r) THEN signer'[g].status = "cancelled"
                ELSE signer'[g].status = signer[g].status
  BY <1>3, <1>5 DEF Kept
<1>8. QED BY <1>1, <1>3, <1>4, <1>6, <1>7 DEF Start, Begins

\* Sessions are told something and nothing else happens.
Tells ==
  /\ SignerOK' /\ UNCHANGED <<rows, turn, ended, known, use, ops>>
  /\ \A g \in Signers : Kept(g) /\ Told(g)

LEMMA TellStep ==
  ASSUME AccountsTypeOK,
         \/ \E f \in Signers : ShowQR(f) \/ CancelSession(f)
         \/ \E s \in Services : CloseSessions(s)
  PROVE  Tells
<1>1. SignerOK
  BY DEF AccountsTypeOK, SignerOK
<1>2. ASSUME NEW g \in Signers, NEW status \in Statuses
      PROVE  /\ [signer[g] EXCEPT !.status = status] \in Signer
             /\ signer'[g] = [signer[g] EXCEPT !.status = status] => Kept(g)
  BY <1>1, SignerFields DEF Signer, Statuses, Kept
<1>3. ASSUME NEW f \in Signers, ShowQR(f) \/ CancelSession(f)
      PROVE  Tells
  <2>1. PICK status \in Statuses : signer' = [signer EXCEPT ![f].status = status]
    BY <1>3 DEF ShowQR, CancelSession, Statuses, Active
  <2>2. signer' = [signer EXCEPT ![f] = [signer[f] EXCEPT !.status = status]]
    BY <2>1
  <2>3. SignerOK' /\ Others(f) /\ signer'[f] = [signer[f] EXCEPT !.status = status]
    BY <1>1, <1>2, <2>2, UpdateStep
  <2>4. signer[f].status \in Active
    BY <1>3 DEF ShowQR, CancelSession, Active
  <2>5. \A g \in Signers : Kept(g) /\ Told(g)
    BY <1>2, <2>3, <2>4 DEF Others, Kept, Told
  <2>6. QED BY <1>3, <2>3, <2>5 DEF Tells, ShowQR, CancelSession
<1>4. ASSUME NEW s \in Services, CloseSessions(s)
      PROVE  Tells
  <2>1. signer' = [f \in Signers |->
          IF signer[f].svc = s /\ signer[f].status \in Active
          THEN [signer[f] EXCEPT !.status = "cancelled"] ELSE signer[f]]
    BY <1>4 DEF CloseSessions
  <2>2. \A g \in Signers : signer[g] \in Signer
    BY <1>1, SignerFields
  <2>3. "cancelled" \in Statuses
    BY DEF Statuses
  <2>4. SignerOK'
    BY <1>2, <2>1, <2>2, <2>3 DEF SignerOK
  <2>5. \A g \in Signers : Kept(g) /\ Told(g)
    BY <1>2, <2>1, <2>3 DEF Kept, Told
  <2>6. QED BY <1>4, <2>4, <2>5 DEF Tells, CloseSessions
<1>5. QED BY <1>3, <1>4

\* An operation goes on: it stays what it is, in another place.
Moves(f, pc) ==
  /\ SignerOK' /\ Others(f)
  /\ signer'[f].pc = pc /\ signer'[f].op = signer[f].op /\ signer'[f].svc = signer[f].svc
  /\ signer'[f].owner = signer[f].owner /\ signer'[f].role = signer[f].role
  /\ signer'[f].status = signer[f].status

LEMMA MoveOnStep ==
  ASSUME SignerOK, NEW f \in Signers, NEW pc \in Pcs, signer' = [signer EXCEPT ![f].pc = pc]
  PROVE  Moves(f, pc) /\ signer'[f].id = signer[f].id /\ signer'[f].turn = signer[f].turn
<1> DEFINE next == [signer[f] EXCEPT !.pc = pc]
<1>1. /\ next \in Signer /\ next.pc = pc /\ next.op = signer[f].op /\ next.svc = signer[f].svc
      /\ next.owner = signer[f].owner /\ next.role = signer[f].role
      /\ next.status = signer[f].status /\ next.id = signer[f].id /\ next.turn = signer[f].turn
  BY SignerFields DEF Signer, Pcs
<1>2. signer' = [signer EXCEPT ![f] = next]
  OBVIOUS
<1> HIDE DEF next
<1>3. SignerOK' /\ Others(f) /\ signer'[f] = next
  BY <1>1, <1>2, UpdateStep
<1>4. QED BY <1>1, <1>3 DEF Moves

LEMMA AuthenticatedStep ==
  ASSUME SignerOK, NEW f \in Signers, NEW i \in Ids,
         signer' = [signer EXCEPT ![f].pc = "mutex", ![f].id = i]
  PROVE  Moves(f, "mutex") /\ signer'[f].turn = signer[f].turn
<1> DEFINE next == [signer[f] EXCEPT !.pc = "mutex", !.id = i]
<1>1. /\ next \in Signer /\ next.pc = "mutex" /\ next.op = signer[f].op /\ next.svc = signer[f].svc
      /\ next.owner = signer[f].owner /\ next.role = signer[f].role
      /\ next.status = signer[f].status /\ next.turn = signer[f].turn
  BY SignerFields DEF Signer
<1>2. signer' = [signer EXCEPT ![f] = next]
  OBVIOUS
<1> HIDE DEF next
<1>3. SignerOK' /\ Others(f) /\ signer'[f] = next
  BY <1>1, <1>2, UpdateStep
<1>4. QED BY <1>1, <1>3 DEF Moves

LEMMA LoginDoneStep ==
  ASSUME AccountsTypeOK, NEW f \in Signers, LoginDone(f)
  PROVE  Moves(f, "auth") /\ Draws(f) /\ UNCHANGED <<rows, ended, known, use, ops>>
<1>1. SignerOK /\ ops \in 0 .. MaxOps + 1 /\ MaxOps \in Nat
  BY AccountsConstants DEF AccountsTypeOK, SignerOK
<1>2. TakeTurn(signer[f].svc, place(f)) /\ turn'[signer[f].svc][place(f)] \in Nat
  BY <1>1, SignerFields, TakeTurnStep DEF LoginDone
<1> DEFINE n == turn'[signer[f].svc][place(f)]
           next == [signer[f] EXCEPT !.pc = "auth", !.cookie = ops, !.turn = n]
<1>3. signer' = [signer EXCEPT ![f] = next]
  BY DEF LoginDone
<1>4. n \in Nat
  BY <1>2
<1> HIDE DEF n
<1>5. /\ next \in Signer /\ next.pc = "auth" /\ next.op = signer[f].op /\ next.svc = signer[f].svc
      /\ next.owner = signer[f].owner /\ next.role = signer[f].role
      /\ next.status = signer[f].status /\ next.turn = n
  BY <1>1, <1>4, SignerFields DEF Signer
<1> HIDE DEF next
<1>6. SignerOK' /\ Others(f) /\ signer'[f] = next
  BY <1>1, <1>3, <1>5, UpdateStep
<1>7. Draws(f)
  BY <1>2, <1>5, <1>6 DEF Draws, n, place
<1>8. QED BY <1>5, <1>6, <1>7 DEF Moves, LoginDone

\* An operation ends; of a session that is active, its owner may be told.
Ends(f) ==
  /\ SignerOK' /\ Others(f)
  /\ signer'[f].pc = "idle" /\ signer'[f].op = "none" /\ signer'[f].svc = signer[f].svc
  /\ signer'[f].owner = signer[f].owner /\ signer'[f].role = signer[f].role
  /\ Told(f)

LEMMA EndStep ==
  ASSUME SignerOK, NEW f \in Signers, NEW status \in Statuses,
         signer' = [signer EXCEPT ![f] = Over(f, status)]
  PROVE  Ends(f)
<1> DEFINE next == Over(f, status)
<1>1. /\ next \in Signer /\ next.op = "none" /\ next.pc = "idle" /\ next.svc = signer[f].svc
      /\ next.owner = signer[f].owner /\ next.role = signer[f].role
      /\ next.status = signer[f].status \/ signer[f].status \in Active
  BY OverFields
<1>2. signer' = [signer EXCEPT ![f] = next]
  OBVIOUS
<1> HIDE DEF next
<1>3. SignerOK' /\ Others(f) /\ signer'[f] = next
  BY <1>1, <1>2, UpdateStep
<1>4. QED BY <1>1, <1>3 DEF Ends, Told

LEMMA RefuseStep ==
  ASSUME SignerOK, NEW f \in Signers, Refuse(f)
  PROVE  Ends(f)
BY EndStep DEF Refuse, RefusedOver, Statuses

-----------------------------------------------------------------------------
(* The invariants, one kind of change at a time.                            *)

\* An operation keeps its turn or no longer has one; who holds the mutex then
\* has the latest.
TurnStays(g) == HasTurn(g)' =>
  /\ HasTurn(g) /\ signer'[g].turn = signer[g].turn
  /\ signer'[g].svc = signer[g].svc /\ place(g)' = place(g)
  /\ signer[g].turn # ended'[signer[g].svc][place(g)]
  /\ signer'[g].pc \in {"locks", "write"} => signer[g].turn = turn[signer[g].svc][place(g)]

LEMMA TurnKept ==
  ASSUME TurnInv, UNCHANGED turn, \A g \in Signers : TurnStays(g),
         \A s \in Services, p \in Owners \X Roles : ended'[s][p] <= turn[s][p]
  PROVE  TurnInv'
<1>1. ASSUME NEW g \in Signers, HasTurn(g)'
      PROVE  /\ signer'[g].turn <= turn'[signer'[g].svc][place(g)']
             /\ signer'[g].turn # ended'[signer'[g].svc][place(g)']
             /\ signer'[g].pc \in {"locks", "write"} => signer'[g].turn = turn'[signer'[g].svc][place(g)']
  BY <1>1 DEF TurnInv, TurnStays
<1>2. ASSUME NEW g \in Signers, NEW h \in Signers, HasTurn(g)', HasTurn(h)', SamePlace(g, h)', g # h
      PROVE  signer'[g].turn # signer'[h].turn
  <2>1. /\ HasTurn(g) /\ HasTurn(h) /\ SamePlace(g, h)
        /\ signer'[g].turn = signer[g].turn /\ signer'[h].turn = signer[h].turn
    BY <1>2 DEF TurnStays, SamePlace
  <2>2. QED BY <1>2, <2>1 DEF TurnInv
<1>3. \A s \in Services, p \in Owners \X Roles : ended'[s][p] <= turn'[s][p]
  OBVIOUS
<1> HIDE DEF HasTurn, place, SamePlace
<1>4. QED BY <1>1, <1>2, <1>3 DEF TurnInv

\* What an operation is does not depend on what its session says.
LEMMA KeptStays ==
  ASSUME TurnInv, UNCHANGED <<turn, ended>>, NEW g \in Signers, Kept(g)
  PROVE  TurnStays(g)
<1>1. place(g)' = place(g)
  BY DEF Kept, place
<1>2. HasTurn(g)' => HasTurn(g)
  BY DEF Kept, HasTurn
<1>3. QED BY <1>1, <1>2 DEF TurnInv, TurnStays, Kept

LEMMA OthersKept ==
  ASSUME NEW f \in Signers, Others(f), NEW g \in Signers \ {f}
  PROVE  Kept(g) /\ signer'[g].status = signer[g].status
BY DEF Others, Kept

\* f draws a turn: it is the latest, and nobody who holds the mutex is there.
LEMMA TurnDrawn ==
  ASSUME AccountsTypeOK, TurnInv, NEW f \in Signers, SignerOK', Draws(f), UNCHANGED ended,
         signer'[f].pc \notin {"locks", "write"}, \A g \in Signers \ {f} : Kept(g)
  PROVE  TurnInv' /\ turn' \in [Services -> [Owners \X Roles -> Nat]]
<1> DEFINE s == signer'[f].svc
           p == <<signer'[f].owner, signer'[f].role>>
<1>1. s \in Services /\ p \in Owners \X Roles /\ place(f)' = p
  BY DEF SignerOK, Signer, place
<1>2. TakeTurn(s, p) /\ signer'[f].turn = turn'[s][p]
  BY DEF Draws
<1>3. /\ turn' \in [Services -> [Owners \X Roles -> Nat]]
      /\ turn'[s][p] = turn[s][p] + 1
      /\ \A z \in Services, q \in Owners \X Roles : z # s \/ q # p => turn'[z][q] = turn[z][q]
  BY <1>1, <1>2, TakeTurnStep
<1>4. \A z \in Services, q \in Owners \X Roles :
        turn[z][q] \in Nat /\ ended[z][q] \in Nat /\ ended[z][q] <= turn[z][q]
  BY DEF AccountsTypeOK, TurnInv
<1> HIDE DEF s
<1>5. ASSUME NEW g \in Signers \ {f}, HasTurn(g)'
      PROVE  /\ HasTurn(g) /\ signer'[g].turn = signer[g].turn /\ signer[g].turn \in Nat
             /\ signer'[g].svc = signer[g].svc /\ place(g)' = place(g) /\ signer'[g].pc = signer[g].pc
             /\ signer[g].svc \in Services /\ place(g) \in Owners \X Roles
             /\ signer[g].turn <= turn[signer[g].svc][place(g)]
  <2>1. HasTurn(g) /\ place(g)' = place(g)
    BY <1>5 DEF Kept, HasTurn, place
  <2>2. signer[g].turn \in Nat /\ signer[g].svc \in Services /\ place(g) \in Owners \X Roles
    BY SignerFields DEF AccountsTypeOK, SignerOK
  <2>3. QED BY <2>1, <2>2 DEF TurnInv, Kept
<1>6. \A z \in Services, q \in Owners \X Roles : ended'[z][q] <= turn'[z][q] /\ turn[z][q] <= turn'[z][q]
  <2>1. ASSUME NEW z \in Services, NEW q \in Owners \X Roles
        PROVE  ended'[z][q] <= turn'[z][q] /\ turn[z][q] <= turn'[z][q]
    <3>1. CASE z = s /\ q = p
      BY <1>3, <1>4, <3>1
    <3>2. CASE z # s \/ q # p
      BY <1>3, <1>4, <3>2
    <3>3. QED BY <3>1, <3>2
  <2>2. QED BY <2>1
<1>7. ASSUME NEW g \in Signers, HasTurn(g)'
      PROVE  /\ signer'[g].turn <= turn'[signer'[g].svc][place(g)']
             /\ signer'[g].turn # ended'[signer'[g].svc][place(g)']
             /\ signer'[g].pc \in {"locks", "write"} => signer'[g].turn = turn'[signer'[g].svc][place(g)']
  <2>1. CASE g = f
    <3>1. signer'[f].turn = turn[s][p] + 1 /\ ended'[s][p] = ended[s][p]
      BY <1>2, <1>3
    <3>2. turn[s][p] \in Nat /\ ended[s][p] \in Nat /\ ended[s][p] <= turn[s][p]
      BY <1>1, <1>4
    <3>3. /\ signer'[f].turn <= turn'[s][p] /\ signer'[f].turn # ended'[s][p]
      BY <1>2, <1>3, <3>1, <3>2
    <3>4. signer'[f].svc = s /\ place(f)' = p
      BY <1>1 DEF s
    <3>5. QED BY <2>1, <3>3, <3>4
  <2>2. CASE g # f
    <3>1. /\ HasTurn(g) /\ signer'[g].turn = signer[g].turn /\ signer[g].turn \in Nat
          /\ signer'[g].svc = signer[g].svc /\ place(g)' = place(g) /\ signer'[g].pc = signer[g].pc
          /\ signer[g].svc \in Services /\ place(g) \in Owners \X Roles
          /\ signer[g].turn <= turn[signer[g].svc][place(g)]
      BY <1>5, <1>7, <2>2
    <3>2. signer[g].turn <= turn'[signer[g].svc][place(g)]
      BY <1>3, <1>4, <1>6, <3>1
    <3>3. signer[g].turn # ended[signer[g].svc][place(g)]
      BY <3>1 DEF TurnInv
    <3>4. signer[g].pc \in {"locks", "write"} => signer[g].turn = turn'[signer[g].svc][place(g)]
      <4>1. SUFFICES ASSUME signer[g].pc \in {"locks", "write"}
                     PROVE  signer[g].turn = turn'[signer[g].svc][place(g)]
        OBVIOUS
      <4>2. signer[g].svc # s
        BY <1>2, <4>1 DEF TakeTurn, MutexFree
      <4>3. turn'[signer[g].svc][place(g)] = turn[signer[g].svc][place(g)]
        BY <1>3, <3>1, <4>2
      <4>4. QED BY <3>1, <4>1, <4>3 DEF TurnInv
    <3>5. QED BY <3>1, <3>2, <3>3, <3>4
  <2>3. QED BY <2>1, <2>2
<1>8. ASSUME NEW g \in Signers \ {f}, HasTurn(f)', HasTurn(g)', SamePlace(f, g)'
      PROVE  signer'[g].turn # signer'[f].turn
  <2>1. /\ signer'[g].turn = signer[g].turn /\ signer[g].turn \in Nat
        /\ signer[g].svc = s /\ place(g) = p /\ signer[g].turn <= turn[signer[g].svc][place(g)]
    BY <1>1, <1>5, <1>8 DEF SamePlace, s
  <2>2. signer'[f].turn = turn[s][p] + 1 /\ turn[s][p] \in Nat
    BY <1>1, <1>2, <1>3, <1>4
  <2>3. QED BY <2>1, <2>2
<1>9. ASSUME NEW g \in Signers, NEW h \in Signers, HasTurn(g)', HasTurn(h)', SamePlace(g, h)', g # h
      PROVE  signer'[g].turn # signer'[h].turn
  <2>1. CASE g = f
    BY <1>8, <1>9, <2>1
  <2>2. CASE h = f
    <3>1. SamePlace(h, g)'
      BY <1>9 DEF SamePlace
    <3>2. QED BY <1>8, <1>9, <2>2, <3>1
  <2>3. CASE g # f /\ h # f
    <3>1. /\ HasTurn(g) /\ HasTurn(h) /\ SamePlace(g, h)
          /\ signer'[g].turn = signer[g].turn /\ signer'[h].turn = signer[h].turn
      BY <1>5, <1>9, <2>3 DEF SamePlace
    <3>2. QED BY <1>9, <3>1 DEF TurnInv
  <2>4. QED BY <2>1, <2>2, <2>3
<1>10. QED BY <1>3, <1>6, <1>7, <1>9 DEF TurnInv

\* A row stays what it is: none, private, or shared.
SameKind(a) ==
  /\ rows'[a].role = "absent" <=> rows[a].role = "absent"
  /\ rows'[a].role = "shared" <=> rows[a].role = "shared"

\* No operation comes to write.
LockStays(g) ==
  signer'[g].pc = "write" =>
    signer[g].pc = "write" /\ signer'[g].op = signer[g].op /\ signer'[g].id = signer[g].id

LEMMA LockKept ==
  ASSUME LockInv, PrivateXorShared, \A a \in Table : SameKind(a), \A g \in Signers : LockStays(g)
  PROVE  LockInv' /\ PrivateXorShared'
<1>1. PrivateXorShared'
  BY DEF PrivateXorShared, SameKind
<1>2. ASSUME NEW f \in Signers, NEW g \in Signers,
             signer'[f].pc = "write", signer'[g].pc = "write", f # g
      PROVE  signer'[f].id # signer'[g].id
  BY <1>2 DEF LockStays, LockInv
<1>3. ASSUME NEW f \in Signers, signer'[f].pc = "write"
      PROVE  Relied(f)'
  <2>1. signer[f].pc = "write" /\ signer'[f].op = signer[f].op /\ signer'[f].id = signer[f].id
    BY <1>3 DEF LockStays
  <2>2. Relied(f)
    BY <2>1 DEF LockInv
  <2>3. QED BY <2>1, <2>2 DEF Relied, AllShared, NoneShared, SameKind
<1> HIDE DEF Relied
<1>4. QED BY <1>1, <1>2, <1>3 DEF LockInv

\* f has its locks and finds the identity to be what it may write.
LEMMA LockTaken ==
  ASSUME LockInv, PrivateXorShared, UNCHANGED rows, NEW f \in Signers, Moves(f, "write"),
         signer'[f].id = signer[f].id, signer[f].pc # "write", Admissible(f),
         \A g \in Signers \ {f} : signer[g].pc = "write" => Unlocked(f, g)
  PROVE  LockInv' /\ PrivateXorShared'
<1>1. PrivateXorShared'
  BY DEF PrivateXorShared
<1>2. ASSUME NEW g \in Signers \ {f}, signer'[g].pc = "write"
      PROVE  /\ signer[g].pc = "write" /\ signer'[g].op = signer[g].op /\ signer'[g].id = signer[g].id
             /\ signer[g].id # signer'[f].id
  BY <1>2 DEF Moves, Others, Unlocked
<1>3. ASSUME NEW h \in Signers, NEW g \in Signers,
             signer'[h].pc = "write", signer'[g].pc = "write", h # g
      PROVE  signer'[h].id # signer'[g].id
  <2>1. CASE h = f
    BY <1>2, <1>3, <2>1
  <2>2. CASE g = f
    BY <1>2, <1>3, <2>2
  <2>3. CASE h # f /\ g # f
    BY <1>2, <1>3, <2>3 DEF LockInv
  <2>4. QED BY <2>1, <2>2, <2>3
<1>4. ASSUME NEW g \in Signers, signer'[g].pc = "write"
      PROVE  Relied(g)'
  <2>1. CASE g = f
    <3>1. signer'[f].op = signer[f].op
      BY DEF Moves
    <3>2. Relied(f)
      BY DEF Admissible, Relied, AllShared, NoneShared
    <3>3. QED BY <2>1, <3>1, <3>2 DEF Relied, AllShared, NoneShared
  <2>2. CASE g # f
    <3>1. signer'[g].id = signer[g].id /\ signer'[g].op = signer[g].op /\ signer[g].pc = "write"
      BY <1>2, <1>4, <2>2
    <3>2. Relied(g)
      BY <3>1 DEF LockInv
    <3>3. QED BY <3>1, <3>2 DEF Relied, AllShared, NoneShared
  <2>3. QED BY <2>1, <2>2
<1> HIDE DEF Relied
<1>5. QED BY <1>1, <1>3, <1>4 DEF LockInv

\* f wrote under its locks: nothing of other identities, and of its own what
\* it found to be admissible.
LEMMA LockWritten ==
  ASSUME LockInv, PrivateXorShared, NEW f \in Signers, signer[f].pc = "write", Ends(f), NEW place1,
         \A a \in Table : a[2] # signer[f].id => SameKind(a),
         IF signer[f].op \in {"save", "check"}
         THEN \A a \in Table : a[2] = signer[f].id /\ rows'[a].role # "absent" => a = place1
         ELSE \A a \in Table : a[2] = signer[f].id => rows'[a].role # "shared"
  PROVE  LockInv' /\ PrivateXorShared'
<1>1. ASSUME NEW a \in Table, NEW b \in Table, a # b, a[2] = b[2],
             rows'[a].role # "absent", rows'[b].role # "absent"
      PROVE  rows'[a].role # "shared"
  <2>1. CASE a[2] # signer[f].id
    BY <1>1, <2>1 DEF PrivateXorShared, SameKind
  <2>2. CASE a[2] = signer[f].id
    BY <1>1, <2>2
  <2>3. QED BY <2>1, <2>2
<1>2. PrivateXorShared'
  BY <1>1 DEF PrivateXorShared
<1>3. ASSUME NEW g \in Signers, signer'[g].pc = "write"
      PROVE  /\ g # f /\ signer[g].pc = "write" /\ signer'[g].op = signer[g].op
             /\ signer'[g].id = signer[g].id /\ signer[g].id # signer[f].id
  BY <1>3 DEF Ends, Others, LockInv
<1>4. ASSUME NEW g \in Signers, signer'[g].pc = "write"
      PROVE  Relied(g)'
  <2>1. /\ signer[g].pc = "write" /\ signer'[g].op = signer[g].op /\ signer'[g].id = signer[g].id
        /\ signer[g].id # signer[f].id
    BY <1>3, <1>4
  <2>2. \A a \in Table : a[2] = signer[g].id => SameKind(a)
    BY <2>1
  <2>3. Relied(g)
    BY <2>1 DEF LockInv
  <2>4. QED BY <2>1, <2>2, <2>3 DEF Relied, AllShared, NoneShared, SameKind
<1>5. \A g, h \in Signers : signer'[g].pc = "write" /\ signer'[h].pc = "write" /\ g # h =>
        signer'[g].id # signer'[h].id
  BY <1>3 DEF LockInv
<1> HIDE DEF Relied
<1>6. QED BY <1>2, <1>4, <1>5 DEF LockInv

\* No session begins to be waited for.
ActiveStays(g) ==
  signer'[g].status \in Active =>
    /\ signer[g].status \in Active /\ signer'[g].svc = signer[g].svc
    /\ signer'[g].owner = signer[g].owner /\ signer'[g].role = signer[g].role

LEMMA ActiveKept ==
  ASSUME OneActiveSession, \A g \in Signers : ActiveStays(g)
  PROVE  OneActiveSession'
<1> HIDE DEF Active
<1>1. ASSUME NEW f \in Signers, NEW g \in Signers, f # g,
             signer'[f].status \in Active, signer'[g].status \in Active
      PROVE  signer'[f].svc # signer'[g].svc \/ place(f)' # place(g)'
  BY <1>1 DEF ActiveStays, OneActiveSession, place
<1>2. QED BY <1>1 DEF OneActiveSession

\* A row that gets another cookie gets a higher revision.
RowsGrow == \A a \in Table :
  /\ rows'[a].rev >= rows[a].rev
  /\ rows'[a].rev = rows[a].rev => rows'[a].cookie = rows[a].cookie

Holding == {"auth", "ready", "blame"}

\* A request keeps what it holds, or holds nothing any more.
UseStays(c) ==
  /\ use'[c].want = use[c].want
  /\ use'[c].pc \in Holding => use[c].pc \in Holding /\ use'[c].cookie = use[c].cookie

\* A request gets the cookie and the revision as they are.
UseTaken(c) ==
  /\ UNCHANGED rows /\ use'[c].want <= rows[AccountOf[c]].rev
  /\ use'[c].pc \in Holding => use'[c].cookie = rows[AccountOf[c]].cookie

LEMMA UseKept ==
  ASSUME AccountsTypeOK, UseInv, AccountsTypeOK', RowsGrow, \A c \in Callers : UseStays(c) \/ UseTaken(c)
  PROVE  UseInv'
<1>1. ASSUME NEW c \in Callers
      PROVE  /\ use'[c].want <= rows'[AccountOf[c]].rev
             /\ use'[c].pc \in Holding /\ use'[c].want = rows'[AccountOf[c]].rev =>
                  use'[c].cookie = rows'[AccountOf[c]].cookie
  <2> DEFINE a == AccountOf[c]
  <2>1. a \in Table
    BY AccountsConstants
  <2>2. rows[a].rev \in Nat /\ rows'[a].rev \in Nat /\ use[c].want \in Nat /\ use'[c].want \in Nat
    BY <2>1 DEF AccountsTypeOK, Row, Use
  <2>3. /\ rows'[a].rev >= rows[a].rev
        /\ rows'[a].rev = rows[a].rev => rows'[a].cookie = rows[a].cookie
    BY <2>1 DEF RowsGrow
  <2>4. /\ use[c].want <= rows[a].rev
        /\ use[c].pc \in Holding /\ use[c].want = rows[a].rev => use[c].cookie = rows[a].cookie
    BY DEF UseInv, Holding
  <2> HIDE DEF a, Holding
  <2>5. CASE UseStays(c)
    <3>1. use'[c].want = use[c].want /\ use'[c].want <= rows'[a].rev
      BY <2>2, <2>3, <2>4, <2>5 DEF UseStays
    <3>2. use'[c].want = rows'[a].rev => use[c].want = rows[a].rev /\ rows'[a].rev = rows[a].rev
      BY <2>2, <2>3, <2>4, <3>1
    <3>3. QED BY <2>3, <2>4, <2>5, <3>1, <3>2 DEF UseStays, a
  <2>6. CASE UseTaken(c)
    BY <2>2, <2>3, <2>6 DEF UseTaken, a
  <2>7. QED BY <2>5, <2>6 DEF a
<1>2. QED BY <1>1 DEF UseInv, Holding

-----------------------------------------------------------------------------
(* Every action keeps the invariant: what only operations are about.        *)

\* Nothing that becomes of g is in the way of the invariants.
Harmless(g) == TurnStays(g) /\ LockStays(g) /\ ActiveStays(g) /\ Shaped(g)'

LEMMA KeptHarmless ==
  ASSUME TurnInv, ShapeInv, UNCHANGED <<turn, ended>>, NEW g \in Signers, Kept(g), Told(g)
  PROVE  Harmless(g)
<1>1. TurnStays(g)
  BY KeptStays
<1>2. LockStays(g) /\ ActiveStays(g)
  BY DEF Kept, Told, LockStays, ActiveStays
<1>3. Shaped(g)'
  BY DEF Kept, ShapeInv, Shaped
<1>4. QED BY <1>1, <1>2, <1>3 DEF Harmless

LEMMA EndsHarmless ==
  ASSUME NEW f \in Signers, Ends(f)
  PROVE  Harmless(f)
<1>1. TurnStays(f) /\ LockStays(f)
  BY DEF Ends, TurnStays, HasTurn, LockStays
<1>2. ActiveStays(f)
  BY DEF Ends, Told, ActiveStays
<1>3. Shaped(f)'
  BY DEF Ends, Shaped
<1>4. QED BY <1>1, <1>2, <1>3 DEF Harmless

LEMMA SignersKeep ==
  ASSUME AccountsInv, SignerOK', ops' \in 0 .. MaxOps, UNCHANGED <<rows, turn, ended, known, use>>,
         \A g \in Signers : Harmless(g)
  PROVE  AccountsInv'
<1>1. AccountsTypeOK'
  BY DEF AccountsInv, AccountsTypeOK, SignerOK
<1>2. \A s \in Services, p \in Owners \X Roles : ended'[s][p] <= turn[s][p]
  BY DEF AccountsInv, TurnInv
<1>3. TurnInv'
  BY <1>2, TurnKept DEF AccountsInv, Harmless
<1>4. LockInv' /\ PrivateXorShared'
  <2>1. \A a \in Table : SameKind(a)
    BY DEF SameKind
  <2>2. QED BY <2>1, LockKept DEF AccountsInv, Harmless
<1>5. OneActiveSession'
  BY ActiveKept DEF AccountsInv, Harmless
<1>6. UseInv'
  BY DEF AccountsInv, UseInv
<1>7. ShapeInv'
  BY DEF ShapeInv, Harmless
<1>8. QED BY <1>1, <1>3, <1>4, <1>5, <1>6, <1>7 DEF AccountsInv

LEMMA OneSignerKeeps ==
  ASSUME AccountsInv, NEW f \in Signers, SignerOK', Others(f), Harmless(f), ops' \in 0 .. MaxOps,
         UNCHANGED <<rows, turn, ended, known, use>>
  PROVE  AccountsInv'
<1>1. \A g \in Signers \ {f} : Harmless(g)
  BY OthersKept, KeptHarmless DEF AccountsInv, Told
<1>2. \A g \in Signers : Harmless(g)
  BY <1>1
<1>3. QED BY <1>2, SignersKeep

\* A turn is drawn, by an operation that begins or a login that is done.
LEMMA DrawnKeeps ==
  ASSUME AccountsInv, NEW f \in Signers, SignerOK', Others(f), Draws(f), ops' \in 0 .. MaxOps,
         signer'[f].pc \in {"auth", "drop"}, ActiveStays(f), Shaped(f)',
         UNCHANGED <<rows, ended, known, use>>
  PROVE  AccountsInv'
<1>1. \A g \in Signers \ {f} : Kept(g) /\ signer'[g].status = signer[g].status
  BY OthersKept
<1>2. TurnInv' /\ turn' \in [Services -> [Owners \X Roles -> Nat]]
  BY <1>1, TurnDrawn DEF AccountsInv
<1>3. AccountsTypeOK'
  BY <1>2 DEF AccountsInv, AccountsTypeOK, SignerOK
<1>4. LockInv' /\ PrivateXorShared'
  <2>1. \A a \in Table : SameKind(a)
    BY DEF SameKind
  <2>2. \A g \in Signers : LockStays(g)
    BY <1>1 DEF LockStays, Kept
  <2>3. QED BY <2>1, <2>2, LockKept DEF AccountsInv
<1>5. OneActiveSession'
  <2>1. \A g \in Signers : ActiveStays(g)
    BY <1>1 DEF ActiveStays, Kept
  <2>2. QED BY <2>1, ActiveKept DEF AccountsInv
<1>6. UseInv'
  BY DEF AccountsInv, UseInv
<1>7. ShapeInv'
  <2>1. \A g \in Signers \ {f} : Shaped(g)'
    BY <1>1 DEF AccountsInv, ShapeInv, Shaped, Kept
  <2>2. QED BY <2>1 DEF ShapeInv
<1>8. QED BY <1>2, <1>3, <1>4, <1>5, <1>6, <1>7 DEF AccountsInv

LEMMA BeginsKeep ==
  ASSUME AccountsInv, NEW f \in Signers, NEW s \in Services, NEW o \in Owners, NEW r \in Roles,
         \/ Connect(f, s, o, r) \/ Disconnect(f, s, o, r)
         \/ SaveCollector(f, s, o) \/ \E a \in Table : CheckCollector(f, s, o, a)
  PROVE  AccountsInv'
<1>1. AccountsTypeOK /\ "none" \notin Active
  BY ActiveMembers DEF AccountsInv
<1>2. CASE Connect(f, s, o, r) \/ Disconnect(f, s, o, r)
  <2>1. /\ SignerOK' /\ Others(f) /\ Draws(f) /\ ops' \in 0 .. MaxOps
        /\ signer'[f].status = "none" /\ UNCHANGED <<rows, ended, known, use>>
        /\ \/ signer'[f].pc = "auth" /\ signer'[f].op = "connect"
           \/ signer'[f].pc = "drop" /\ signer'[f].op = "disconnect"
    BY <1>1, <1>2, ConnectStep, DisconnectStep DEF Begins
  <2>2. ActiveStays(f) /\ Shaped(f)' /\ signer'[f].pc \in {"auth", "drop"}
    BY <1>1, <2>1 DEF ActiveStays, Shaped
  <2>3. QED BY <2>1, <2>2, DrawnKeeps
<1>3. CASE SaveCollector(f, s, o) \/ \E a \in Table : CheckCollector(f, s, o, a)
  <2>1. /\ SignerOK' /\ Others(f) /\ ops' \in 0 .. MaxOps
        /\ signer'[f].status = "none" /\ UNCHANGED <<rows, turn, ended, known, use>>
        /\ signer'[f].pc = "auth" /\ signer'[f].op \in {"save", "check"}
    BY <1>1, <1>3, CollectorStep DEF Begins
  <2>2. Harmless(f)
    BY <1>1, <2>1 DEF Harmless, TurnStays, HasTurn, LockStays, ActiveStays, Shaped
  <2>3. QED BY <2>1, <2>2, OneSignerKeeps
<1>4. QED BY <1>2, <1>3

LEMMA StartKeeps ==
  ASSUME AccountsInv, NEW f \in Signers, NEW s \in Services, NEW o \in Owners, NEW r \in Roles,
         Start(f, s, o, r)
  PROVE  AccountsInv'
<1>1. /\ Begins(f, "qr", "login", s, o, r)
      /\ \A g \in Signers \ {f} :
           /\ Kept(g)
           /\ IF Superseded(g, s, o, r) THEN signer'[g].status = "cancelled"
              ELSE signer'[g].status = signer[g].status
      /\ UNCHANGED <<rows, turn, ended, known, use>>
  BY StartStep DEF AccountsInv
<1>2. AccountsTypeOK'
  BY <1>1 DEF AccountsInv, AccountsTypeOK, Begins, SignerOK
<1>3. "cancelled" \notin Active
  BY ActiveMembers
<1>4. ASSUME NEW g \in Signers \ {f}
      PROVE  /\ TurnStays(g) /\ LockStays(g) /\ Shaped(g)' /\ ActiveStays(g)
             /\ signer'[g].status \in Active => ~Superseded(g, s, o, r)
  <2>1. Kept(g) /\ (signer'[g].status \in Active => ~Superseded(g, s, o, r) /\ signer'[g].status = signer[g].status)
    BY <1>1, <1>3
  <2>2. TurnStays(g)
    BY <1>1, <2>1, KeptStays DEF AccountsInv
  <2>3. LockStays(g) /\ Shaped(g)' /\ ActiveStays(g)
    BY <2>1 DEF AccountsInv, ShapeInv, Shaped, Kept, LockStays, ActiveStays
  <2>4. QED BY <2>1, <2>2, <2>3
<1>5. TurnStays(f) /\ LockStays(f) /\ Shaped(f)'
  BY <1>1 DEF Begins, TurnStays, HasTurn, LockStays, Shaped
<1>6. TurnInv'
  <2>1. \A z \in Services, p \in Owners \X Roles : ended'[z][p] <= turn[z][p]
    BY <1>1 DEF AccountsInv, TurnInv
  <2>2. \A g \in Signers : TurnStays(g)
    BY <1>4, <1>5
  <2>3. QED BY <1>1, <2>1, <2>2, TurnKept DEF AccountsInv
<1>7. LockInv' /\ PrivateXorShared'
  <2>1. \A a \in Table : SameKind(a)
    BY <1>1 DEF SameKind
  <2>2. \A g \in Signers : LockStays(g)
    BY <1>4, <1>5
  <2>3. QED BY <2>1, <2>2, LockKept DEF AccountsInv
<1>8. OneActiveSession'
  <2>1. ASSUME NEW g \in Signers \ {f}, signer'[g].status \in Active
        PROVE  signer'[g].svc # s \/ signer'[g].owner # o \/ signer'[g].role # r
    BY <1>4, <2>1 DEF Superseded, ActiveStays
  <2>2. signer'[f].svc = s /\ signer'[f].owner = o /\ signer'[f].role = r
    BY <1>1 DEF Begins
  <2> HIDE DEF Active
  <2>3. ASSUME NEW g \in Signers, NEW h \in Signers, g # h,
               signer'[g].status \in Active, signer'[h].status \in Active
        PROVE  signer'[g].svc # signer'[h].svc \/ place(g)' # place(h)'
    <3>1. CASE g = f
      BY <2>1, <2>2, <2>3, <3>1 DEF place
    <3>2. CASE h = f
      BY <2>1, <2>2, <2>3, <3>2 DEF place
    <3>3. CASE g # f /\ h # f
      <4>1. ActiveStays(g) /\ ActiveStays(h)
        BY <1>4, <3>3
      <4>2. QED BY <2>3, <4>1 DEF ActiveStays, AccountsInv, OneActiveSession, place
    <3>4. QED BY <3>1, <3>2, <3>3
  <2>4. QED BY <2>3 DEF OneActiveSession
<1>9. UseInv'
  BY <1>1 DEF AccountsInv, UseInv
<1>10. ShapeInv'
  BY <1>4, <1>5 DEF ShapeInv
<1>11. QED BY <1>2, <1>6, <1>7, <1>8, <1>9, <1>10 DEF AccountsInv

LEMMA TellKeeps ==
  ASSUME AccountsInv, Tells
  PROVE  AccountsInv'
<1>1. SignerOK' /\ UNCHANGED <<rows, turn, ended, known, use, ops>> /\ \A g \in Signers : Kept(g) /\ Told(g)
  BY DEF Tells
<1>2. \A g \in Signers : Harmless(g)
  BY <1>1, KeptHarmless DEF AccountsInv
<1>3. ops' \in 0 .. MaxOps
  BY <1>1 DEF AccountsInv, AccountsTypeOK
<1>4. QED BY <1>1, <1>2, <1>3, SignersKeep

LEMMA EndsKeep ==
  ASSUME AccountsInv, NEW f \in Signers, Ends(f), UNCHANGED <<rows, turn, ended, known, use, ops>>
  PROVE  AccountsInv'
<1>1. SignerOK' /\ Others(f) /\ Harmless(f) /\ ops' \in 0 .. MaxOps
  BY EndsHarmless DEF Ends, AccountsInv, AccountsTypeOK
<1>2. QED BY <1>1, OneSignerKeeps

LEMMA LoginKeeps ==
  ASSUME AccountsInv, NEW f \in Signers, LoginDone(f) \/ LoginFails(f)
  PROVE  AccountsInv'
<1>1. AccountsTypeOK /\ SignerOK /\ Shaped(f)
  BY DEF AccountsInv, AccountsTypeOK, SignerOK, ShapeInv
<1>2. CASE LoginDone(f)
  <2>1. Moves(f, "auth") /\ Draws(f) /\ UNCHANGED <<rows, ended, known, use, ops>>
    BY <1>1, <1>2, LoginDoneStep
  <2>2. SignerOK' /\ Others(f) /\ signer'[f].pc \in {"auth", "drop"} /\ ActiveStays(f) /\ Shaped(f)'
    BY <1>1, <1>2, <2>1 DEF Moves, ActiveStays, Shaped, LoginDone
  <2>3. ops' \in 0 .. MaxOps
    BY <1>1, <2>1 DEF AccountsTypeOK
  <2>4. QED BY <2>1, <2>2, <2>3, DrawnKeeps
<1>3. CASE LoginFails(f)
  <2>1. Ends(f)
    BY <1>1, <1>3, EndStep DEF LoginFails, Statuses
  <2>2. QED BY <1>3, <2>1, EndsKeep DEF LoginFails
<1>4. QED BY <1>2, <1>3

\* A sign-in goes on to the mutex and under it: it keeps its turn.
LEMMA MovesKeep ==
  ASSUME AccountsInv, NEW f \in Signers, NEW pc \in {"mutex", "locks"}, Moves(f, pc),
         signer[f].pc \in {"auth", "mutex"}, signer'[f].turn = signer[f].turn,
         pc = "locks" => InTurn(f), UNCHANGED <<rows, turn, ended, known, use, ops>>
  PROVE  AccountsInv'
<1>1. ops' \in 0 .. MaxOps /\ Shaped(f)
  BY DEF AccountsInv, AccountsTypeOK, ShapeInv
<1>2. place(f)' = place(f) /\ HasTurn(f) = (signer[f].op \in {"connect", "qr", "disconnect"})
  BY DEF Moves, place, HasTurn
<1>3. TurnStays(f)
  <2>1. SUFFICES ASSUME HasTurn(f)'
                 PROVE  /\ HasTurn(f)
                        /\ signer[f].turn # ended'[signer[f].svc][place(f)]
                        /\ signer'[f].pc \in {"locks", "write"} =>
                             signer[f].turn = turn[signer[f].svc][place(f)]
    BY <1>2 DEF TurnStays, Moves
  <2>2. HasTurn(f)
    BY <2>1 DEF HasTurn, Moves
  <2>3. signer[f].turn # ended[signer[f].svc][place(f)]
    BY <2>2 DEF AccountsInv, TurnInv
  <2>4. ASSUME signer'[f].pc \in {"locks", "write"}
        PROVE  signer[f].turn = turn[signer[f].svc][place(f)]
    <3>1. pc = "locks" /\ InTurn(f)
      BY <2>4 DEF Moves
    <3>2. CASE signer[f].op \in {"connect", "qr"}
      BY <3>1, <3>2 DEF InTurn
    <3>3. CASE signer[f].op = "disconnect"
      BY <1>1, <3>3 DEF Shaped
    <3>4. QED BY <2>2, <3>2, <3>3 DEF HasTurn
  <2>5. QED BY <2>2, <2>3, <2>4
<1>4. LockStays(f) /\ ActiveStays(f) /\ Shaped(f)'
  BY <1>1 DEF Moves, LockStays, ActiveStays, Shaped
<1>5. QED BY <1>1, <1>3, <1>4, OneSignerKeeps DEF Moves, Harmless

LEMMA SignInKeeps ==
  ASSUME AccountsInv, NEW f \in Signers, Authenticate(f) \/ TakeMutex(f) \/ TakeLocks(f)
  PROVE  AccountsInv'
<1>1. SignerOK /\ Shaped(f) /\ AccountsTypeOK /\ "mutex" \in Pcs /\ "locks" \in Pcs /\ "write" \in Pcs
  BY DEF AccountsInv, AccountsTypeOK, SignerOK, ShapeInv, Pcs
<1>2. UNCHANGED <<rows, turn, ended, known, use, ops>>
  BY DEF Authenticate, TakeMutex, TakeLocks
<1>3. CASE Refuse(f)
  BY <1>1, <1>2, <1>3, RefuseStep, EndsKeep
<1>4. CASE Authenticate(f) /\ ~Refuse(f)
  <2>1. PICK i \in Ids : signer' = [signer EXCEPT ![f].pc = "mutex", ![f].id = i]
    BY <1>1, <1>4, SignerFields DEF Authenticate
  <2>2. Moves(f, "mutex") /\ signer'[f].turn = signer[f].turn
    BY <1>1, <2>1, AuthenticatedStep
  <2>3. QED BY <1>2, <1>4, <2>2, MovesKeep DEF Authenticate
<1>5. CASE TakeMutex(f) /\ ~Refuse(f)
  <2>1. signer' = [signer EXCEPT ![f].pc = "locks"] /\ InTurn(f) /\ signer[f].pc = "mutex"
    BY <1>5 DEF TakeMutex
  <2>2. Moves(f, "locks") /\ signer'[f].turn = signer[f].turn
    BY <1>1, <2>1, MoveOnStep
  <2>3. QED BY <1>2, <2>1, <2>2, MovesKeep
<1>6. CASE TakeLocks(f) /\ ~Refuse(f)
  <2>1. /\ signer' = [signer EXCEPT ![f].pc = "write"] /\ Admissible(f) /\ signer[f].pc = "locks"
        /\ \A g \in Signers \ {f} : signer[g].pc = "write" => Unlocked(f, g)
    BY <1>6 DEF TakeLocks
  <2>2. Moves(f, "write") /\ signer'[f].id = signer[f].id /\ signer'[f].turn = signer[f].turn
    BY <1>1, <2>1, MoveOnStep
  <2>3. \A g \in Signers \ {f} : Harmless(g)
    BY <1>2, <2>2, OthersKept, KeptHarmless DEF AccountsInv, Told, Moves
  <2>4. TurnStays(f)
    <3>1. place(f)' = place(f) /\ (HasTurn(f)' => HasTurn(f))
      BY <2>1, <2>2 DEF Moves, place, HasTurn
    <3>2. QED BY <1>2, <2>1, <2>2, <3>1 DEF AccountsInv, TurnInv, TurnStays, Moves
  <2>5. ActiveStays(f) /\ Shaped(f)'
    BY <1>1, <2>1, <2>2 DEF Moves, ActiveStays, Shaped
  <2>6. AccountsTypeOK'
    BY <1>1, <1>2, <2>2 DEF Moves, SignerOK, AccountsTypeOK
  <2>7. TurnInv'
    <3>1. \A s \in Services, p \in Owners \X Roles : ended'[s][p] <= turn[s][p]
      BY <1>2 DEF AccountsInv, TurnInv
    <3>2. \A g \in Signers : TurnStays(g)
      BY <2>3, <2>4 DEF Harmless
    <3>3. QED BY <1>2, <3>1, <3>2, TurnKept DEF AccountsInv
  <2>8. LockInv' /\ PrivateXorShared'
    BY <1>2, <2>1, <2>2, LockTaken DEF AccountsInv
  <2>9. OneActiveSession' /\ ShapeInv'
    <3>1. \A g \in Signers : ActiveStays(g) /\ Shaped(g)'
      BY <2>3, <2>5 DEF Harmless
    <3>2. QED BY <3>1, ActiveKept DEF AccountsInv, ShapeInv
  <2>10. UseInv'
    BY <1>2 DEF AccountsInv, UseInv
  <2>11. QED BY <2>6, <2>7, <2>8, <2>9, <2>10 DEF AccountsInv
<1>7. QED BY <1>3, <1>4, <1>5, <1>6

-----------------------------------------------------------------------------
(* Every action keeps the invariant: what changes the rows.                 *)

\* A row gets another role or cookie, and a higher revision.
LEMMA StoredRow ==
  ASSUME NEW row \in Row, NEW role \in Roles \union {"absent", "none", "shared"},
         NEW cookie \in 0 .. MaxOps + 1
  PROVE  /\ Stored(row, role, cookie) \in Row
         /\ Stored(row, role, cookie).role = role /\ Stored(row, role, cookie).rev = row.rev + 1
         /\ row.rev \in Nat
<1> DEFINE R == Roles \union {"absent", "none", "shared"}
           C == 0 .. MaxOps + 1
<1>1. role \in R /\ cookie \in C /\ Row = [role: R, valid: BOOLEAN, enabled: BOOLEAN, rev: Nat, cookie: C]
  BY DEF Row
<1> HIDE DEF R, C
<1>2. row.rev \in Nat /\ row.rev + 1 \in Nat
  BY <1>1
<1> DEFINE n == row.rev + 1
<1>3. Stored(row, role, cookie) = [row EXCEPT !.role = role, !.valid = TRUE, !.rev = n, !.cookie = cookie]
  BY DEF Stored
<1> HIDE DEF n
<1>4. /\ Stored(row, role, cookie) \in Row /\ Stored(row, role, cookie).role = role
      /\ Stored(row, role, cookie).rev = n
  BY <1>1, <1>2, <1>3 DEF n
<1>5. QED BY <1>2, <1>4 DEF n

\* What is stored or dropped is written as ended, unless a later turn was before.
LEMMA EndedStep ==
  ASSUME AccountsTypeOK, TurnInv, NEW f \in Signers, HasTurn(f),
         End(signer[f].svc, place(f), signer[f].turn)
  PROVE  /\ ended' \in [Services -> [Owners \X Roles -> Nat]]
         /\ \A s \in Services, p \in Owners \X Roles : ended'[s][p] <= turn[s][p]
         /\ \A g \in Signers \ {f} : HasTurn(g) =>
              signer[g].turn # ended'[signer[g].svc][place(g)]
<1> DEFINE P == Owners \X Roles
           s == signer[f].svc
           p == place(f)
           n == signer[f].turn
           m == IF n > ended[s][p] THEN n ELSE ended[s][p]
<1>1. \A g \in Signers : signer[g].svc \in Services /\ place(g) \in P /\ signer[g].turn \in Nat
  BY SignerFields DEF AccountsTypeOK, SignerOK
<1>2. /\ ended \in [Services -> [P -> Nat]] /\ turn \in [Services -> [P -> Nat]]
      /\ ended' = [ended EXCEPT ![s] = [ended[s] EXCEPT ![p] = m]]
  BY DEF AccountsTypeOK, End
<1>3. s \in Services /\ p \in P /\ n \in Nat
  BY <1>1
<1>4. \A z \in Services, q \in P : ended[z][q] \in Nat /\ turn[z][q] \in Nat /\ ended[z][q] <= turn[z][q]
  BY <1>2 DEF TurnInv
<1>5. n <= turn[s][p] /\ \A g \in Signers \ {f} :
        HasTurn(g) => /\ signer[g].turn # ended[signer[g].svc][place(g)]
                      /\ signer[g].svc = s /\ place(g) = p => signer[g].turn # n
  BY DEF TurnInv, SamePlace
<1> HIDE DEF P, s, p, n
<1>6. m \in Nat /\ m <= turn[s][p] /\ (m = n \/ m = ended[s][p])
  BY <1>3, <1>4, <1>5
<1> HIDE DEF m
<1>7. /\ ended' \in [Services -> [P -> Nat]] /\ ended'[s][p] = m
      /\ \A z \in Services, q \in P : z # s \/ q # p => ended'[z][q] = ended[z][q]
  BY <1>2, <1>3, <1>6, SetAt
<1>8. \A z \in Services, q \in P : ended'[z][q] <= turn[z][q]
  BY <1>4, <1>6, <1>7
<1>9. ASSUME NEW g \in Signers \ {f}, HasTurn(g)
      PROVE  signer[g].turn # ended'[signer[g].svc][place(g)]
  <2>1. signer[g].svc \in Services /\ place(g) \in P
    BY <1>1
  <2>2. CASE signer[g].svc = s /\ place(g) = p
    BY <1>5, <1>6, <1>7, <1>9, <2>2
  <2>3. CASE signer[g].svc # s \/ place(g) # p
    BY <1>5, <1>7, <1>9, <2>1, <2>3
  <2>4. QED BY <2>2, <2>3
<1>10. QED BY <1>7, <1>8, <1>9 DEF P

\* A transaction commits: what follows from what it makes of the rows.
LEMMA CommitKeeps ==
  ASSUME AccountsInv, NEW f \in Signers, Ends(f), UNCHANGED <<turn, use, ops>>,
         rows' \in [Table -> Row], RowsGrow, known' \in [Table -> Nat], LockInv', PrivateXorShared',
         UNCHANGED ended \/ (HasTurn(f) /\ End(signer[f].svc, place(f), signer[f].turn))
  PROVE  AccountsInv'
<1>1. AccountsTypeOK /\ TurnInv /\ UseInv
  BY DEF AccountsInv
<1>2. /\ ended' \in [Services -> [Owners \X Roles -> Nat]]
      /\ \A s \in Services, p \in Owners \X Roles : ended'[s][p] <= turn[s][p]
      /\ \A g \in Signers \ {f} : HasTurn(g) => signer[g].turn # ended'[signer[g].svc][place(g)]
  <2>1. CASE UNCHANGED ended
    <3>1. ended' \in [Services -> [Owners \X Roles -> Nat]]
      BY <1>1, <2>1 DEF AccountsTypeOK
    <3>2. QED BY <1>1, <2>1, <3>1 DEF TurnInv
  <2>2. CASE HasTurn(f) /\ End(signer[f].svc, place(f), signer[f].turn)
    BY <1>1, <2>2, EndedStep
  <2>3. QED BY <2>1, <2>2
<1>3. AccountsTypeOK'
  BY <1>1, <1>2 DEF AccountsTypeOK, Ends, SignerOK
<1>4. ASSUME NEW g \in Signers \ {f}
      PROVE  TurnStays(g) /\ ActiveStays(g) /\ Shaped(g)'
  <2>1. Kept(g) /\ signer'[g].status = signer[g].status
    BY OthersKept DEF Ends
  <2>2. ActiveStays(g) /\ Shaped(g)'
    BY <2>1 DEF ActiveStays, Kept, AccountsInv, ShapeInv, Shaped
  <2>3. place(g)' = place(g) /\ (HasTurn(g)' => HasTurn(g))
    BY <2>1 DEF Kept, place, HasTurn
  <2>4. TurnStays(g)
    BY <1>1, <1>2, <2>1, <2>3 DEF TurnStays, TurnInv, Kept
  <2>5. QED BY <2>2, <2>4
<1>5. TurnStays(f) /\ ActiveStays(f) /\ Shaped(f)'
  BY EndsHarmless DEF Harmless
<1>6. TurnInv'
  <2>1. \A g \in Signers : TurnStays(g)
    BY <1>4, <1>5
  <2>2. QED BY <1>1, <1>2, <2>1, TurnKept
<1>7. OneActiveSession' /\ ShapeInv'
  <2>1. \A g \in Signers : ActiveStays(g) /\ Shaped(g)'
    BY <1>4, <1>5
  <2>2. QED BY <2>1, ActiveKept DEF AccountsInv, ShapeInv
<1>8. UseInv'
  <2>1. \A c \in Callers : UseStays(c)
    BY DEF UseStays
  <2>2. QED BY <1>1, <1>3, <2>1, UseKept
<1>9. QED BY <1>3, <1>6, <1>7, <1>8 DEF AccountsInv

\* Rows that differ in what no sign-in goes by.
LEMMA RowsTyped ==
  ASSUME AccountsTypeOK, NEW a \in Table
  PROVE  rows[a] \in Row /\ rows[a].rev \in Nat /\ rows[a].rev + 1 \in Nat
BY DEF AccountsTypeOK, Row

LEMMA DropKeeps ==
  ASSUME AccountsInv, NEW f \in Signers, Drop(f)
  PROVE  AccountsInv'
<1>1. AccountsTypeOK /\ SignerOK /\ Shaped(f) /\ MaxOps \in Nat
  BY AccountsConstants DEF AccountsInv, AccountsTypeOK, SignerOK, ShapeInv
<1>2. Ends(f)
  BY <1>1, EndStep DEF Drop, Statuses
<1>3. HasTurn(f) /\ End(signer[f].svc, place(f), signer[f].turn)
  BY <1>1 DEF Drop, Shaped, HasTurn
<1>4. ASSUME NEW a \in Table
      PROVE  /\ rows'[a] \in Row /\ SameKind(a) /\ rows'[a].rev >= rows[a].rev
             /\ rows'[a].rev = rows[a].rev => rows'[a].cookie = rows[a].cookie
  <2>1. rows[a] \in Row /\ rows[a].rev \in Nat /\ rows[a].rev + 1 \in Nat
    BY <1>1, RowsTyped
  <2> DEFINE n == rows[a].rev + 1
             row == [rows[a] EXCEPT !.valid = FALSE, !.rev = n, !.cookie = 0]
  <2>2. rows'[a] = row \/ rows'[a] = rows[a]
    BY DEF Drop
  <2>3. n \in Nat /\ n > rows[a].rev /\ 0 \in 0 .. MaxOps + 1
    BY <1>1, <2>1
  <2> HIDE DEF n
  <2>4. row \in Row /\ row.role = rows[a].role /\ row.rev = n
    BY <2>1, <2>3 DEF Row
  <2> HIDE DEF row
  <2>5. CASE rows'[a] = row
    BY <2>1, <2>3, <2>4, <2>5 DEF SameKind
  <2>6. CASE rows'[a] = rows[a]
    BY <2>1, <2>6 DEF SameKind
  <2>7. QED BY <2>2, <2>5, <2>6
<1>5. rows' \in [Table -> Row] /\ RowsGrow /\ \A a \in Table : SameKind(a)
  <2>1. rows' = [a \in Table |-> rows'[a]]
    BY DEF Drop
  <2>2. QED BY <1>4, <2>1 DEF RowsGrow
<1>6. LockInv' /\ PrivateXorShared'
  <2>1. \A g \in Signers : LockStays(g)
    BY <1>2 DEF Ends, Others, LockStays
  <2>2. QED BY <1>5, <2>1, LockKept DEF AccountsInv
<1>7. known' \in [Table -> Nat] /\ UNCHANGED <<turn, use, ops>>
  BY <1>1 DEF Drop, AccountsTypeOK
<1>8. QED BY <1>2, <1>3, <1>5, <1>6, <1>7, CommitKeeps

LEMMA EnableKeeps ==
  ASSUME AccountsInv, NEW a \in Table, NEW on \in BOOLEAN, EnableCollector(a, on)
  PROVE  AccountsInv'
<1>1. /\ AccountsTypeOK /\ rows[a] \in Row /\ rows[a].rev \in Nat /\ rows[a].rev + 1 \in Nat
      /\ MaxOps \in Nat /\ rows \in [Table -> Row]
  BY RowsTyped, AccountsConstants DEF AccountsInv, AccountsTypeOK
<1> DEFINE n == rows[a].rev + 1
           row == [rows[a] EXCEPT !.enabled = on, !.rev = n]
<1>2. rows' = [rows EXCEPT ![a] = row]
  BY <1>1 DEF EnableCollector
<1>3. n \in Nat /\ n > rows[a].rev
  BY <1>1
<1> HIDE DEF n
<1>4. row \in Row /\ row.role = rows[a].role /\ row.rev = n
  BY <1>1, <1>3 DEF Row
<1> HIDE DEF row
<1>5. rows' \in [Table -> Row] /\ \A b \in Table : rows'[b] = IF b = a THEN row ELSE rows[b]
  BY <1>1, <1>2, <1>4
<1>6. RowsGrow
  <2>1. ASSUME NEW b \in Table
        PROVE  /\ rows'[b].rev >= rows[b].rev
               /\ rows'[b].rev = rows[b].rev => rows'[b].cookie = rows[b].cookie
    <3>1. rows[b].rev \in Nat
      BY <1>1, RowsTyped
    <3>2. QED BY <1>3, <1>4, <1>5, <3>1
  <2>2. QED BY <2>1 DEF RowsGrow
<1>7. ops' \in 0 .. MaxOps /\ UNCHANGED <<turn, ended, known, signer, use>>
  BY <1>1 DEF EnableCollector, AccountsTypeOK
<1>8. AccountsTypeOK'
  BY <1>1, <1>5, <1>7 DEF AccountsTypeOK
<1>9. LockInv' /\ PrivateXorShared'
  <2>1. \A b \in Table : SameKind(b)
    BY <1>4, <1>5 DEF SameKind
  <2>2. \A g \in Signers : LockStays(g)
    BY <1>7 DEF LockStays
  <2>3. QED BY <2>1, <2>2, LockKept DEF AccountsInv
<1>10. TurnInv' /\ OneActiveSession' /\ ShapeInv'
  BY <1>7 DEF AccountsInv, TurnInv, HasTurn, SamePlace, place, OneActiveSession, ShapeInv, Shaped
<1>11. UseInv'
  <2>1. \A c \in Callers : UseStays(c)
    BY <1>7 DEF UseStays
  <2>2. QED BY <1>1, <1>6, <1>8, <2>1, UseKept DEF AccountsInv
<1>12. QED BY <1>8, <1>9, <1>10, <1>11 DEF AccountsInv

\* Where SaveCollector writes: the shared row of the identity, if it has one.
LEMMA CollectorPlaceProperties ==
  ASSUME SignerOK, NEW f \in Signers
  PROVE  /\ CollectorPlace(f) \in Table /\ CollectorPlace(f)[2] = signer[f].id
         /\ (\E a \in Table : a[2] = signer[f].id /\ rows[a].role = "shared") =>
              rows[CollectorPlace(f)].role = "shared"
<1> DEFINE held == {a \in Table : a[2] = signer[f].id /\ rows[a].role = "shared"}
           mine == <<signer[f].owner, signer[f].id>>
<1>1. mine \in Table /\ mine[2] = signer[f].id
  BY SignerFields DEF Table
<1>2. CollectorPlace(f) = IF held = {} THEN mine ELSE CHOOSE a \in held : TRUE
  BY DEF CollectorPlace
<1>3. CASE held = {}
  BY <1>1, <1>2, <1>3
<1>4. CASE held # {}
  <2>1. CollectorPlace(f) \in held
    BY <1>2, <1>4
  <2>2. QED BY <2>1
<1>5. QED BY <1>3, <1>4

LEMMA CollectorWrite ==
  ASSUME AccountsInv, NEW f \in Signers, Write(f), signer[f].op \in {"save", "check"}
  PROVE  /\ rows' \in [Table -> Row] /\ RowsGrow
         /\ \A a \in Table : a[2] # signer[f].id => SameKind(a)
         /\ \A a \in Table : a[2] = signer[f].id /\ rows'[a].role # "absent" => a = CollectorPlace(f)
<1> DEFINE b == CollectorPlace(f)
           row == Stored(rows[b], "shared", signer[f].cookie)
<1>1. AccountsTypeOK /\ SignerOK /\ rows \in [Table -> Row] /\ signer[f].pc = "write" /\ Relied(f)
  BY DEF AccountsInv, AccountsTypeOK, SignerOK, Write, LockInv
<1>2. /\ b \in Table /\ b[2] = signer[f].id
      /\ (\E a \in Table : a[2] = signer[f].id /\ rows[a].role = "shared") => rows[b].role = "shared"
  BY <1>1, CollectorPlaceProperties
<1>3. rows' = [rows EXCEPT ![b] = row]
  BY DEF Write
<1> HIDE DEF b
<1>4. row \in Row /\ row.rev = rows[b].rev + 1 /\ rows[b].rev \in Nat
  <2>1. rows[b] \in Row /\ "shared" \in Roles \union {"absent", "none", "shared"}
    BY <1>1, <1>2
  <2>2. signer[f].cookie \in 0 .. MaxOps + 1
    BY <1>1, SignerFields
  <2>3. QED BY <2>1, <2>2, StoredRow
<1> HIDE DEF row
<1>5. rows' \in [Table -> Row] /\ \A a \in Table : rows'[a] = IF a = b THEN row ELSE rows[a]
  BY <1>1, <1>2, <1>3, <1>4
<1>6. ASSUME NEW a \in Table
      PROVE  /\ rows'[a].rev >= rows[a].rev
             /\ rows'[a].rev = rows[a].rev => rows'[a].cookie = rows[a].cookie
  <2>1. rows[a].rev \in Nat
    BY <1>1, RowsTyped
  <2>2. QED BY <1>4, <1>5, <2>1
<1>7. \A a \in Table : a[2] # signer[f].id => SameKind(a)
  BY <1>2, <1>5 DEF SameKind
<1>8. ASSUME NEW a \in Table, a[2] = signer[f].id, rows'[a].role # "absent", a # b
      PROVE  FALSE
  <2>1. rows[a].role = "shared"
    BY <1>1, <1>5, <1>8 DEF Relied, AllShared
  <2>2. rows[b].role = "shared"
    BY <1>2, <1>8, <2>1
  <2>3. QED BY <1>2, <1>8, <2>1, <2>2 DEF AccountsInv, PrivateXorShared
<1>9. QED BY <1>5, <1>6, <1>7, <1>8 DEF RowsGrow, b

LEMMA ConnectWrite ==
  ASSUME AccountsInv, NEW f \in Signers, Write(f), signer[f].op \notin {"save", "check"}
  PROVE  /\ rows' \in [Table -> Row] /\ RowsGrow
         /\ \A a \in Table : a[2] # signer[f].id => SameKind(a)
         /\ \A a \in Table : a[2] = signer[f].id => rows'[a].role # "shared"
<1> DEFINE mine == <<signer[f].owner, signer[f].id>>
<1>1. AccountsTypeOK /\ SignerOK /\ signer[f].pc = "write" /\ Relied(f) /\ MaxOps \in Nat
  BY AccountsConstants DEF AccountsInv, AccountsTypeOK, SignerOK, Write, LockInv
<1>2. rows' = ConnectedRows(f)
  BY DEF Write
<1>3. signer[f].role \in Roles /\ signer[f].cookie \in 0 .. MaxOps + 1 /\ signer[f].role \notin {"shared", "absent"}
  BY <1>1, SignerFields, ActiveMembers
<1>4. ASSUME NEW a \in Table
      PROVE  /\ rows'[a] \in Row /\ rows'[a].rev >= rows[a].rev
             /\ rows'[a].rev = rows[a].rev => rows'[a].cookie = rows[a].cookie
             /\ a[2] # signer[f].id => SameKind(a)
             /\ a[2] = signer[f].id => rows'[a].role # "shared"
  <2>1. rows[a] \in Row /\ rows[a].rev \in Nat /\ rows[a].rev + 1 \in Nat
    BY <1>1, RowsTyped
  <2>2. CASE a = mine
    <3> DEFINE row == Stored(rows[a], signer[f].role, signer[f].cookie)
    <3>1. rows'[a] = row /\ a[2] = signer[f].id
      BY <1>2, <2>2 DEF ConnectedRows
    <3>2. row \in Row /\ row.role = signer[f].role /\ row.rev = rows[a].rev + 1
      BY <1>3, <2>1, StoredRow
    <3> HIDE DEF row
    <3>3. QED BY <1>3, <2>1, <3>1, <3>2
  <2>3. CASE a # mine /\ a[1] = signer[f].owner /\ rows[a].role = signer[f].role
    <3> DEFINE n == rows[a].rev + 1
               row == [rows[a] EXCEPT !.role = "none", !.valid = FALSE, !.rev = n, !.cookie = 0]
    <3>1. rows'[a] = row
      BY <1>2, <2>3 DEF ConnectedRows
    <3>2. n \in Nat /\ n > rows[a].rev /\ 0 \in 0 .. MaxOps + 1
      BY <1>1, <2>1
    <3> HIDE DEF n
    <3>3. row \in Row /\ row.role = "none" /\ row.rev = n
      BY <2>1, <3>2 DEF Row
    <3> HIDE DEF row
    <3>4. SameKind(a)
      BY <1>3, <2>3, <3>1, <3>3 DEF SameKind
    <3>5. QED BY <2>1, <3>1, <3>2, <3>3, <3>4
  <2>4. CASE a # mine /\ ~(a[1] = signer[f].owner /\ rows[a].role = signer[f].role)
    <3>1. rows'[a] = rows[a]
      BY <1>2, <2>4 DEF ConnectedRows
    <3>2. a[2] = signer[f].id => rows[a].role # "shared"
      BY <1>1 DEF Relied, NoneShared
    <3>3. QED BY <2>1, <3>1, <3>2 DEF SameKind
  <2>5. QED BY <2>2, <2>3, <2>4
<1>5. rows' = [a \in Table |-> rows'[a]]
  BY <1>2 DEF ConnectedRows
<1>6. QED BY <1>4, <1>5 DEF RowsGrow

LEMMA WriteKeeps ==
  ASSUME AccountsInv, NEW f \in Signers, Write(f)
  PROVE  AccountsInv'
<1>1. AccountsTypeOK /\ SignerOK /\ signer[f].pc = "write" /\ Shaped(f)
  BY DEF AccountsInv, AccountsTypeOK, SignerOK, Write, ShapeInv
<1>2. Ends(f) /\ UNCHANGED <<turn, use, ops>>
  BY <1>1, EndStep DEF Write, Statuses
<1>3. known' \in [Table -> Nat]
  <2>1. CollectorPlace(f) \in Table /\ <<signer[f].owner, signer[f].id>> \in Table
    BY <1>1, CollectorPlaceProperties, SignerFields DEF Table
  <2>2. \/ UNCHANGED known
        \/ \E a \in Table : known' = [known EXCEPT ![a] = 0]
    BY <2>1 DEF Write
  <2>3. QED BY <1>1, <2>2 DEF AccountsTypeOK
<1>4. CASE signer[f].op \in {"save", "check"}
  <2>1. /\ rows' \in [Table -> Row] /\ RowsGrow
        /\ \A a \in Table : a[2] # signer[f].id => SameKind(a)
        /\ \A a \in Table : a[2] = signer[f].id /\ rows'[a].role # "absent" => a = CollectorPlace(f)
    BY <1>4, CollectorWrite
  <2>2. LockInv' /\ PrivateXorShared'
    BY <1>1, <1>2, <1>4, <2>1, LockWritten DEF AccountsInv
  <2>3. UNCHANGED ended
    BY <1>4 DEF Write
  <2>4. QED BY <1>2, <1>3, <2>1, <2>2, <2>3, CommitKeeps
<1>5. CASE signer[f].op \notin {"save", "check"}
  <2>1. /\ rows' \in [Table -> Row] /\ RowsGrow
        /\ \A a \in Table : a[2] # signer[f].id => SameKind(a)
        /\ \A a \in Table : a[2] = signer[f].id => rows'[a].role # "shared"
    BY <1>5, ConnectWrite
  <2>2. LockInv' /\ PrivateXorShared'
    BY <1>1, <1>2, <1>5, <2>1, LockWritten DEF AccountsInv
  <2>3. HasTurn(f) /\ End(signer[f].svc, place(f), signer[f].turn)
    BY <1>1, <1>5, SignerFields DEF Write, HasTurn, Shaped
  <2>4. QED BY <1>2, <1>3, <2>1, <2>2, <2>3, CommitKeeps
<1>6. QED BY <1>4, <1>5

-----------------------------------------------------------------------------
(* Every action keeps the invariant: what requests do.                      *)

LEMMA UseUpdate ==
  ASSUME AccountsTypeOK, NEW c \in Callers, NEW next \in Use, use' = [use EXCEPT ![c] = next]
  PROVE  /\ use' \in [Callers -> Use] /\ use'[c] = next
         /\ \A d \in Callers \ {c} : UseStays(d)
BY DEF AccountsTypeOK, UseStays

LEMMA UseFields ==
  ASSUME AccountsTypeOK, NEW c \in Callers
  PROVE  /\ use[c] \in Use /\ use[c].want \in Nat /\ use[c].cookie \in 0 .. MaxOps + 1
         /\ rows[AccountOf[c]] \in Row /\ AccountOf[c] \in Table
         /\ rows[AccountOf[c]].rev \in Nat /\ rows[AccountOf[c]].cookie \in 0 .. MaxOps + 1
         /\ 0 \in 0 .. MaxOps + 1
BY AccountsConstants DEF AccountsTypeOK, Use, Row

\* What a request holds changes, and no row.
LEMMA UseKeeps ==
  ASSUME AccountsInv, UNCHANGED <<rows, turn, ended, signer, ops>>, known' \in [Table -> Nat],
         use' \in [Callers -> Use], \A c \in Callers : UseStays(c) \/ UseTaken(c)
  PROVE  AccountsInv'
<1>1. AccountsTypeOK'
  BY DEF AccountsInv, AccountsTypeOK
<1>2. \A a \in Table : SameKind(a)
  BY DEF SameKind
<1>3. RowsGrow
  <2>1. \A a \in Table : rows[a].rev \in Nat
    BY RowsTyped DEF AccountsInv
  <2>2. QED BY <2>1 DEF RowsGrow
<1>4. LockInv' /\ PrivateXorShared'
  <2>1. \A g \in Signers : LockStays(g)
    BY DEF LockStays
  <2>2. QED BY <1>2, <2>1, LockKept DEF AccountsInv
<1>5. TurnInv' /\ OneActiveSession' /\ ShapeInv'
  BY DEF AccountsInv, TurnInv, HasTurn, SamePlace, place, OneActiveSession, ShapeInv, Shaped
<1>6. UseInv'
  BY <1>1, <1>3, UseKept DEF AccountsInv
<1>7. QED BY <1>1, <1>4, <1>5, <1>6 DEF AccountsInv

LEMMA RequestKeeps ==
  ASSUME AccountsInv, NEW c \in Callers, UNCHANGED table,
         \/ Want(c) \/ BeginUse(c) \/ EndUse(c)
         \/ use[c].pc = "ready" /\ use' = [use EXCEPT ![c].pc = "blame"]
  PROVE  AccountsInv'
<1>1. AccountsTypeOK /\ use[c] \in Use /\ UNCHANGED <<rows, turn, ended, known, signer, ops>>
  BY UseFields DEF AccountsInv, table
<1>2. known' \in [Table -> Nat]
  BY <1>1 DEF AccountsTypeOK
<1>3. CASE Want(c)
  <2> DEFINE n == rows[AccountOf[c]].rev
             next == [pc |-> "none", want |-> n, cookie |-> 0]
  <2>1. use' = [use EXCEPT ![c] = next]
    BY <1>3 DEF Want
  <2>2. n \in Nat /\ n <= rows[AccountOf[c]].rev
    BY <1>1, UseFields
  <2> HIDE DEF n
  <2>3. next \in Use /\ next.pc = "none" /\ next.want = n
    BY <1>1, <2>2, UseFields DEF Use
  <2> HIDE DEF next
  <2>4. use' \in [Callers -> Use] /\ use'[c] = next /\ \A d \in Callers \ {c} : UseStays(d)
    BY <1>1, <2>1, <2>3, UseUpdate
  <2>5. UseTaken(c)
    BY <1>1, <2>2, <2>3, <2>4 DEF UseTaken, Holding
  <2>6. QED BY <1>1, <1>2, <2>4, <2>5, UseKeeps
<1>4. ASSUME NEW next \in Use, use' = [use EXCEPT ![c] = next], next.want = use[c].want,
             next.pc \in Holding => use[c].pc \in Holding /\ next.cookie = use[c].cookie
      PROVE  AccountsInv'
  <2>1. use' \in [Callers -> Use] /\ use'[c] = next /\ \A d \in Callers \ {c} : UseStays(d)
    BY <1>1, <1>4, UseUpdate
  <2>2. UseStays(c)
    BY <1>4, <2>1 DEF UseStays
  <2>3. QED BY <1>1, <1>2, <2>1, <2>2, UseKeeps
<1>5. ASSUME NEW pc \in {"read", "none"}, use' = [use EXCEPT ![c].pc = pc, ![c].cookie = 0]
      PROVE  AccountsInv'
  <2> DEFINE next == [use[c] EXCEPT !.pc = pc, !.cookie = 0]
  <2>1. next \in Use /\ next.pc = pc /\ next.want = use[c].want
    BY <1>1, UseFields DEF Use
  <2>2. use' = [use EXCEPT ![c] = next]
    BY <1>5
  <2> HIDE DEF next
  <2>3. QED BY <1>4, <2>1, <2>2 DEF Holding
<1>6. CASE use[c].pc = "ready" /\ use' = [use EXCEPT ![c].pc = "blame"]
  <2> DEFINE next == [use[c] EXCEPT !.pc = "blame"]
  <2>1. next \in Use /\ next.pc = "blame" /\ next.want = use[c].want /\ next.cookie = use[c].cookie
    BY <1>1, UseFields DEF Use
  <2>2. use' = [use EXCEPT ![c] = next]
    BY <1>6
  <2> HIDE DEF next
  <2>3. QED BY <1>4, <1>6, <2>1, <2>2 DEF Holding
<1>7. QED BY <1>3, <1>5, <1>6 DEF BeginUse, EndUse

LEMMA LookKeeps ==
  ASSUME AccountsInv, NEW c \in Callers, ReadRow(c) \/ Validate(c)
  PROVE  AccountsInv'
<1>1. /\ AccountsTypeOK /\ use[c] \in Use /\ use[c].want \in Nat /\ AccountOf[c] \in Table
      /\ UNCHANGED <<rows, turn, ended, signer, ops>>
  BY UseFields DEF AccountsInv, ReadRow, Validate
<1>2. known' \in [Table -> Nat]
  BY <1>1 DEF AccountsTypeOK, ReadRow, Validate
<1>3. CASE ReadRow(c)
  <2> DEFINE k == rows[AccountOf[c]].cookie
             next(pc) == [use[c] EXCEPT !.pc = pc, !.cookie = k]
  <2>1. PICK pc \in {"ready", "auth"} : use' = [use EXCEPT ![c] = next(pc)]
    BY <1>3 DEF ReadRow
  <2>2. k \in 0 .. MaxOps + 1 /\ rows[AccountOf[c]].rev \in Nat
    BY <1>1, UseFields
  <2>3. next(pc) \in Use /\ next(pc).want = use[c].want /\ next(pc).cookie = k
    BY <1>1, <2>2 DEF Use
  <2>4. use[c].want <= rows[AccountOf[c]].rev
    BY <1>3, <2>2 DEF ReadRow, Usable
  <2> HIDE DEF next
  <2>5. use' \in [Callers -> Use] /\ use'[c] = next(pc) /\ \A d \in Callers \ {c} : UseStays(d)
    BY <1>1, <2>1, <2>3, UseUpdate
  <2>6. UseTaken(c)
    BY <1>1, <2>3, <2>4, <2>5 DEF UseTaken
  <2>7. QED BY <1>1, <1>2, <2>5, <2>6, UseKeeps
<1>4. CASE Validate(c)
  <2> DEFINE next(pc) == [use[c] EXCEPT !.pc = pc]
  <2>1. PICK pc \in {"ready", "blame"} : use' = [use EXCEPT ![c] = next(pc)]
    BY <1>4 DEF Validate
  <2>2. next(pc) \in Use /\ next(pc).want = use[c].want /\ next(pc).cookie = use[c].cookie
    BY <1>1 DEF Use
  <2> HIDE DEF next
  <2>3. use' \in [Callers -> Use] /\ use'[c] = next(pc) /\ \A d \in Callers \ {c} : UseStays(d)
    BY <1>1, <2>1, <2>2, UseUpdate
  <2>4. use[c].pc \in Holding
    BY <1>4 DEF Validate, Holding
  <2>5. UseStays(c)
    BY <2>2, <2>3, <2>4 DEF UseStays
  <2>6. QED BY <1>1, <1>2, <2>3, <2>5, UseKeeps
<1>5. QED BY <1>3, <1>4

LEMMA InvalidateKeeps ==
  ASSUME AccountsInv, NEW c \in Callers, Invalidate(c)
  PROVE  AccountsInv'
<1> DEFINE a == AccountOf[c]
           row == [rows[a] EXCEPT !.valid = FALSE]
           next == [use[c] EXCEPT !.pc = "none", !.cookie = 0]
<1>1. /\ AccountsTypeOK /\ use[c] \in Use /\ a \in Table /\ 0 \in 0 .. MaxOps + 1
      /\ UNCHANGED <<turn, ended, known, signer, ops>>
  BY UseFields DEF AccountsInv, Invalidate
<1>2. rows \in [Table -> Row] /\ rows[a] \in Row /\ \A b \in Table : rows[b].rev \in Nat
  BY <1>1, RowsTyped DEF AccountsTypeOK
<1>3. row \in Row /\ row.role = rows[a].role /\ row.rev = rows[a].rev /\ row.cookie = rows[a].cookie
  BY <1>2 DEF Row
<1>4. rows' = rows \/ rows' = [rows EXCEPT ![a] = row]
  BY DEF Invalidate, Blamed
<1>5. use' = [use EXCEPT ![c] = next]
  BY DEF Invalidate, EndUse
<1>6. next \in Use /\ next.pc = "none" /\ next.want = use[c].want
  BY <1>1 DEF Use
<1> HIDE DEF a, row, next
<1>7. rows' \in [Table -> Row] /\ RowsGrow /\ \A b \in Table : SameKind(b)
  <2>1. rows' \in [Table -> Row] /\ \A b \in Table : rows'[b] = rows[b] \/ (b = a /\ rows'[b] = row)
    BY <1>1, <1>2, <1>3, <1>4
  <2>2. \A b \in Table : /\ rows'[b].role = rows[b].role /\ rows'[b].rev = rows[b].rev
                         /\ rows'[b].cookie = rows[b].cookie
    BY <1>3, <2>1
  <2>3. QED BY <1>2, <2>1, <2>2 DEF RowsGrow, SameKind
<1>8. use' \in [Callers -> Use] /\ \A d \in Callers : UseStays(d)
  <2>1. use' \in [Callers -> Use] /\ use'[c] = next /\ \A d \in Callers \ {c} : UseStays(d)
    BY <1>1, <1>5, <1>6, UseUpdate
  <2>2. UseStays(c)
    BY <1>6, <2>1 DEF UseStays, Holding
  <2>3. QED BY <2>1, <2>2
<1>9. AccountsTypeOK'
  BY <1>1, <1>7, <1>8 DEF AccountsTypeOK
<1>10. LockInv' /\ PrivateXorShared'
  <2>1. \A g \in Signers : LockStays(g)
    BY <1>1 DEF LockStays
  <2>2. QED BY <1>7, <2>1, LockKept DEF AccountsInv
<1>11. TurnInv' /\ OneActiveSession' /\ ShapeInv'
  BY <1>1 DEF AccountsInv, TurnInv, HasTurn, SamePlace, place, OneActiveSession, ShapeInv, Shaped
<1>12. UseInv'
  BY <1>1, <1>7, <1>8, <1>9, UseKept DEF AccountsInv
<1>13. QED BY <1>9, <1>10, <1>11, <1>12 DEF AccountsInv

-----------------------------------------------------------------------------
(* The accounts within Access.                                              *)

LEMMA CloseKeepsAccounts ==
  ASSUME AccountsInv, Close
  PROVE  AccountsInv'
<1>1. AccountsTypeOK /\ UNCHANGED <<rows, turn, ended, known, signer, ops>>
  BY DEF AccountsInv, Close, table
<1>2. known' \in [Table -> Nat]
  BY <1>1 DEF AccountsTypeOK
<1>3. ASSUME NEW c \in Callers
      PROVE  use'[c] \in Use /\ UseStays(c)
  <2>1. use[c] \in Use /\ 0 \in 0 .. MaxOps + 1
    BY <1>1, UseFields
  <2>2. use'[c] = [use[c] EXCEPT !.pc = "none", !.cookie = 0]
    BY DEF Close
  <2>3. use'[c] \in Use /\ use'[c].want = use[c].want /\ use'[c].pc = "none"
    BY <2>1, <2>2 DEF Use
  <2>4. QED BY <2>3 DEF UseStays, Holding
<1>4. use' \in [Callers -> Use]
  <2>1. use' = [c \in Callers |-> use'[c]]
    BY DEF Close
  <2>2. QED BY <1>3, <2>1
<1>5. QED BY <1>1, <1>2, <1>3, <1>4, UseKeeps

LEMMA AccountsSame ==
  ASSUME AccountsInv, UNCHANGED accounts
  PROVE  AccountsInv'
BY DEF accounts, AccountsInv, AccountsTypeOK, ShapeInv, Shaped, TurnInv, HasTurn, SamePlace, place,
       LockInv, Relied, AllShared, NoneShared, PrivateXorShared, OneActiveSession, UseInv

LEMMA OperateKeeps ==
  ASSUME scene \in Scenes, AccountsInv, NEW f \in Signers, Operate(f)
  PROVE  AccountsInv'
<1>1. scene.owners \subseteq Owners /\ scene.roles \subseteq Roles /\ scene.at[f] \in Services
  BY ScenesAssumption
<1>2. PICK o \in scene.owners, r \in scene.roles :
        \/ accountRoutes(f, scene.at[f], o, r) \/ wechatRoutes(f, scene.at[f], o, r)
        \/ adminCollectorRoutes(f, scene.at[f], o)
  BY DEF Operate
<1>3. \/ Connect(f, scene.at[f], o, r) \/ Disconnect(f, scene.at[f], o, r)
      \/ SaveCollector(f, scene.at[f], o) \/ (\E a \in Table : CheckCollector(f, scene.at[f], o, a))
      \/ Start(f, scene.at[f], o, r)
      \/ \E a \in Table, on \in BOOLEAN : EnableCollector(a, on)
  BY <1>2 DEF accountRoutes, wechatRoutes, adminCollectorRoutes
<1>4. o \in Owners /\ r \in Roles
  BY <1>1
<1>5. QED BY <1>1, <1>3, <1>4, BeginsKeep, StartKeeps, EnableKeeps

LEMMA AccountsKeep ==
  ASSUME scene \in Scenes, AccountsInv, [Next]_vars
  PROVE  AccountsInv'
<1>1. CASE UNCHANGED vars
  BY <1>1, AccountsSame DEF vars
<1>2. ASSUME NEW c \in Clients,
             Call(c) \/ Leave(c) \/ Send(c) \/ Unauthorized(c) \/ AnswerLeft(c) \/ ClientStep(c)
      PROVE  AccountsInv'
  <2>1. c \in Callers
    BY AccessAssumption
  <2>2. CASE Call(c) \/ Leave(c) \/ Send(c) \/ Unauthorized(c) \/ TurnedAway(c) \/ Answer(c)
    BY <2>1, <2>2, RequestKeeps DEF Call, Leave, Send, Unauthorized, TurnedAway, Answer
  <2>3. CASE Look(c)
    BY <2>1, <2>3, LookKeeps DEF Look
  <2>4. CASE Blame(c)
    BY <2>1, <2>4, InvalidateKeeps DEF Blame
  <2>5. CASE AnswerLeft(c) \/ GoOn(c)
    BY <2>5, AccountsSame DEF AnswerLeft, GoOn
  <2>6. QED BY <1>2, <2>2, <2>3, <2>4, <2>5 DEF ClientStep
<1>3. ASSUME NEW f \in Signers, Operate(f) \/ SignerStep(f) \/ Session(f)
      PROVE  AccountsInv'
  <2>1. CASE Operate(f)
    BY <2>1, OperateKeeps
  <2>2. CASE SignerStep(f)
    BY <2>2, LoginKeeps, SignInKeeps, DropKeeps, WriteKeeps DEF SignerStep
  <2>3. CASE Session(f)
    <3>1. Tells
      BY <2>3, TellStep DEF Session, AccountsInv
    <3>2. QED BY <3>1, TellKeeps
  <2>4. QED BY <1>3, <2>1, <2>2, <2>3
<1>4. ASSUME NEW s \in Services, CloseServer(s)
      PROVE  AccountsInv'
  <2>1. Tells
    BY <1>4, TellStep DEF CloseServer, AccountsInv
  <2>2. QED BY <2>1, TellKeeps
<1>5. CASE Pass \/ GetWell
  BY <1>5, AccountsSame DEF Pass, GetWell
<1>6. CASE Close
  BY <1>6, CloseKeepsAccounts
<1>7. QED BY <1>1, <1>2, <1>3, <1>4, <1>5, <1>6 DEF Next

LEMMA AccountsInitial ==
  ASSUME Init
  PROVE  AccountsInv
<1>1. scene \in Scenes /\ AccountsInit(scene.signedIn)
  BY DEF Init
<1> DEFINE in == scene.signedIn
<1>2. DOMAIN in \subseteq Table /\ (\A a \in DOMAIN in : in[a] \in Roles) /\ MaxOps \in Nat
  BY <1>1, ScenesAssumption, AccountsConstants
<1> HIDE DEF in
<1>3. AccountsInit(in)
  BY <1>1 DEF in
<1>4. ASSUME NEW a \in Table
      PROVE  rows[a] \in Row /\ rows[a].role # "shared" /\ rows[a].rev \in Nat
  <2>1. MaxOps + 1 \in 0 .. MaxOps + 1 /\ 0 \in 0 .. MaxOps + 1 /\ "shared" \notin Roles
    BY <1>2, ActiveMembers
  <2>2. CASE a \in DOMAIN in
    <3>1. rows[a] = [role |-> in[a], valid |-> TRUE, enabled |-> TRUE, rev |-> 1, cookie |-> MaxOps + 1]
      BY <1>3, <2>2 DEF AccountsInit
    <3>2. in[a] \in Roles
      BY <1>2, <2>2
    <3>3. QED BY <2>1, <3>1, <3>2 DEF Row
  <2>3. CASE a \notin DOMAIN in
    <3>1. rows[a] = [role |-> "absent", valid |-> FALSE, enabled |-> TRUE, rev |-> 0, cookie |-> 0]
      BY <1>3, <2>3 DEF AccountsInit, Absent
    <3>2. QED BY <2>1, <3>1 DEF Row
  <2>4. QED BY <2>2, <2>3
<1>5. rows \in [Table -> Row] /\ known \in [Table -> Nat]
  <2>1. rows = [a \in Table |-> rows[a]] /\ known = [a \in Table |-> rows[a].rev]
    BY <1>3 DEF AccountsInit
  <2>2. QED BY <1>4, <2>1
<1>6. /\ turn \in [Services -> [Owners \X Roles -> Nat]] /\ ended = turn
      /\ \A s \in Services, p \in Owners \X Roles : turn[s][p] = 0 /\ ended[s][p] = 0
  BY <1>3 DEF AccountsInit
<1>7. /\ signer \in [Signers -> Signer]
      /\ \A f \in Signers : /\ signer[f].op = "none" /\ signer[f].pc = "idle" /\ signer[f].status = "none"
  <2> DEFINE first == [op |-> "none", pc |-> "idle", svc |-> Broking, owner |-> CHOOSE o \in Owners : TRUE,
                       role |-> "primary", id |-> CHOOSE i \in Ids : TRUE, turn |-> 0, cookie |-> 0,
                       status |-> "none"]
  <2>1. first \in Signer /\ first.op = "none" /\ first.pc = "idle" /\ first.status = "none"
    <3>1. (CHOOSE o \in Owners : TRUE) \in Owners /\ (CHOOSE i \in Ids : TRUE) \in Ids
      BY AccountsConstants
    <3>2. Broking \in Services /\ "primary" \in Roles /\ 0 \in 0 .. MaxOps + 1
      BY AccountsConstants, ActiveMembers
    <3>3. QED BY <3>1, <3>2 DEF Signer
  <2>2. signer = [f \in Signers |-> first]
    BY <1>3 DEF AccountsInit
  <2> HIDE DEF first
  <2>3. QED BY <2>1, <2>2
<1>8. /\ use \in [Callers -> Use]
      /\ \A c \in Callers : use[c].pc = "none" /\ use[c].want = 0
  <2>1. 0 \in 0 .. MaxOps + 1
    BY <1>2
  <2>2. use = [c \in Callers |-> [pc |-> "none", want |-> 0, cookie |-> 0]]
    BY <1>3 DEF AccountsInit
  <2>3. QED BY <2>1, <2>2 DEF Use
<1>9. ops \in 0 .. MaxOps
  BY <1>2, <1>3 DEF AccountsInit
<1>10. AccountsTypeOK
  BY <1>5, <1>6, <1>7, <1>8, <1>9 DEF AccountsTypeOK
<1>11. ShapeInv /\ TurnInv
  BY <1>6, <1>7 DEF ShapeInv, Shaped, TurnInv, HasTurn
<1>12. LockInv /\ PrivateXorShared
  BY <1>4, <1>7 DEF LockInv, PrivateXorShared
<1>13. OneActiveSession
  BY <1>7, ActiveMembers DEF OneActiveSession
<1>14. UseInv
  <2>1. \A c \in Callers : rows[AccountOf[c]].rev \in Nat
    BY <1>4, AccountsConstants
  <2>2. QED BY <1>8, <2>1 DEF UseInv
<1>15. QED BY <1>10, <1>11, <1>12, <1>13, <1>14 DEF AccountsInv

-----------------------------------------------------------------------------
(* What follows.                                                            *)

\* The inductive invariant of platform accounts holds under Access: the order
\* of turns, what transactions rely on, and what requests hold.
THEOREM AccountsInductive == Spec => [](AccountsInv /\ scene \in Scenes)
<1>1. Init => AccountsInv /\ scene \in Scenes
  BY AccountsInitial DEF Init
<1>2. (AccountsInv /\ scene \in Scenes) /\ [Next]_vars => (AccountsInv /\ scene \in Scenes)'
  BY AccountsKeep, AccessSteps
<1>3. QED BY <1>1, <1>2, PTL DEF Spec

\* Every state of the broker and the accounts has its type, whatever the
\* services, users, identities, clients and scenes.
THEOREM TypeCorrect == Spec => []TypeOK
<1>1. Init => well \in BOOLEAN
  BY DEF Init
<1>2. well \in BOOLEAN /\ [Next]_vars => (well \in BOOLEAN)'
  BY DEF Next, vars, Call, Leave, Send, Unauthorized, AnswerLeft, ClientStep, Look, TurnedAway, Blame,
         Answer, GoOn, Operate, SignerStep, Session, CloseServer, Pass, Close, GetWell
<1>3. Spec => [](well \in BOOLEAN)
  BY <1>1, <1>2, PTL DEF Spec
<1>4. BrokerInv /\ AccountsInv /\ scene \in Scenes /\ well \in BOOLEAN => TypeOK
  BY DEF BrokerInv, AccountsInv, TypeOK
<1>5. QED BY <1>3, <1>4, BrokerInductive, AccountsInductive, PTL

\* No identity is ever a private account and a shared collector, or shared
\* twice, however sign-ins of different processes interleave.
THEOREM PrivateXorSharedTheorem == Spec => []PrivateXorShared
<1>1. AccountsInv => PrivateXorShared
  BY DEF AccountsInv
<1>2. QED BY <1>1, AccountsInductive, PTL

\* Of the QR code sessions of an owner, a role and a process, at most one waits.
THEOREM OneActiveSessionTheorem == Spec => []OneActiveSession
<1>1. AccountsInv => OneActiveSession
  BY DEF AccountsInv
<1>2. QED BY <1>1, AccountsInductive, PTL

\* A sign-in that is stored is newer than all that ended before it: the mutex
\* is held from its look at the turns until it is written.
THEOREM SignInsInOrderTheorem == Spec => SignInsInOrder
<1>1. AccountsInv => \A f \in Signers : signer[f].op \in {"connect", "qr"} /\ signer[f].pc = "write" =>
        signer[f].turn > ended[signer[f].svc][place(f)]
  <2>1. SUFFICES ASSUME AccountsInv, NEW f \in Signers, signer[f].op \in {"connect", "qr"}, signer[f].pc = "write"
                 PROVE  signer[f].turn > ended[signer[f].svc][place(f)]
    OBVIOUS
  <2> DEFINE P == Owners \X Roles
  <2>2. AccountsTypeOK /\ TurnInv
    BY <2>1 DEF AccountsInv
  <2>3. signer[f].svc \in Services /\ place(f) \in P /\ signer[f].turn \in Nat
    BY <2>2, SignerFields DEF AccountsTypeOK, SignerOK
  <2>4. turn \in [Services -> [P -> Nat]] /\ ended \in [Services -> [P -> Nat]]
    BY <2>2 DEF AccountsTypeOK
  <2>5. HasTurn(f)
    BY <2>1 DEF HasTurn
  <2>6. /\ signer[f].turn = turn[signer[f].svc][place(f)]
        /\ signer[f].turn # ended[signer[f].svc][place(f)]
        /\ ended[signer[f].svc][place(f)] <= turn[signer[f].svc][place(f)]
    BY <2>1, <2>2, <2>3, <2>5 DEF TurnInv
  <2> HIDE DEF P
  <2>7. ended[signer[f].svc][place(f)] \in Nat
    BY <2>3, <2>4
  <2>8. QED BY <2>3, <2>6, <2>7
<1>2. AccountsInv =>
        [\A f \in Signers : signer[f].op \in {"connect", "qr"} /\ signer[f].pc = "write" /\ rows' # rows =>
           \/ signer'[f].pc = "write"
           \/ signer[f].turn > ended[signer[f].svc][place(f)]]_accounts
  BY <1>1
<1>3. QED BY <1>2, AccountsInductive, PTL DEF SignInsInOrder

\* A session is told something while it is active, or a new operation begins.
ToldOrBegun(g) == Told(g) \/ (signer'[g].status \in {"starting", "none"} /\ signer[g].pc = "idle")

LEMMA OthersTold ==
  ASSUME NEW f \in Signers, Others(f), ToldOrBegun(f)
  PROVE  \A g \in Signers : ToldOrBegun(g)
BY DEF Others, ToldOrBegun, Told

LEMMA StatusStep ==
  ASSUME scene \in Scenes, AccountsInv, [Next]_vars
  PROVE  \A g \in Signers : ToldOrBegun(g)
<1>1. AccountsTypeOK /\ SignerOK
  BY DEF AccountsInv, AccountsTypeOK, SignerOK
<1>2. CASE UNCHANGED signer
  BY <1>2 DEF ToldOrBegun, Told
<1>3. ASSUME NEW f \in Signers, Operate(f), ~UNCHANGED signer
      PROVE  \A g \in Signers : ToldOrBegun(g)
  <2>1. scene.owners \subseteq Owners /\ scene.roles \subseteq Roles /\ scene.at[f] \in Services
    BY ScenesAssumption
  <2>2. PICK o \in scene.owners, r \in scene.roles :
          \/ Connect(f, scene.at[f], o, r) \/ Disconnect(f, scene.at[f], o, r)
          \/ SaveCollector(f, scene.at[f], o) \/ (\E a \in Table : CheckCollector(f, scene.at[f], o, a))
          \/ Start(f, scene.at[f], o, r)
    BY <1>3 DEF Operate, accountRoutes, wechatRoutes, adminCollectorRoutes, EnableCollector
  <2>3. o \in Owners /\ r \in Roles
    BY <2>1
  <2>4. CASE Start(f, scene.at[f], o, r)
    <3>1. /\ signer[f].pc = "idle" /\ signer'[f].status = "starting"
          /\ \A g \in Signers \ {f} :
               IF Superseded(g, scene.at[f], o, r) THEN signer'[g].status = "cancelled"
               ELSE signer'[g].status = signer[g].status
      BY <1>1, <2>1, <2>3, <2>4, StartStep DEF Begins
    <3>2. \A g \in Signers \ {f} : Told(g)
      BY <3>1 DEF Superseded, Told
    <3>3. QED BY <3>1, <3>2 DEF ToldOrBegun
  <2>5. CASE ~Start(f, scene.at[f], o, r)
    <3>1. Others(f) /\ signer[f].pc = "idle" /\ signer'[f].status = "none"
      BY <1>1, <2>1, <2>2, <2>3, <2>5, ConnectStep, DisconnectStep, CollectorStep DEF Begins
    <3>2. QED BY <3>1, OthersTold DEF ToldOrBegun
  <2>6. QED BY <2>4, <2>5
<1>4. ASSUME NEW f \in Signers, SignerStep(f)
      PROVE  \A g \in Signers : ToldOrBegun(g)
  <2>1. CASE \E status \in Statuses : signer' = [signer EXCEPT ![f] = Over(f, status)]
    BY <1>1, <2>1, EndStep, OthersTold DEF Ends, ToldOrBegun
  <2>2. CASE \E pc \in Pcs : Moves(f, pc)
    BY <2>2, OthersTold DEF Moves, ToldOrBegun, Told
  <2>3. /\ LoginFails(f) \/ Drop(f) \/ Write(f) \/ Refuse(f) =>
             \E status \in Statuses : signer' = [signer EXCEPT ![f] = Over(f, status)]
        /\ LoginDone(f) => \E pc \in Pcs : Moves(f, pc)
        /\ Authenticate(f) => Refuse(f) \/ \E pc \in Pcs : Moves(f, pc)
        /\ TakeMutex(f) \/ TakeLocks(f) => Refuse(f) \/ \E pc \in Pcs : Moves(f, pc)
    <3>1. LoginFails(f) \/ Drop(f) \/ Write(f) \/ Refuse(f) =>
            \E status \in Statuses : signer' = [signer EXCEPT ![f] = Over(f, status)]
      BY DEF LoginFails, Drop, Write, Refuse, RefusedOver, Statuses
    <3>2. LoginDone(f) => \E pc \in Pcs : Moves(f, pc)
      BY <1>1, LoginDoneStep DEF Pcs
    <3>3. Authenticate(f) => Refuse(f) \/ \E pc \in Pcs : Moves(f, pc)
      <4>1. SUFFICES ASSUME Authenticate(f), ~Refuse(f)
                     PROVE  \E pc \in Pcs : Moves(f, pc)
        OBVIOUS
      <4>2. PICK i \in Ids : signer' = [signer EXCEPT ![f].pc = "mutex", ![f].id = i]
        BY <1>1, <4>1, SignerFields DEF Authenticate
      <4>3. QED BY <1>1, <4>2, AuthenticatedStep DEF Pcs
    <3>4. TakeMutex(f) \/ TakeLocks(f) => Refuse(f) \/ \E pc \in Pcs : Moves(f, pc)
      <4>1. SUFFICES ASSUME TakeMutex(f) \/ TakeLocks(f), ~Refuse(f)
                     PROVE  \E pc \in Pcs : Moves(f, pc)
        OBVIOUS
      <4>2. PICK pc \in Pcs : signer' = [signer EXCEPT ![f].pc = pc]
        BY <4>1 DEF TakeMutex, TakeLocks, Pcs
      <4>3. QED BY <1>1, <4>2, MoveOnStep
    <3>5. QED BY <3>1, <3>2, <3>3, <3>4
  <2>4. QED BY <1>4, <2>1, <2>2, <2>3 DEF SignerStep
<1>5. CASE (\E f \in Signers : Session(f)) \/ (\E s \in Services : CloseServer(s))
  <2>1. Tells
    BY <1>1, <1>5, TellStep DEF Session, CloseServer
  <2>2. QED BY <2>1 DEF Tells, ToldOrBegun
<1>6. CASE \/ UNCHANGED vars
           \/ \E c \in Clients :
                Call(c) \/ Leave(c) \/ Send(c) \/ Unauthorized(c) \/ AnswerLeft(c) \/ ClientStep(c)
           \/ Pass \/ Close \/ GetWell
  <2>1. UNCHANGED signer
    BY <1>6 DEF vars, accounts, table, Call, Leave, Send, Unauthorized, AnswerLeft, ClientStep, Look, ReadRow,
                Validate, TurnedAway, Blame, Invalidate, Answer, GoOn, Pass, Close, GetWell
  <2>2. QED BY <1>2, <2>1
<1>7. QED BY <1>2, <1>3, <1>4, <1>5, <1>6 DEF Next

\* What a session ended with stays, whatever its sign-in still does, until its
\* place is used for another one.
THEOREM SessionsFinalTheorem == Spec => SessionsFinal
<1>1. (AccountsInv /\ scene \in Scenes) /\ [Next]_vars =>
        [\A f \in Signers : signer[f].status \notin Active /\ signer'[f].status # signer[f].status =>
           signer'[f].status \in {"starting", "none"} /\ signer[f].pc = "idle"]_accounts
  BY StatusStep DEF ToldOrBegun, Told
<1>2. QED BY <1>1, AccountsInductive, PTL DEF Spec, SessionsFinal

\* A request that is over with a refusal marks its account invalid only while
\* the account still has the cookie that was refused.
THEOREM OnlyBlamedTheorem == Spec => OnlyBlamedInvalid
<1>1. (AccountsInv /\ scene \in Scenes) /\ [Next]_vars =>
        [\A c \in Callers : use[c].pc = "blame" /\ use'[c].pc = "none" =>
           \A a \in Table : rows[a].valid /\ ~rows'[a].valid => rows[a].cookie = use[c].cookie]_accounts
  <2>1. SUFFICES ASSUME AccountsInv, Next, NEW c \in Callers, use[c].pc = "blame", use'[c].pc = "none",
                        NEW a \in Table, rows'[a] # rows[a], rows[a].valid, ~rows'[a].valid
                 PROVE  rows[a].cookie = use[c].cookie
    BY DEF vars, accounts
  <2>2. AccountsTypeOK /\ UseInv
    BY <2>1 DEF AccountsInv
  <2>3. ASSUME NEW d \in Clients, Blame(d)
        PROVE  rows[a].cookie = use[c].cookie
    <3>1. d \in Callers /\ rows' = Blamed(d) /\ EndUse(d)
      BY <2>3, AccessAssumption DEF Blame, Invalidate
    <3>2. c = d
      BY <2>1, <2>2, <3>1 DEF EndUse, AccountsTypeOK
    <3>3. /\ rows[AccountOf[c]].rev = use[c].want
          /\ rows' = [rows EXCEPT ![AccountOf[c]].valid = FALSE]
      BY <2>1, <3>1, <3>2 DEF Blamed
    <3>4. a = AccountOf[c]
      BY <2>1, <2>2, <3>3 DEF AccountsTypeOK
    <3>5. QED BY <2>1, <2>2, <3>3, <3>4 DEF UseInv
  <2>4. ASSUME UNCHANGED use
        PROVE  FALSE
    BY <2>1, <2>4
  <2>5. ASSUME UNCHANGED rows
        PROVE  FALSE
    BY <2>1, <2>5
  <2>6. ASSUME NEW d \in Clients,
               Call(d) \/ Leave(d) \/ Send(d) \/ Unauthorized(d) \/ AnswerLeft(d) \/ ClientStep(d)
        PROVE  rows[a].cookie = use[c].cookie
    <3>1. CASE Blame(d)
      BY <2>3, <3>1
    <3>2. CASE ~Blame(d)
      <4>1. UNCHANGED rows
        BY <2>6, <3>2 DEF accounts, table, Call, Leave, Send, Unauthorized, AnswerLeft, ClientStep, Look,
                          ReadRow, Validate, TurnedAway, Answer, GoOn
      <4>2. QED BY <2>5, <4>1
    <3>3. QED BY <3>1, <3>2
  <2>7. CASE (\E f \in Signers : Operate(f) \/ SignerStep(f) \/ Session(f)) \/ (\E s \in Services : CloseServer(s))
    <3>1. ASSUME NEW f \in Signers, Operate(f)
          PROVE  UNCHANGED use
      BY <3>1 DEF Operate, accountRoutes, wechatRoutes, adminCollectorRoutes, Connect, Disconnect, Start,
                  SaveCollector, CheckCollector, EnableCollector
    <3>2. ASSUME NEW f \in Signers, SignerStep(f)
          PROVE  UNCHANGED use
      BY <3>2 DEF SignerStep, LoginDone, LoginFails, Authenticate, Drop, TakeMutex, TakeLocks, Write
    <3>3. ASSUME NEW f \in Signers, Session(f)
          PROVE  UNCHANGED use
      BY <3>3 DEF Session, ShowQR, CancelSession
    <3>4. ASSUME NEW s \in Services, CloseServer(s)
          PROVE  UNCHANGED use
      BY <3>4 DEF CloseServer, CloseSessions
    <3>5. QED BY <2>4, <2>7, <3>1, <3>2, <3>3, <3>4
  <2>8. CASE Pass \/ Close \/ GetWell
    <3>1. UNCHANGED rows
      BY <2>8 DEF Pass, Close, GetWell, accounts, table
    <3>2. QED BY <2>5, <3>1
  <2>9. QED BY <2>1, <2>6, <2>7, <2>8 DEF Next
<1>2. QED BY <1>1, AccountsInductive, PTL DEF Spec, OnlyBlamedInvalid

=============================================================================
