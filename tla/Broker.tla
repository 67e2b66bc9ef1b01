------------------------------- MODULE Broker -------------------------------
(***************************************************************************)
(* The request broker: everything the server asks of the platform passes   *)
(* through its one queue, under limits and cooldowns that all callers of a *)
(* platform account share.                                                 *)
(*                                                                         *)
(*   platform/broker.go     Request, the loop run, Close                   *)
(*   platform/cooldowns.go  state, recordCooldown, extendAccessCooldown    *)
(*   platform/retry.go      Call, the loop around Request                  *)
(*                                                                         *)
(* The channel of requests and the queue the loop fills from it are one    *)
(* sequence.  A cancelled request that still waits leaves it at once: the  *)
(* loop drops it before it chooses.  How a request is executed is left to  *)
(* module Access; here it ends with an outcome.                            *)
(***************************************************************************)
EXTENDS Integers, FiniteSets, SequencesExt

CONSTANTS
  Clients,     \* callers of Broker.Call, one call at a time each
  Users,       \* platform identities
  UserOf,      \* the identity each client calls for
  Submissions, \* clients whose calls submit an answer
  Reads,       \* clients whose calls only read
  MaxTotal,    \* requests under way at most (64)
  MaxWrites,   \* submissions under way for one identity at most (3)
  MinCool,     \* the wait after an HTTP 403 in ticks, at least (one minute)
  MaxCool,     \* bound: the longest wait the platform asks for; also the cap (30 minutes)
  MaxLeft      \* bound: requests of one client under way that it left

ASSUME BrokerAssumption ==
  /\ UserOf \in [Clients -> Users]
  /\ Submissions \subseteq Clients /\ Reads \subseteq Clients \ Submissions
  /\ MaxTotal \in Nat \ {0} /\ MaxWrites \in Nat \ {0} /\ MaxLeft \in Nat
  /\ MinCool \in Nat \ {0} /\ MaxCool \in Nat /\ MinCool <= MaxCool

VARIABLES
  client,  \* per client: where its call is
  queue,   \* clients whose requests wait, in order
  left,    \* per client: its requests under way that were cancelled
  total,   \* the loop's count of requests under way ...
  active,  \* ... and of submissions under way per identity
  streak,  \* submissions begun since the last other request
  cool,    \* ticks for which an identity may send nothing
  rate,    \* ticks for which it may submit nothing
  denied,  \* history: identities denied access since the last tick
  closed   \* whether Close was called

broker == <<client, queue, left, total, active, streak, cool, rate, denied, closed>>

\* What comes back: a usable answer, HTTP 401, 403, a rate limit, HTTP 5xx, a
\* connection that breaks in use, none at all, any other error.
Outcomes == {"ok", "unauth", "denied", "limited", "down", "cut", "uncut", "fail"}

\* A call: idle, waiting, under way, denied, or waiting to try again; and how
\* often it was denied, counted up to 1 (the code counts up to 5).
ClientState == [pc: {"idle", "queued", "running", "denied", "pause"}, denials: 0 .. 1]
Home == [pc |-> "idle", denials |-> 0]

BrokerInit ==
  /\ client = [c \in Clients |-> Home]
  /\ queue = <<>>
  /\ left = [c \in Clients |-> 0]
  /\ total = 0
  /\ active = [u \in Users |-> 0]
  /\ streak = 0
  /\ cool = [u \in Users |-> 0]
  /\ rate = [u \in Users |-> 0]
  /\ denied = {}
  /\ closed = FALSE

Longer(a, b) == IF a >= b THEN a ELSE b
Shorter(a, b) == IF a <= b THEN a ELSE b

-----------------------------------------------------------------------------
(* Callers.                                                                 *)

Ask(c) ==
  /\ client[c].pc = "idle" /\ ~closed
  /\ client' = [client EXCEPT ![c].pc = "queued"]
  /\ queue' = Append(queue, c)
  /\ UNCHANGED <<left, total, active, streak, cool, rate, denied, closed>>

\* A request leaves the queue, which keeps its order.
Unqueued(c) == \E i \in DOMAIN queue : queue[i] = c /\ queue' = RemoveAt(queue, i)

\* The caller's context ends.  A request under way goes on without it.
Cancel(c) ==
  /\ client[c].pc \in {"queued", "running", "pause"}
  /\ client[c].pc = "running" => left[c] < MaxLeft
  /\ client' = [client EXCEPT ![c] = Home]
  /\ IF client[c].pc = "queued" THEN Unqueued(c) ELSE UNCHANGED queue
  /\ left' = IF client[c].pc = "running" THEN [left EXCEPT ![c] = @ + 1] ELSE left
  /\ UNCHANGED <<total, active, streak, cool, rate, denied, closed>>

\* Mutant of Extended: the wait of this denial replaces a longer one.
ExtendedBlindly(c) == Shorter(MinCool * 2 ^ client[c].denials, MaxCool)

\* extendAccessCooldown: each denial of a call doubles its wait.
Extended(c) == Longer(cool[UserOf[c]], Shorter(MinCool * 2 ^ client[c].denials, MaxCool))

\* A denied call is queued again behind the longer cooldown, without end.
Deny(c) ==
  /\ client[c].pc = "denied"
  /\ cool' = [cool EXCEPT ![UserOf[c]] = Extended(c)]
  /\ IF closed THEN client' = [client EXCEPT ![c] = Home] /\ UNCHANGED queue
     ELSE /\ client' = [client EXCEPT ![c] = [pc |-> "queued", denials |-> 1]]
          /\ queue' = Append(queue, c)
  /\ UNCHANGED <<left, total, active, streak, rate, denied, closed>>

Resume(c) ==
  /\ client[c].pc = "pause"
  /\ IF closed THEN client' = [client EXCEPT ![c] = Home] /\ UNCHANGED queue
     ELSE client' = [client EXCEPT ![c].pc = "queued"] /\ queue' = Append(queue, c)
  /\ UNCHANGED <<left, total, active, streak, cool, rate, denied, closed>>

-----------------------------------------------------------------------------
(* The loop.                                                                *)

Blocked(c) == cool[UserOf[c]] > 0 \/ (c \in Submissions /\ rate[UserOf[c]] > 0)

\* The first waiting request that may be sent, of submissions and of others.
Sendable(i, class) ==
  /\ queue[i] \in class
  /\ ~Blocked(queue[i])
  /\ queue[i] \in Submissions => active[UserOf[queue[i]]] < MaxWrites
First(class) == {i \in DOMAIN queue : Sendable(i, class) /\ \A j \in 1 .. i - 1 : ~Sendable(j, class)}

\* Mutant of Chosen: submissions always go first.
ChosenEager ==
  LET normal == First(Clients \ Submissions) write == First(Submissions) IN
  IF write = {} THEN normal ELSE write

\* After two submissions another request takes its turn.
Chosen ==
  LET normal == First(Clients \ Submissions) write == First(Submissions) IN
  IF normal # {} /\ (write = {} \/ streak >= 2) THEN normal ELSE write

\* Mutant of Room: one request too many.
RoomOffByOne == total <= MaxTotal

Room == total < MaxTotal

Dispatch(c) ==
  /\ ~closed /\ Room
  /\ \E i \in Chosen : queue[i] = c /\ queue' = RemoveAt(queue, i)
  /\ client' = [client EXCEPT ![c].pc = "running"]
  /\ total' = total + 1
  /\ IF c \in Submissions
     THEN active' = [active EXCEPT ![UserOf[c]] = @ + 1] /\ streak' = Shorter(streak + 1, 2)
     ELSE streak' = 0 /\ UNCHANGED active
  /\ UNCHANGED <<left, cool, rate, denied, closed>>

\* Mutant of Wait403: a 403 without a hint waits for nothing.
Wait403Hinted(hint) == hint

Wait403(hint) == Longer(hint, MinCool)

\* recordCooldown, with the wait the platform asks for.
Record(c, o, hint) ==
  LET u == UserOf[c] IN
  /\ cool' = IF o = "denied" THEN [cool EXCEPT ![u] = Longer(@, Wait403(hint))] ELSE cool
  /\ rate' = IF o = "limited" /\ c \in Submissions THEN [rate EXCEPT ![u] = Longer(@, hint)] ELSE rate
  /\ denied' = IF o = "denied" THEN denied \union {u} ELSE denied

\* Mutant of Release: only the counter of all requests is given back.
ReleaseTotal(c) == total' = total - 1 /\ UNCHANGED active

Release(c) ==
  /\ total' = total - 1
  /\ active' = IF c \in Submissions THEN [active EXCEPT ![UserOf[c]] = @ - 1] ELSE active

\* Broker.Call tries again: reads on anything the network or a busy platform
\* may have caused, others but submissions if no connection was made.
Retries(c, o) ==
  \/ c \in Reads /\ o \in {"limited", "down", "cut", "uncut"}
  \/ c \notin Submissions /\ o = "uncut"

\* A request under way ends: one its client waits for, or one it left.
Settle(c, o, hint) ==
  /\ ~closed /\ client[c].pc = "running"
  /\ Release(c) /\ Record(c, o, hint)
  /\ client' = [client EXCEPT ![c] = IF o = "denied" THEN [@ EXCEPT !.pc = "denied"]
                                     ELSE IF Retries(c, o) THEN [@ EXCEPT !.pc = "pause"] ELSE Home]
  /\ UNCHANGED <<queue, left, streak, closed>>

SettleLeft(c, o, hint) ==
  /\ ~closed /\ left[c] > 0
  /\ Release(c) /\ Record(c, o, hint)
  /\ left' = [left EXCEPT ![c] = @ - 1]
  /\ UNCHANGED <<client, queue, streak, closed>>

\* Every request is answered with an error; the loop and its counts are gone.
CloseBroker ==
  /\ ~closed
  /\ closed' = TRUE
  /\ queue' = <<>>
  /\ client' = [c \in Clients |-> IF client[c].pc \in {"queued", "running"} THEN Home ELSE client[c]]
  /\ left' = [c \in Clients |-> 0]
  /\ total' = 0 /\ active' = [u \in Users |-> 0] /\ streak' = 0
  /\ UNCHANGED <<cool, rate, denied>>

Tick ==
  /\ \E u \in Users : cool[u] + rate[u] > 0
  /\ cool' = [u \in Users |-> Longer(cool[u] - 1, 0)]
  /\ rate' = [u \in Users |-> Longer(rate[u] - 1, 0)]
  /\ denied' = {}
  /\ UNCHANGED <<client, queue, left, total, active, streak, closed>>

-----------------------------------------------------------------------------

BrokerTypeOK ==
  /\ client \in [Clients -> ClientState]
  /\ queue \in Seq(Clients)
  /\ left \in [Clients -> 0 .. MaxLeft]
  /\ total \in 0 .. MaxTotal
  /\ active \in [Users -> 0 .. MaxWrites]
  /\ streak \in 0 .. 2
  /\ cool \in [Users -> 0 .. MaxCool] /\ rate \in [Users -> 0 .. MaxCool]
  /\ denied \subseteq Users
  /\ closed \in BOOLEAN

Running(set) == {c \in set : client[c].pc = "running"} \X {0} \union
                {x \in set \X (1 .. MaxLeft) : x[2] <= left[x[1]]}

\* broker.go:139: the loop's counts are what is under way, cancelled requests
\* included, so that neither limit is ever passed nor a slot ever lost.
CountersExact ==
  ~closed =>
    /\ total = Cardinality(Running(Clients)) /\ total <= MaxTotal
    /\ \A u \in Users :
         LET n == Cardinality(Running({c \in Submissions : UserOf[c] = u})) IN
         active[u] = n /\ n <= MaxWrites

\* cooldowns.go:81: nothing but time ends or shortens the wait of an identity.
CooldownNotShortened ==
  [][(\E u \in Users : cool'[u] < cool[u] \/ rate'[u] < rate[u]) => Tick]_broker

\* After an HTTP 403 the identity sends nothing before time has passed,
\* whichever of its calls was denied and whichever would be next.
DeniedAccountRests ==
  [][\A c \in Clients : client[c].pc # "running" /\ client'[c].pc = "running" =>
       UserOf[c] \notin denied]_broker

=============================================================================
