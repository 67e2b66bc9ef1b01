---------------------------- MODULE BrokerProofs ----------------------------
(***************************************************************************)
(* Proofs about the broker, as it runs in Access: for any set of clients,  *)
(* finite or not, and any limits, its counts are what is under way, and an *)
(* identity that was denied access rests.                                  *)
(***************************************************************************)
EXTENDS Access, FiniteSetTheorems, SequenceTheorems, TLAPS

\* The steps of the broker, with any outcome.
Settles(c) ==
  \E o \in Outcomes, hint \in 0 .. MaxCool : Settle(c, o, hint) \/ SettleLeft(c, o, hint)

BrokerStep ==
  \/ \E c \in Clients :
       Ask(c) \/ Cancel(c) \/ Dispatch(c) \/ Deny(c) \/ Resume(c) \/ Settles(c)
  \/ CloseBroker
  \/ Tick

-----------------------------------------------------------------------------
(* The inductive invariant.                                                 *)

\* Who waits in the queue is a caller that waits, once.
QueueInv ==
  /\ \A i \in DOMAIN queue : client[queue[i]].pc = "queued"
  /\ \A i, j \in DOMAIN queue : queue[i] = queue[j] => i = j

\* The submitting clients of an identity.
Of(u) == {c \in Submissions : UserOf[c] = u}

Counted(n, S) == IsFiniteSet(Running(S)) /\ Cardinality(Running(S)) = n

\* The loop's counts are exact, and what they count is finite.
CountInv == ~closed => Counted(total, Clients) /\ \A u \in Users : Counted(active[u], Of(u))

\* Who was denied access since the last tick still waits.
RestInv == \A u \in denied : cool[u] > 0

BrokerInv == BrokerTypeOK /\ QueueInv /\ CountInv /\ RestInv

-----------------------------------------------------------------------------
(* Sequences and what is under way.                                         *)

\* RemoveAt leaves the other elements, in their order.
LEMMA RemoveAtProperties ==
  ASSUME NEW S, NEW s \in Seq(S), NEW i \in DOMAIN s
  PROVE  /\ RemoveAt(s, i) \in Seq(S)
         /\ Len(RemoveAt(s, i)) = Len(s) - 1
         /\ \A j \in DOMAIN RemoveAt(s, i) : RemoveAt(s, i)[j] = s[IF j < i THEN j ELSE j + 1]
<1> DEFINE a == SubSeq(s, 1, i - 1)
           b == SubSeq(s, i + 1, Len(s))
<1>1. Len(s) \in Nat /\ DOMAIN s = 1 .. Len(s) /\ i \in 1 .. Len(s) /\ \A j \in 1 .. Len(s) : s[j] \in S
  BY LenProperties, ElementOfSeq
<1>2. /\ a \in Seq(S) /\ Len(a) = i - 1
      /\ \A j \in 1 .. i - 1 : a[j] = s[j]
  <2>1. 1 \in Int /\ i - 1 \in Int /\ \A j \in 1 .. i - 1 : s[j] \in S
    BY <1>1
  <2>2. /\ a \in Seq(S) /\ Len(a) = IF 1 <= i - 1 THEN i - 1 - 1 + 1 ELSE 0
        /\ \A j \in 1 .. i - 1 - 1 + 1 : a[j] = s[1 + j - 1]
    BY <2>1, SubSeqProperties
  <2>3. QED BY <1>1, <2>2
<1>3. /\ b \in Seq(S) /\ Len(b) = Len(s) - i
      /\ \A j \in 1 .. Len(s) - i : b[j] = s[i + j]
  <2>1. i + 1 \in Int /\ Len(s) \in Int /\ \A j \in i + 1 .. Len(s) : s[j] \in S
    BY <1>1
  <2>2. /\ b \in Seq(S) /\ Len(b) = IF i + 1 <= Len(s) THEN Len(s) - (i + 1) + 1 ELSE 0
        /\ \A j \in 1 .. Len(s) - (i + 1) + 1 : b[j] = s[i + 1 + j - 1]
    BY <2>1, SubSeqProperties
  <2>3. \A j \in 1 .. Len(s) - i : j \in 1 .. Len(s) - (i + 1) + 1 /\ i + 1 + j - 1 = i + j
    BY <1>1
  <2>4. Len(b) = Len(s) - i
    BY <1>1, <2>2
  <2>5. QED BY <2>2, <2>3, <2>4
<1>4. RemoveAt(s, i) = a \o b
  BY DEF RemoveAt
<1> HIDE DEF a, b
<1>5. /\ a \o b \in Seq(S) /\ Len(a \o b) = Len(s) - 1
      /\ \A j \in 1 .. Len(s) - 1 : (a \o b)[j] = IF j <= i - 1 THEN a[j] ELSE b[j - (i - 1)]
  <2>1. /\ a \o b \in Seq(S) /\ Len(a \o b) = Len(a) + Len(b)
        /\ \A j \in 1 .. Len(a) + Len(b) : (a \o b)[j] = IF j <= Len(a) THEN a[j] ELSE b[j - Len(a)]
    BY <1>2, <1>3, ConcatProperties
  <2>2. Len(a) + Len(b) = Len(s) - 1
    BY <1>1, <1>2, <1>3
  <2>3. QED BY <1>2, <2>1, <2>2
<1>6. DOMAIN (a \o b) = 1 .. Len(s) - 1
  BY <1>5, LenProperties
<1>7. ASSUME NEW j \in 1 .. Len(s) - 1
      PROVE  (a \o b)[j] = s[IF j < i THEN j ELSE j + 1]
  <2>1. CASE j < i
    BY <1>1, <1>2, <1>5, <2>1
  <2>2. CASE ~(j < i)
    <3>1. j - (i - 1) \in 1 .. Len(s) - i /\ i + (j - (i - 1)) = j + 1
      BY <1>1, <2>2
    <3>2. QED BY <1>1, <1>3, <1>5, <2>2, <3>1
  <2>3. QED BY <2>1, <2>2
<1>8. QED BY <1>4, <1>5, <1>6, <1>7

LEMMA RunningMembers ==
  ASSUME NEW S, NEW x
  PROVE  x \in Running(S) <=>
           \E c \in S : \/ x = <<c, 0>> /\ client[c].pc = "running"
                        \/ \E n \in 1 .. MaxLeft : x = <<c, n>> /\ n <= left[c]
BY DEF Running
\* One request more under way, or one less, or none of the set's clients.
LEMMA OneMore ==
  ASSUME NEW S, NEW n \in Nat, Counted(n, S), NEW x, x \notin Running(S),
         Running(S)' = Running(S) \union {x}
  PROVE  IsFiniteSet(Running(S)') /\ Cardinality(Running(S)') = n + 1
<1>1. IsFiniteSet(Running(S)) /\ Cardinality(Running(S)) = n
  BY DEF Counted
<1>2. /\ IsFiniteSet(Running(S) \union {x})
      /\ Cardinality(Running(S) \union {x}) =
           IF x \in Running(S) THEN Cardinality(Running(S)) ELSE Cardinality(Running(S)) + 1
  BY <1>1, FS_AddElement
<1>3. QED BY <1>1, <1>2

LEMMA OneLess ==
  ASSUME NEW S, NEW n \in Nat, Counted(n, S), NEW x \in Running(S),
         Running(S)' = Running(S) \ {x}
  PROVE  IsFiniteSet(Running(S)') /\ Cardinality(Running(S)') = n - 1 /\ n > 0
<1>1. IsFiniteSet(Running(S)) /\ Cardinality(Running(S)) = n
  BY DEF Counted
<1>2. /\ IsFiniteSet(Running(S) \ {x})
      /\ Cardinality(Running(S) \ {x}) =
           IF x \in Running(S) THEN Cardinality(Running(S)) - 1 ELSE Cardinality(Running(S))
  BY <1>1, FS_RemoveElement
<1>3. n # 0
  BY <1>1, FS_EmptySet
<1>4. QED BY <1>1, <1>2, <1>3

\* A set of clients none of which changes.
LEMMA RunningSame ==
  ASSUME NEW S, \A c \in S : client'[c].pc = "running" <=> client[c].pc = "running",
         \A c \in S : left'[c] = left[c]
  PROVE  Running(S)' = Running(S)
<1>1. \A x : x \in Running(S)' <=>
           \E c \in S : \/ x = <<c, 0>> /\ client'[c].pc = "running"
                        \/ \E n \in 1 .. MaxLeft : x = <<c, n>> /\ n <= left'[c]
  BY DEF Running
<1>2. \A x : x \in Running(S)' <=> x \in Running(S)
  BY <1>1, RunningMembers
<1>3. QED BY <1>2

\* A request of c gets under way.
LEMMA RunningBegins ==
  ASSUME NEW S, NEW c \in S, client[c].pc # "running", client'[c].pc = "running",
         \A d \in S \ {c} : client'[d].pc = "running" <=> client[d].pc = "running",
         \A d \in S : left'[d] = left[d]
  PROVE  <<c, 0>> \notin Running(S) /\ Running(S)' = Running(S) \union {<<c, 0>>}
<1>1. \A x : x \in Running(S)' <=>
           \E d \in S : \/ x = <<d, 0>> /\ client'[d].pc = "running"
                        \/ \E n \in 1 .. MaxLeft : x = <<d, n>> /\ n <= left'[d]
  BY DEF Running
<1>2. <<c, 0>> \notin Running(S)
  BY DEF Running
<1>3. \A x : x \in Running(S)' <=> x \in Running(S) \/ x = <<c, 0>>
  BY <1>1, RunningMembers
<1>4. QED BY <1>2, <1>3

\* A request ends that its client waited for.
LEMMA RunningEnds ==
  ASSUME NEW S, NEW c \in S, client[c].pc = "running", client'[c].pc # "running",
         \A d \in S \ {c} : client'[d].pc = "running" <=> client[d].pc = "running",
         \A d \in S : left'[d] = left[d]
  PROVE  <<c, 0>> \in Running(S) /\ Running(S)' = Running(S) \ {<<c, 0>>}
<1>1. \A x : x \in Running(S)' <=>
           \E d \in S : \/ x = <<d, 0>> /\ client'[d].pc = "running"
                        \/ \E n \in 1 .. MaxLeft : x = <<d, n>> /\ n <= left'[d]
  BY DEF Running
<1>2. <<c, 0>> \in Running(S)
  BY DEF Running
<1>3. \A x : x \in Running(S)' <=> x \in Running(S) /\ x # <<c, 0>>
  BY <1>1, RunningMembers
<1>4. QED BY <1>2, <1>3

\* A request ends that its client had left.
LEMMA RunningLeftEnds ==
  ASSUME NEW S, NEW c \in S, left[c] \in 1 .. MaxLeft, left'[c] = left[c] - 1,
         \A d \in S : client'[d].pc = "running" <=> client[d].pc = "running",
         \A d \in S \ {c} : left'[d] = left[d]
  PROVE  <<c, left[c]>> \in Running(S) /\ Running(S)' = Running(S) \ {<<c, left[c]>>}
<1>1. \A x : x \in Running(S)' <=>
           \E d \in S : \/ x = <<d, 0>> /\ client'[d].pc = "running"
                        \/ \E n \in 1 .. MaxLeft : x = <<d, n>> /\ n <= left'[d]
  BY DEF Running
<1>2. <<c, left[c]>> \in Running(S)
  BY RunningMembers
<1>3. \A n \in 1 .. MaxLeft : n <= left'[c] <=> n <= left[c] /\ n # left[c]
  OBVIOUS
<1>4. \A x : x \in Running(S)' <=> x \in Running(S) /\ x # <<c, left[c]>>
  BY <1>1, <1>3, RunningMembers
<1>5. QED BY <1>2, <1>4

\* A client leaves its request, which goes on: it is another one now, and as
\* many are under way.
LEMMA RunningLeft ==
  ASSUME NEW S, NEW c \in S, NEW n \in Nat, Counted(n, S), MaxLeft \in Nat,
         client[c].pc = "running", client'[c].pc # "running",
         left[c] \in 0 .. MaxLeft - 1, left'[c] = left[c] + 1,
         \A d \in S \ {c} : client'[d].pc = "running" <=> client[d].pc = "running",
         \A d \in S \ {c} : left'[d] = left[d]
  PROVE  IsFiniteSet(Running(S)') /\ Cardinality(Running(S)') = n
<1> DEFINE mid == Running(S) \ {<<c, 0>>}
<1>1. \A x : x \in Running(S)' <=>
           \E d \in S : \/ x = <<d, 0>> /\ client'[d].pc = "running"
                        \/ \E m \in 1 .. MaxLeft : x = <<d, m>> /\ m <= left'[d]
  BY DEF Running
<1>2. <<c, 0>> \in Running(S) /\ <<c, left[c] + 1>> \notin Running(S)
  BY RunningMembers
<1>3. \A m \in 1 .. MaxLeft : m <= left'[c] <=> m <= left[c] \/ m = left[c] + 1
  OBVIOUS
<1>4. left[c] + 1 \in 1 .. MaxLeft
  OBVIOUS
<1>5. \A x : x \in Running(S)' <=> x \in mid \/ x = <<c, left[c] + 1>>
  BY <1>1, <1>3, <1>4, RunningMembers
<1>6. Running(S)' = mid \union {<<c, left[c] + 1>>}
  BY <1>5
<1>7. IsFiniteSet(mid) /\ Cardinality(mid) = n - 1
  BY <1>2, FS_RemoveElement DEF Counted
<1>8. /\ IsFiniteSet(mid \union {<<c, left[c] + 1>>})
      /\ Cardinality(mid \union {<<c, left[c] + 1>>}) =
           IF <<c, left[c] + 1>> \in mid THEN Cardinality(mid) ELSE Cardinality(mid) + 1
  BY <1>7, FS_AddElement
<1>9. <<c, left[c] + 1>> \notin mid
  BY <1>2
<1> HIDE DEF mid
<1>10. QED BY <1>6, <1>7, <1>8, <1>9

-----------------------------------------------------------------------------
(* The conjuncts, one kind of change at a time.                             *)

LEMMA BrokerConstants ==
  /\ \A c \in Clients : UserOf[c] \in Users
  /\ \A u : Of(u) \subseteq Submissions /\ Of(u) \subseteq Clients
  /\ MaxTotal \in Nat \ {0} /\ MaxWrites \in Nat \ {0} /\ MaxLeft \in Nat
  /\ MinCool \in Nat \ {0} /\ MaxCool \in Nat \ {0} /\ MinCool <= MaxCool
BY BrokerAssumption DEF Of

\* A caller joins the end of the queue.
LEMMA Enqueued ==
  ASSUME BrokerTypeOK, QueueInv, NEW c \in Clients, client[c].pc # "queued",
         queue' = Append(queue, c), client'[c].pc = "queued",
         \A d \in Clients \ {c} : client'[d] = client[d]
  PROVE  queue' \in Seq(Clients) /\ QueueInv'
<1>1. queue \in Seq(Clients) /\ Len(queue) \in Nat /\ DOMAIN queue = 1 .. Len(queue)
  BY LenProperties DEF BrokerTypeOK
<1>2. /\ queue' \in Seq(Clients) /\ Len(queue') = Len(queue) + 1
      /\ \A i \in 1 .. Len(queue) : queue'[i] = queue[i]
      /\ queue'[Len(queue) + 1] = c
  BY <1>1, AppendProperties
<1>3. DOMAIN queue' = 1 .. Len(queue) + 1
  BY <1>2, LenProperties
<1>4. \A i \in 1 .. Len(queue) : queue[i] \in Clients /\ queue[i] # c /\ queue'[i] = queue[i]
  BY <1>1, <1>2, ElementOfSeq DEF QueueInv
<1>5. \A i \in 1 .. Len(queue) + 1 : i \in 1 .. Len(queue) \/ i = Len(queue) + 1
  BY <1>1
<1>6. \A i \in DOMAIN queue' : client'[queue'[i]].pc = "queued"
  BY <1>1, <1>2, <1>3, <1>4, <1>5 DEF QueueInv
<1>7. \A i, j \in DOMAIN queue' : queue'[i] = queue'[j] => i = j
  BY <1>1, <1>2, <1>3, <1>4, <1>5 DEF QueueInv
<1>8. QED BY <1>2, <1>6, <1>7 DEF QueueInv

\* A caller leaves the queue.
LEMMA Dequeued ==
  ASSUME BrokerTypeOK, QueueInv, NEW c \in Clients, NEW i \in DOMAIN queue, queue[i] = c,
         queue' = RemoveAt(queue, i), \A d \in Clients \ {c} : client'[d] = client[d]
  PROVE  queue' \in Seq(Clients) /\ QueueInv'
<1>1. queue \in Seq(Clients) /\ Len(queue) \in Nat /\ DOMAIN queue = 1 .. Len(queue)
  BY LenProperties DEF BrokerTypeOK
<1>2. /\ queue' \in Seq(Clients) /\ Len(queue') = Len(queue) - 1
      /\ \A j \in DOMAIN queue' : queue'[j] = queue[IF j < i THEN j ELSE j + 1]
  BY <1>1, RemoveAtProperties
<1>3. DOMAIN queue' = 1 .. Len(queue) - 1
  BY <1>2, LenProperties
<1>4. \A j \in DOMAIN queue' :
        /\ (IF j < i THEN j ELSE j + 1) \in DOMAIN queue
        /\ (IF j < i THEN j ELSE j + 1) # i
  BY <1>1, <1>3
<1>5. \A j, k \in DOMAIN queue' :
        (IF j < i THEN j ELSE j + 1) = (IF k < i THEN k ELSE k + 1) => j = k
  BY <1>1, <1>3
<1>6. \A j \in DOMAIN queue' : queue'[j] \in Clients \ {c} /\ client[queue'[j]].pc = "queued"
  BY <1>1, <1>2, <1>4, ElementOfSeq DEF QueueInv
<1>7. \A j \in DOMAIN queue' : client'[queue'[j]].pc = "queued"
  BY <1>6
<1>8. \A j, k \in DOMAIN queue' : queue'[j] = queue'[k] => j = k
  BY <1>2, <1>4, <1>5 DEF QueueInv
<1>9. QED BY <1>2, <1>7, <1>8 DEF QueueInv

LEMMA QueueSame ==
  ASSUME BrokerTypeOK, QueueInv, queue' = queue,
         \A d \in Clients : client[d].pc = "queued" => client'[d].pc = "queued"
  PROVE  queue' \in Seq(Clients) /\ QueueInv'
<1>1. \A i \in DOMAIN queue : queue[i] \in Clients
  BY LenProperties, ElementOfSeq DEF BrokerTypeOK
<1>2. QED BY <1>1 DEF QueueInv, BrokerTypeOK

LEMMA CountSame ==
  ASSUME CountInv, UNCHANGED <<left, total, active, closed>>,
         \A d \in Clients : client'[d].pc = "running" <=> client[d].pc = "running"
  PROVE  CountInv'
<1>1. Running(Clients)' = Running(Clients)
  BY RunningSame
<1>2. ASSUME NEW u \in Users
      PROVE  Running(Of(u))' = Running(Of(u))
  <2>1. Of(u) \subseteq Clients
    BY BrokerConstants
  <2>2. QED BY <2>1, RunningSame
<1>3. \A u \in Users : Of(u)' = Of(u)
  BY DEF Of
<1>4. QED BY <1>1, <1>2, <1>3 DEF CountInv, Counted

\* A loop whose counts are gone has nothing to count.
LEMMA CountClosed ==
  ASSUME closed'
  PROVE  CountInv'
BY DEF CountInv

\* What a request that is under way gives back when it ends.
LEMMA CountReleased ==
  ASSUME BrokerTypeOK, CountInv, ~closed, UNCHANGED closed, NEW c \in Clients, Release(c), NEW x,
         \A S \in SUBSET Clients :
           /\ c \in S => x \in Running(S) /\ Running(S)' = Running(S) \ {x}
           /\ c \notin S => Running(S)' = Running(S)
  PROVE  CountInv' /\ total' \in 0 .. MaxTotal /\ active' \in [Users -> 0 .. MaxWrites]
<1>1. total \in 0 .. MaxTotal /\ active \in [Users -> 0 .. MaxWrites]
      /\ MaxTotal \in Nat /\ MaxWrites \in Nat
  BY BrokerConstants DEF BrokerTypeOK
<1>2. Counted(total, Clients)' /\ total > 0 /\ total' = total - 1
  <2>1. Counted(total, Clients) /\ total \in Nat
    BY <1>1 DEF CountInv
  <2>2. x \in Running(Clients) /\ Running(Clients)' = Running(Clients) \ {x}
    OBVIOUS
  <2>3. IsFiniteSet(Running(Clients)') /\ Cardinality(Running(Clients)') = total - 1 /\ total > 0
    BY <2>1, <2>2, OneLess
  <2>4. QED BY <2>3 DEF Release, Counted
<1>3. ASSUME NEW u \in Users
      PROVE  Counted(active[u], Of(u))' /\ active'[u] \in 0 .. MaxWrites
  <2>1. Of(u) \in SUBSET Clients /\ active[u] \in 0 .. MaxWrites /\ active[u] \in Nat
        /\ Counted(active[u], Of(u)) /\ Of(u)' = Of(u)
    BY <1>1, BrokerConstants DEF CountInv, Of
  <2>2. CASE c \in Of(u)
    <3>1. IsFiniteSet(Running(Of(u))') /\ Cardinality(Running(Of(u))') = active[u] - 1 /\ active[u] > 0
      BY <2>1, <2>2, OneLess
    <3>2. active'[u] = active[u] - 1
      BY <1>1, <2>2 DEF Release, Of
    <3>3. QED BY <1>1, <2>1, <3>1, <3>2 DEF Counted
  <2>3. CASE c \notin Of(u)
    <3>1. Running(Of(u))' = Running(Of(u))
      BY <2>1, <2>3
    <3>2. active'[u] = active[u]
      BY <1>1, <2>3 DEF Release, Of
    <3>3. QED BY <2>1, <3>1, <3>2 DEF Counted
  <2>4. QED BY <2>2, <2>3
<1>4. active' \in [Users -> 0 .. MaxWrites]
  <2>1. CASE c \in Submissions
    <3>1. active' = [active EXCEPT ![UserOf[c]] = @ - 1] /\ UserOf[c] \in Users
      BY <2>1, BrokerConstants DEF Release
    <3>2. active[UserOf[c]] - 1 \in 0 .. MaxWrites
      BY <1>1, <1>3, <3>1
    <3>3. QED BY <1>1, <3>1, <3>2
  <2>2. CASE c \notin Submissions
    BY <1>1, <2>2 DEF Release
  <2>3. QED BY <2>1, <2>2
<1>5. QED BY <1>1, <1>2, <1>3, <1>4 DEF CountInv

\* A wait is recorded: none gets shorter.
LEMMA RecordStep ==
  ASSUME BrokerTypeOK, RestInv, NEW c \in Clients, NEW o, NEW hint \in 0 .. MaxCool, Record(c, o, hint)
  PROVE  /\ cool' \in [Users -> 0 .. MaxCool] /\ rate' \in [Users -> 0 .. MaxCool]
         /\ denied' \subseteq Users /\ RestInv'
         /\ \A u \in Users : cool'[u] >= cool[u] /\ rate'[u] >= rate[u]
<1> DEFINE u == UserOf[c]
<1>1. u \in Users /\ cool \in [Users -> 0 .. MaxCool] /\ rate \in [Users -> 0 .. MaxCool]
      /\ denied \subseteq Users /\ MinCool \in Nat \ {0} /\ MaxCool \in Nat /\ MinCool <= MaxCool
  BY BrokerConstants DEF BrokerTypeOK
<1>2. /\ Longer(cool[u], Wait403(hint)) \in 0 .. MaxCool
      /\ Longer(cool[u], Wait403(hint)) >= cool[u] /\ Longer(cool[u], Wait403(hint)) > 0
      /\ Longer(rate[u], hint) \in 0 .. MaxCool /\ Longer(rate[u], hint) >= rate[u]
  <2>1. cool[u] \in 0 .. MaxCool /\ rate[u] \in 0 .. MaxCool
    BY <1>1
  <2>2. QED BY <1>1, <2>1 DEF Longer, Wait403
<1>3. /\ cool' = IF o = "denied" THEN [cool EXCEPT ![u] = Longer(cool[u], Wait403(hint))] ELSE cool
      /\ rate' = IF o = "limited" /\ c \in Submissions THEN [rate EXCEPT ![u] = Longer(rate[u], hint)] ELSE rate
      /\ denied' = IF o = "denied" THEN denied \union {u} ELSE denied
  BY DEF Record
<1> HIDE DEF u
<1>4. cool' \in [Users -> 0 .. MaxCool] /\ \A v \in Users : cool'[v] >= cool[v]
  <2>1. CASE o = "denied"
    <3>1. cool' = [cool EXCEPT ![u] = Longer(cool[u], Wait403(hint))]
      BY <1>3, <2>1
    <3>2. cool' \in [Users -> 0 .. MaxCool]
      BY <1>1, <1>2, <3>1
    <3>3. ASSUME NEW v \in Users
          PROVE  cool'[v] >= cool[v]
      <4>1. cool[v] \in 0 .. MaxCool
        BY <1>1
      <4>2. QED BY <1>1, <1>2, <3>1, <4>1
    <3>4. QED BY <3>2, <3>3
  <2>2. CASE o # "denied"
    BY <1>1, <1>3, <2>2
  <2>3. QED BY <2>1, <2>2
<1>5. rate' \in [Users -> 0 .. MaxCool] /\ \A v \in Users : rate'[v] >= rate[v]
  <2>1. CASE o = "limited" /\ c \in Submissions
    <3>1. rate' = [rate EXCEPT ![u] = Longer(rate[u], hint)]
      BY <1>3, <2>1
    <3>2. rate' \in [Users -> 0 .. MaxCool]
      BY <1>1, <1>2, <3>1
    <3>3. ASSUME NEW v \in Users
          PROVE  rate'[v] >= rate[v]
      <4>1. rate[v] \in 0 .. MaxCool
        BY <1>1
      <4>2. QED BY <1>1, <1>2, <3>1, <4>1
    <3>4. QED BY <3>2, <3>3
  <2>2. CASE ~(o = "limited" /\ c \in Submissions)
    BY <1>1, <1>3, <2>2
  <2>3. QED BY <2>1, <2>2
<1>6. denied' \subseteq Users /\ RestInv'
  <2>1. CASE o = "denied"
    <3>1. cool' = [cool EXCEPT ![u] = Longer(cool[u], Wait403(hint))] /\ denied' = denied \union {u}
      BY <1>3, <2>1
    <3>2. ASSUME NEW v \in denied'
          PROVE  cool'[v] > 0
      <4>1. CASE v = u
        BY <1>1, <1>2, <3>1, <4>1
      <4>2. CASE v # u
        BY <1>1, <3>1, <4>2 DEF RestInv
      <4>3. QED BY <4>1, <4>2
    <3>3. QED BY <1>1, <3>1, <3>2 DEF RestInv
  <2>2. CASE o # "denied"
    BY <1>1, <1>3, <2>2 DEF RestInv
  <2>3. QED BY <2>1, <2>2
<1>7. QED BY <1>4, <1>5, <1>6

-----------------------------------------------------------------------------
(* Every step of the broker keeps the invariant.                            *)

LEMMA ClientType ==
  ASSUME BrokerTypeOK
  PROVE  /\ client \in [Clients -> ClientState] /\ Home \in ClientState
         /\ Home.pc = "idle"
         /\ \A f \in ClientState, pc \in {"idle", "queued", "running", "denied", "pause"} :
              [f EXCEPT !.pc = pc] \in ClientState /\ [f EXCEPT !.pc = pc].pc = pc
<1>1. client \in [Clients -> ClientState]
  BY DEF BrokerTypeOK
<1>2. Home \in ClientState /\ Home.pc = "idle"
  BY DEF ClientState, Home
<1>3. ASSUME NEW f \in ClientState, NEW pc \in {"idle", "queued", "running", "denied", "pause"}
      PROVE  [f EXCEPT !.pc = pc] \in ClientState /\ [f EXCEPT !.pc = pc].pc = pc
  BY DEF ClientState
<1>4. QED BY <1>1, <1>2, <1>3

\* One client moves.
LEMMA MoveStep ==
  ASSUME BrokerTypeOK, NEW c \in Clients, NEW next \in ClientState,
         client' = [client EXCEPT ![c] = next]
  PROVE  /\ client' \in [Clients -> ClientState] /\ client'[c] = next
         /\ \A d \in Clients \ {c} : client'[d] = client[d]
BY ClientType

LEMMA PlaceStep ==
  ASSUME BrokerTypeOK, NEW c \in Clients,
         NEW pc \in {"idle", "queued", "running", "denied", "pause"},
         client' = [client EXCEPT ![c].pc = pc]
  PROVE  /\ client' \in [Clients -> ClientState] /\ client'[c].pc = pc
         /\ \A d \in Clients \ {c} : client'[d] = client[d]
<1>1. client' = [client EXCEPT ![c] = [client[c] EXCEPT !.pc = pc]]
  BY ClientType
<1>2. client[c] \in ClientState
  BY ClientType
<1>3. [client[c] EXCEPT !.pc = pc] \in ClientState /\ [client[c] EXCEPT !.pc = pc].pc = pc
  BY <1>2, ClientType
<1>4. QED BY <1>1, <1>3, MoveStep

LEMMA AskKeeps ==
  ASSUME BrokerInv, NEW c \in Clients, Ask(c)
  PROVE  BrokerInv'
<1>1. /\ BrokerTypeOK /\ QueueInv /\ CountInv /\ RestInv
      /\ UNCHANGED <<left, total, active, streak, cool, rate, denied, closed>>
      /\ client[c].pc = "idle" /\ queue' = Append(queue, c)
  BY DEF BrokerInv, Ask
<1>2. /\ client' \in [Clients -> ClientState] /\ client'[c].pc = "queued"
      /\ \A d \in Clients \ {c} : client'[d] = client[d]
  BY <1>1, PlaceStep DEF Ask
<1>3. queue' \in Seq(Clients) /\ QueueInv'
  BY <1>1, <1>2, Enqueued
<1>4. CountInv'
  BY <1>1, <1>2, CountSame
<1>5. QED BY <1>1, <1>2, <1>3, <1>4 DEF BrokerInv, BrokerTypeOK, RestInv

LEMMA ResumeKeeps ==
  ASSUME BrokerInv, NEW c \in Clients, Resume(c)
  PROVE  BrokerInv'
<1>1. /\ BrokerTypeOK /\ QueueInv /\ CountInv /\ RestInv
      /\ UNCHANGED <<left, total, active, streak, cool, rate, denied, closed>>
      /\ client[c].pc = "pause"
  BY DEF BrokerInv, Resume
<1>2. CASE closed
  <2>1. queue' = queue /\ client' = [client EXCEPT ![c] = Home]
    BY <1>2 DEF Resume
  <2>2. client' \in [Clients -> ClientState] /\ \A d \in Clients \ {c} : client'[d] = client[d]
    BY <1>1, <2>1, MoveStep, ClientType
  <2>3. queue' \in Seq(Clients) /\ QueueInv'
    BY <1>1, <2>1, <2>2, QueueSame
  <2>4. CountInv'
    BY <1>1, <1>2, CountClosed
  <2>5. QED BY <1>1, <2>2, <2>3, <2>4 DEF BrokerInv, BrokerTypeOK, RestInv
<1>3. CASE ~closed
  <2>1. queue' = Append(queue, c) /\ client' = [client EXCEPT ![c].pc = "queued"]
    BY <1>3 DEF Resume
  <2>2. /\ client' \in [Clients -> ClientState] /\ client'[c].pc = "queued"
        /\ \A d \in Clients \ {c} : client'[d] = client[d]
    BY <1>1, <2>1, PlaceStep
  <2>3. queue' \in Seq(Clients) /\ QueueInv'
    BY <1>1, <2>1, <2>2, Enqueued
  <2>4. CountInv'
    BY <1>1, <2>2, CountSame
  <2>5. QED BY <1>1, <2>2, <2>3, <2>4 DEF BrokerInv, BrokerTypeOK, RestInv
<1>4. QED BY <1>2, <1>3

\* The wait after a denial: bounded, and not shorter than the one before.
LEMMA DenyCool ==
  ASSUME BrokerTypeOK, RestInv, NEW c \in Clients, Deny(c)
  PROVE  /\ cool' \in [Users -> 0 .. MaxCool] /\ RestInv'
         /\ \A u \in Users : cool'[u] >= cool[u]
<1> DEFINE w == UserOf[c]
<1>1. w \in Users /\ cool \in [Users -> 0 .. MaxCool] /\ denied \subseteq Users /\ denied' = denied
      /\ MinCool \in Nat /\ MaxCool \in Nat /\ cool' = [cool EXCEPT ![w] = Extended(c)]
  BY BrokerConstants DEF BrokerTypeOK, Deny
<1>2. client[c].denials \in {0, 1}
  BY DEF BrokerTypeOK, ClientState
<1>3. MinCool * 2 ^ client[c].denials \in Nat
  <2>1. MinCool * 2 ^ 0 = MinCool /\ MinCool * 2 ^ 1 = 2 * MinCool
    BY <1>1
  <2>2. CASE client[c].denials = 0
    BY <1>1, <2>1, <2>2
  <2>3. CASE client[c].denials = 1
    BY <1>1, <2>1, <2>3
  <2>4. QED BY <1>2, <2>2, <2>3
<1>4. cool[w] \in 0 .. MaxCool
  BY <1>1
<1>5. Extended(c) \in 0 .. MaxCool /\ Extended(c) >= cool[w]
  BY <1>1, <1>3, <1>4 DEF Extended, Longer, Shorter
<1> HIDE DEF w
<1>6. cool' \in [Users -> 0 .. MaxCool]
  BY <1>1, <1>5
<1>7. ASSUME NEW u \in Users
      PROVE  cool'[u] >= cool[u]
  <2>1. cool[u] \in 0 .. MaxCool
    BY <1>1
  <2>2. QED BY <1>1, <1>5, <2>1
<1>8. RestInv'
  <2>1. ASSUME NEW u \in denied
        PROVE  cool'[u] > 0
    <3>1. cool[u] > 0 /\ cool[u] \in 0 .. MaxCool /\ cool'[u] \in 0 .. MaxCool /\ cool'[u] >= cool[u]
      BY <1>1, <1>6, <1>7 DEF RestInv
    <3>2. QED BY <1>1, <3>1
  <2>2. QED BY <1>1, <2>1 DEF RestInv
<1>9. QED BY <1>6, <1>7, <1>8

LEMMA DenyKeeps ==
  ASSUME BrokerInv, NEW c \in Clients, Deny(c)
  PROVE  BrokerInv'
<1>1. /\ BrokerTypeOK /\ QueueInv /\ CountInv /\ RestInv
      /\ UNCHANGED <<left, total, active, streak, rate, denied, closed>>
      /\ client[c].pc = "denied"
  BY DEF BrokerInv, Deny
<1>2. cool' \in [Users -> 0 .. MaxCool] /\ RestInv'
  BY <1>1, DenyCool
<1>3. CASE closed
  <2>1. queue' = queue /\ client' = [client EXCEPT ![c] = Home]
    BY <1>3 DEF Deny
  <2>2. client' \in [Clients -> ClientState] /\ \A d \in Clients \ {c} : client'[d] = client[d]
    BY <1>1, <2>1, MoveStep, ClientType
  <2>3. queue' \in Seq(Clients) /\ QueueInv'
    BY <1>1, <2>1, <2>2, QueueSame
  <2>4. CountInv'
    BY <1>1, <1>3, CountClosed
  <2>5. QED BY <1>1, <1>2, <2>2, <2>3, <2>4 DEF BrokerInv, BrokerTypeOK
<1>4. CASE ~closed
  <2>1. queue' = Append(queue, c) /\ client' = [client EXCEPT ![c] = [pc |-> "queued", denials |-> 1]]
    BY <1>4 DEF Deny
  <2>2. /\ client' \in [Clients -> ClientState] /\ client'[c].pc = "queued"
        /\ \A d \in Clients \ {c} : client'[d] = client[d]
    <3>1. [pc |-> "queued", denials |-> 1] \in ClientState
      BY DEF ClientState
    <3>2. QED BY <1>1, <2>1, <3>1, MoveStep
  <2>3. queue' \in Seq(Clients) /\ QueueInv'
    BY <1>1, <2>1, <2>2, Enqueued
  <2>4. CountInv'
    BY <1>1, <2>2, CountSame
  <2>5. QED BY <1>1, <1>2, <2>2, <2>3, <2>4 DEF BrokerInv, BrokerTypeOK
<1>5. QED BY <1>3, <1>4

LEMMA CancelKeeps ==
  ASSUME BrokerInv, NEW c \in Clients, Cancel(c)
  PROVE  BrokerInv'
<1>1. /\ BrokerTypeOK /\ QueueInv /\ CountInv /\ RestInv
      /\ UNCHANGED <<total, active, streak, cool, rate, denied, closed>>
      /\ client' = [client EXCEPT ![c] = Home]
      /\ client[c].pc \in {"queued", "running", "pause"}
  BY DEF BrokerInv, Cancel
<1>2. /\ client' \in [Clients -> ClientState] /\ client'[c].pc = "idle"
      /\ \A d \in Clients \ {c} : client'[d] = client[d]
  BY <1>1, MoveStep, ClientType
<1>3. queue' \in Seq(Clients) /\ QueueInv'
  <2>1. CASE client[c].pc = "queued"
    <3>1. PICK i \in DOMAIN queue : queue[i] = c /\ queue' = RemoveAt(queue, i)
      BY <2>1 DEF Cancel, Unqueued
    <3>2. QED BY <1>1, <1>2, <3>1, Dequeued
  <2>2. CASE client[c].pc # "queued"
    <3>1. queue' = queue
      BY <2>2 DEF Cancel
    <3>2. QED BY <1>1, <1>2, <2>2, <3>1, QueueSame
  <2>3. QED BY <2>1, <2>2
<1>4. CASE client[c].pc # "running"
  <2>1. left' = left
    BY <1>4 DEF Cancel
  <2>2. CountInv'
    BY <1>1, <1>2, <1>4, <2>1, CountSame
  <2>3. QED BY <1>1, <1>2, <1>3, <2>1, <2>2 DEF BrokerInv, BrokerTypeOK, RestInv
<1>5. CASE client[c].pc = "running"
  <2>1. left' = [left EXCEPT ![c] = left[c] + 1] /\ left[c] < MaxLeft
    BY <1>5 DEF Cancel
  <2>2. left \in [Clients -> 0 .. MaxLeft] /\ left[c] \in 0 .. MaxLeft /\ MaxLeft \in Nat
        /\ total \in Nat /\ active \in [Users -> Nat]
    BY <1>1, BrokerConstants DEF BrokerTypeOK
  <2>3. left[c] \in 0 .. MaxLeft - 1 /\ left[c] + 1 \in 0 .. MaxLeft
    BY <2>1, <2>2
  <2>4. /\ left' \in [Clients -> 0 .. MaxLeft] /\ left'[c] = left[c] + 1
        /\ \A d \in Clients \ {c} : left'[d] = left[d]
    BY <2>1, <2>2, <2>3
  <2>5. ASSUME NEW S \in SUBSET Clients, NEW n \in Nat, Counted(n, S)
        PROVE  IsFiniteSet(Running(S)') /\ Cardinality(Running(S)') = n
    <3>1. CASE c \in S
      BY <1>2, <1>5, <2>2, <2>3, <2>4, <2>5, <3>1, RunningLeft
    <3>2. CASE c \notin S
      <4>1. \A d \in S : client'[d] = client[d] /\ left'[d] = left[d]
        BY <1>2, <2>4, <3>2
      <4>2. Running(S)' = Running(S)
        BY <4>1, RunningSame
      <4>3. QED BY <2>5, <4>2 DEF Counted
    <3>3. QED BY <3>1, <3>2
  <2>6. CountInv'
    <3>1. CASE closed
      BY <1>1, <3>1, CountClosed
    <3>2. CASE ~closed
      <4>1. Counted(total, Clients)'
        BY <1>1, <2>2, <2>5, <3>2 DEF CountInv, Counted
      <4>2. ASSUME NEW u \in Users
            PROVE  Counted(active[u], Of(u))'
        <5>1. Of(u) \in SUBSET Clients /\ active[u] \in Nat /\ Counted(active[u], Of(u)) /\ Of(u)' = Of(u)
          BY <1>1, <2>2, <3>2, BrokerConstants DEF CountInv, Of
        <5>2. IsFiniteSet(Running(Of(u))') /\ Cardinality(Running(Of(u))') = active[u]
          BY <2>5, <5>1
        <5>3. QED BY <1>1, <5>1, <5>2 DEF Counted
      <4>3. QED BY <4>1, <4>2 DEF CountInv
    <3>3. QED BY <3>1, <3>2
  <2>7. QED BY <1>1, <1>2, <1>3, <2>4, <2>6 DEF BrokerInv, BrokerTypeOK, RestInv
<1>6. QED BY <1>4, <1>5

\* What the loop chooses may be sent, whichever class it takes.
LEMMA ChosenStep ==
  ASSUME NEW i \in Chosen
  PROVE  /\ i \in DOMAIN queue /\ ~Blocked(queue[i])
         /\ queue[i] \in Submissions => active[UserOf[queue[i]]] < MaxWrites
BY DEF Chosen, First, Sendable

LEMMA DispatchKeeps ==
  ASSUME BrokerInv, NEW c \in Clients, Dispatch(c)
  PROVE  BrokerInv'
<1>1. /\ BrokerTypeOK /\ QueueInv /\ CountInv /\ RestInv
      /\ UNCHANGED <<left, cool, rate, denied, closed>> /\ ~closed /\ total < MaxTotal
      /\ total' = total + 1
  BY DEF BrokerInv, Dispatch, Room
<1>2. PICK i \in Chosen : queue[i] = c /\ queue' = RemoveAt(queue, i)
  BY DEF Dispatch
<1>3. i \in DOMAIN queue /\ (c \in Submissions => active[UserOf[c]] < MaxWrites) /\ client[c].pc = "queued"
  BY <1>1, <1>2, ChosenStep DEF QueueInv
<1>4. /\ client' \in [Clients -> ClientState] /\ client'[c].pc = "running"
      /\ \A d \in Clients \ {c} : client'[d] = client[d]
  BY <1>1, PlaceStep DEF Dispatch
<1>5. queue' \in Seq(Clients) /\ QueueInv'
  BY <1>1, <1>2, <1>3, <1>4, Dequeued
<1>6. total \in 0 .. MaxTotal /\ active \in [Users -> 0 .. MaxWrites] /\ streak \in 0 .. 2
      /\ MaxTotal \in Nat /\ MaxWrites \in Nat
  BY <1>1, BrokerConstants DEF BrokerTypeOK
<1>7. total' \in 0 .. MaxTotal /\ streak' \in 0 .. 2
  BY <1>1, <1>6 DEF Dispatch, Shorter
<1>8. active' \in [Users -> 0 .. MaxWrites]
  <2>1. CASE c \in Submissions
    <3>1. active' = [active EXCEPT ![UserOf[c]] = @ + 1] /\ UserOf[c] \in Users
      BY <2>1, BrokerConstants DEF Dispatch
    <3>2. active[UserOf[c]] + 1 \in 0 .. MaxWrites
      BY <1>3, <1>6, <2>1, <3>1
    <3>3. QED BY <1>6, <3>1, <3>2
  <2>2. CASE c \notin Submissions
    BY <1>6, <2>2 DEF Dispatch
  <2>3. QED BY <2>1, <2>2
<1>9. ASSUME NEW S \in SUBSET Clients
      PROVE  /\ c \in S => <<c, 0>> \notin Running(S) /\ Running(S)' = Running(S) \union {<<c, 0>>}
             /\ c \notin S => Running(S)' = Running(S)
  <2>1. CASE c \in S
    BY <1>1, <1>3, <1>4, <2>1, RunningBegins
  <2>2. CASE c \notin S
    <3>1. \A d \in S : client'[d] = client[d] /\ left'[d] = left[d]
      BY <1>1, <1>4, <2>2
    <3>2. QED BY <2>2, <3>1, RunningSame
  <2>3. QED BY <2>1, <2>2
<1>10. CountInv'
  <2>1. Counted(total, Clients)'
    <3>1. Counted(total, Clients) /\ total \in Nat
      BY <1>1, <1>6 DEF CountInv
    <3>2. <<c, 0>> \notin Running(Clients) /\ Running(Clients)' = Running(Clients) \union {<<c, 0>>}
      BY <1>9
    <3>3. IsFiniteSet(Running(Clients)') /\ Cardinality(Running(Clients)') = total + 1
      BY <3>1, <3>2, OneMore
    <3>4. QED BY <1>1, <3>3 DEF Counted
  <2>2. ASSUME NEW u \in Users
        PROVE  Counted(active[u], Of(u))'
    <3>1. Of(u) \in SUBSET Clients /\ active[u] \in Nat /\ Counted(active[u], Of(u)) /\ Of(u)' = Of(u)
      BY <1>1, <1>6, BrokerConstants DEF CountInv, Of
    <3>2. CASE c \in Of(u)
      <4>1. active'[u] = active[u] + 1
        BY <1>6, <3>2 DEF Dispatch, Of
      <4>2. <<c, 0>> \notin Running(Of(u)) /\ Running(Of(u))' = Running(Of(u)) \union {<<c, 0>>}
        BY <1>9, <3>1, <3>2
      <4>3. IsFiniteSet(Running(Of(u))') /\ Cardinality(Running(Of(u))') = active[u] + 1
        BY <3>1, <4>2, OneMore
      <4>4. QED BY <3>1, <4>1, <4>3 DEF Counted
    <3>3. CASE c \notin Of(u)
      <4>1. active'[u] = active[u]
        BY <1>6, <3>3 DEF Dispatch, Of
      <4>2. Running(Of(u))' = Running(Of(u))
        BY <1>9, <3>1, <3>3
      <4>3. QED BY <3>1, <4>1, <4>2 DEF Counted
    <3>4. QED BY <3>2, <3>3
  <2>3. QED BY <2>1, <2>2 DEF CountInv
<1>11. QED BY <1>1, <1>4, <1>5, <1>7, <1>8, <1>10 DEF BrokerInv, BrokerTypeOK, RestInv

LEMMA SettleKeeps ==
  ASSUME BrokerInv, NEW c \in Clients, NEW o, NEW hint \in 0 .. MaxCool, Settle(c, o, hint)
  PROVE  BrokerInv'
<1>1. /\ BrokerTypeOK /\ QueueInv /\ CountInv /\ RestInv /\ Release(c) /\ Record(c, o, hint)
      /\ UNCHANGED <<queue, left, streak, closed>> /\ ~closed /\ client[c].pc = "running"
  BY DEF BrokerInv, Settle
<1>2. /\ client' \in [Clients -> ClientState]
      /\ client'[c].pc # "running"
      /\ \A d \in Clients \ {c} : client'[d] = client[d]
  <2> DEFINE next == IF o = "denied" THEN [client[c] EXCEPT !.pc = "denied"]
                     ELSE IF Retries(c, o) THEN [client[c] EXCEPT !.pc = "pause"] ELSE Home
  <2>1. client[c] \in ClientState
    BY <1>1, ClientType
  <2>2. next \in ClientState /\ next.pc # "running"
    BY <1>1, <2>1, ClientType
  <2>3. client' = [client EXCEPT ![c] = next]
    BY DEF Settle
  <2> HIDE DEF next
  <2>4. QED BY <1>1, <2>2, <2>3, MoveStep
<1>3. queue' \in Seq(Clients) /\ QueueInv'
  BY <1>1, <1>2, QueueSame
<1>4. ASSUME NEW S \in SUBSET Clients
      PROVE  /\ c \in S => <<c, 0>> \in Running(S) /\ Running(S)' = Running(S) \ {<<c, 0>>}
             /\ c \notin S => Running(S)' = Running(S)
  <2>1. CASE c \in S
    BY <1>1, <1>2, <2>1, RunningEnds
  <2>2. CASE c \notin S
    <3>1. \A d \in S : client'[d] = client[d] /\ left'[d] = left[d]
      BY <1>1, <1>2, <2>2
    <3>2. QED BY <2>2, <3>1, RunningSame
  <2>3. QED BY <2>1, <2>2
<1>5. CountInv' /\ total' \in 0 .. MaxTotal /\ active' \in [Users -> 0 .. MaxWrites]
  BY <1>1, <1>4, CountReleased
<1>6. cool' \in [Users -> 0 .. MaxCool] /\ rate' \in [Users -> 0 .. MaxCool] /\ denied' \subseteq Users /\ RestInv'
  BY <1>1, RecordStep
<1>7. QED BY <1>1, <1>2, <1>3, <1>5, <1>6 DEF BrokerInv, BrokerTypeOK

LEMMA SettleLeftKeeps ==
  ASSUME BrokerInv, NEW c \in Clients, NEW o, NEW hint \in 0 .. MaxCool, SettleLeft(c, o, hint)
  PROVE  BrokerInv'
<1>1. /\ BrokerTypeOK /\ QueueInv /\ CountInv /\ RestInv /\ Release(c) /\ Record(c, o, hint)
      /\ UNCHANGED <<client, queue, streak, closed>> /\ ~closed /\ left[c] > 0
      /\ left' = [left EXCEPT ![c] = left[c] - 1]
  BY DEF BrokerInv, SettleLeft
<1>2. left \in [Clients -> 0 .. MaxLeft] /\ left[c] \in 1 .. MaxLeft /\ left[c] - 1 \in 0 .. MaxLeft
  BY <1>1, BrokerConstants DEF BrokerTypeOK
<1>3. /\ left' \in [Clients -> 0 .. MaxLeft] /\ left'[c] = left[c] - 1
      /\ \A d \in Clients \ {c} : left'[d] = left[d]
  BY <1>1, <1>2
<1>4. queue' \in Seq(Clients) /\ QueueInv'
  BY <1>1, QueueSame
<1>5. ASSUME NEW S \in SUBSET Clients
      PROVE  /\ c \in S => <<c, left[c]>> \in Running(S) /\ Running(S)' = Running(S) \ {<<c, left[c]>>}
             /\ c \notin S => Running(S)' = Running(S)
  <2>1. CASE c \in S
    BY <1>1, <1>2, <1>3, <2>1, RunningLeftEnds
  <2>2. CASE c \notin S
    <3>1. \A d \in S : client'[d] = client[d] /\ left'[d] = left[d]
      BY <1>1, <1>3, <2>2
    <3>2. QED BY <2>2, <3>1, RunningSame
  <2>3. QED BY <2>1, <2>2
<1>6. CountInv' /\ total' \in 0 .. MaxTotal /\ active' \in [Users -> 0 .. MaxWrites]
  BY <1>1, <1>5, CountReleased
<1>7. cool' \in [Users -> 0 .. MaxCool] /\ rate' \in [Users -> 0 .. MaxCool] /\ denied' \subseteq Users /\ RestInv'
  BY <1>1, RecordStep
<1>8. QED BY <1>1, <1>3, <1>4, <1>6, <1>7 DEF BrokerInv, BrokerTypeOK

LEMMA CloseKeeps ==
  ASSUME BrokerInv, CloseBroker
  PROVE  BrokerInv'
<1>1. BrokerTypeOK /\ RestInv
  BY DEF BrokerInv
<1>2. queue' \in Seq(Clients) /\ QueueInv'
  <2>1. queue' = <<>>
    BY DEF CloseBroker
  <2>2. queue' \in Seq(Clients) /\ DOMAIN queue' = {}
    BY <2>1
  <2>3. QED BY <2>2 DEF QueueInv
<1>3. client' \in [Clients -> ClientState]
  BY <1>1, ClientType DEF CloseBroker
<1>4. CountInv'
  BY CountClosed DEF CloseBroker
<1>5. /\ left' \in [Clients -> 0 .. MaxLeft] /\ total' \in 0 .. MaxTotal
      /\ active' \in [Users -> 0 .. MaxWrites] /\ streak' \in 0 .. 2 /\ closed' \in BOOLEAN
      /\ UNCHANGED <<cool, rate, denied>>
  <2>1. 0 \in 0 .. MaxLeft /\ 0 \in 0 .. MaxTotal /\ 0 \in 0 .. MaxWrites /\ 0 \in 0 .. 2
    BY BrokerConstants
  <2>2. left' = [c \in Clients |-> 0] /\ total' = 0 /\ active' = [u \in Users |-> 0] /\ streak' = 0
        /\ UNCHANGED <<cool, rate, denied>>
    BY DEF CloseBroker
  <2>3. closed' \in BOOLEAN
    BY DEF CloseBroker
  <2>4. QED BY <2>1, <2>2, <2>3
<1>6. QED BY <1>1, <1>2, <1>3, <1>4, <1>5 DEF BrokerInv, BrokerTypeOK, RestInv

LEMMA TickKeeps ==
  ASSUME BrokerInv, Tick
  PROVE  BrokerInv'
<1>1. /\ BrokerTypeOK /\ QueueInv /\ CountInv
      /\ UNCHANGED <<client, queue, left, total, active, streak, closed>>
  BY DEF BrokerInv, Tick
<1>2. queue' \in Seq(Clients) /\ QueueInv'
  BY <1>1, QueueSame
<1>3. CountInv'
  BY <1>1, CountSame
<1>4. cool' \in [Users -> 0 .. MaxCool] /\ rate' \in [Users -> 0 .. MaxCool]
  <2>1. ASSUME NEW n \in 0 .. MaxCool
        PROVE  Longer(n - 1, 0) \in 0 .. MaxCool
    BY BrokerConstants DEF Longer
  <2>2. \A u \in Users : cool[u] \in 0 .. MaxCool /\ rate[u] \in 0 .. MaxCool
    BY <1>1 DEF BrokerTypeOK
  <2>3. QED BY <2>1, <2>2 DEF Tick
<1>5. denied' = {} /\ denied' \subseteq Users /\ RestInv'
  BY DEF Tick, RestInv
<1>6. QED BY <1>1, <1>2, <1>3, <1>4, <1>5 DEF BrokerInv, BrokerTypeOK

LEMMA BrokerKeeps ==
  ASSUME BrokerInv, BrokerStep \/ UNCHANGED broker
  PROVE  BrokerInv'
<1>1. CASE UNCHANGED broker
  <2>1. UNCHANGED <<client, queue, left, total, active, streak, cool, rate, denied, closed>>
    BY <1>1 DEF broker
  <2>2. CountInv'
    BY <2>1, CountSame DEF BrokerInv
  <2>3. QED BY <2>1, <2>2 DEF BrokerInv, BrokerTypeOK, QueueInv, RestInv
<1>2. CASE BrokerStep
  BY <1>2, AskKeeps, CancelKeeps, DispatchKeeps, DenyKeeps, ResumeKeeps, SettleKeeps,
     SettleLeftKeeps, CloseKeeps, TickKeeps DEF BrokerStep, Settles
<1>3. QED BY <1>1, <1>2

-----------------------------------------------------------------------------
(* The broker within Access.                                                *)

LEMMA AccessSteps ==
  ASSUME scene \in Scenes, [Next]_vars
  PROVE  scene' \in Scenes /\ (BrokerStep \/ UNCHANGED broker)
<1>1. scene.answers \subseteq Outcomes /\ MaxCool \in Nat
  BY ScenesAssumption, BrokerConstants
<1>2. /\ Answers \subseteq Outcomes /\ "fail" \in Outcomes /\ "unauth" \in Outcomes /\ 0 \in 0 .. MaxCool
      /\ \A o \in Outcomes : Hints(o) \subseteq 0 .. MaxCool
  <2>1. Answers \subseteq Outcomes
    BY <1>1 DEF Answers, Outcomes
  <2>2. \A o \in Outcomes : Hints(o) \subseteq {0, MaxCool}
    BY DEF Hints
  <2>3. {0, MaxCool} \subseteq 0 .. MaxCool
    BY <1>1
  <2>4. QED BY <2>1, <2>2, <2>3 DEF Outcomes
<1>3. CASE UNCHANGED vars
  BY <1>3 DEF vars
<1>4. ASSUME NEW c \in Clients,
             Call(c) \/ Leave(c) \/ Send(c) \/ Unauthorized(c) \/ AnswerLeft(c) \/ ClientStep(c)
      PROVE  scene' = scene /\ (BrokerStep \/ UNCHANGED broker)
  <2>1. CASE Call(c) \/ Leave(c) \/ Send(c) \/ GoOn(c)
    BY <2>1 DEF Call, Leave, Send, GoOn, BrokerStep
  <2>2. CASE Unauthorized(c) \/ Look(c)
    BY <2>2 DEF Unauthorized, Look
  <2>3. CASE AnswerLeft(c)
    <3>1. PICK o \in {"fail"} \union Answers : \E hint \in Hints(o) : SettleLeft(c, o, hint)
      BY <2>3 DEF AnswerLeft
    <3>2. Settles(c)
      BY <1>2, <3>1 DEF Settles
    <3>3. QED BY <2>3, <3>2 DEF AnswerLeft, BrokerStep
  <2>4. CASE TurnedAway(c)
    <3>1. Settles(c)
      BY <1>2, <2>4 DEF TurnedAway, Settles
    <3>2. QED BY <2>4, <3>1 DEF TurnedAway, BrokerStep
  <2>5. CASE Blame(c)
    <3>1. Settles(c)
      BY <1>2, <2>5 DEF Blame, Settles
    <3>2. QED BY <2>5, <3>1 DEF Blame, BrokerStep
  <2>6. CASE Answer(c)
    <3>1. PICK o \in Answers : \E hint \in Hints(o) : Settle(c, o, hint)
      BY <2>6 DEF Answer
    <3>2. Settles(c)
      BY <1>2, <3>1 DEF Settles
    <3>3. QED BY <2>6, <3>2 DEF Answer, BrokerStep
  <2>7. QED BY <1>4, <2>1, <2>2, <2>3, <2>4, <2>5, <2>6 DEF ClientStep
<1>5. CASE \/ \E f \in Signers : Operate(f) \/ SignerStep(f) \/ Session(f)
           \/ \E s \in Services : CloseServer(s)
           \/ GetWell
  BY <1>5 DEF Operate, SignerStep, Session, CloseServer, GetWell
<1>6. CASE Pass \/ Close
  BY <1>6 DEF Pass, Close, BrokerStep
<1>7. QED BY <1>3, <1>4, <1>5, <1>6 DEF Next

LEMMA BrokerInitial ==
  ASSUME Init
  PROVE  BrokerInv /\ scene \in Scenes
<1>1. BrokerInit /\ scene \in Scenes
  BY DEF Init
<1>2. BrokerTypeOK
  <2>1. 0 \in 0 .. MaxLeft /\ 0 \in 0 .. MaxTotal /\ 0 \in 0 .. MaxWrites /\ 0 \in 0 .. MaxCool
    BY BrokerConstants
  <2>2. client \in [Clients -> ClientState] /\ queue \in Seq(Clients)
    BY <1>1 DEF BrokerInit, Home, ClientState
  <2>3. /\ left \in [Clients -> 0 .. MaxLeft] /\ total \in 0 .. MaxTotal
        /\ active \in [Users -> 0 .. MaxWrites] /\ streak \in 0 .. 2
        /\ cool \in [Users -> 0 .. MaxCool] /\ rate \in [Users -> 0 .. MaxCool]
    BY <1>1, <2>1 DEF BrokerInit
  <2>4. denied \subseteq Users /\ closed \in BOOLEAN
    BY <1>1 DEF BrokerInit
  <2>5. QED BY <2>2, <2>3, <2>4 DEF BrokerTypeOK
<1>3. QueueInv /\ RestInv
  <2>1. DOMAIN queue = {} /\ denied = {}
    BY <1>1 DEF BrokerInit
  <2>2. QED BY <2>1 DEF QueueInv, RestInv
<1>4. ASSUME NEW S \in SUBSET Clients
      PROVE  Counted(0, S)
  <2>1. \A c \in S : client[c].pc = "idle" /\ left[c] = 0
    BY <1>1 DEF BrokerInit, Home
  <2>2. \A n \in 1 .. MaxLeft : ~(n <= 0)
    BY BrokerConstants
  <2>3. \A x : x \notin Running(S)
    BY <2>1, <2>2, RunningMembers
  <2>4. Running(S) = {}
    BY <2>3
  <2>5. QED BY <2>4, FS_EmptySet DEF Counted
<1>5. CountInv
  <2>1. total = 0 /\ \A u \in Users : active[u] = 0 /\ Of(u) \in SUBSET Clients
    BY <1>1, BrokerConstants DEF BrokerInit
  <2>2. QED BY <1>4, <2>1 DEF CountInv
<1>6. QED BY <1>1, <1>2, <1>3, <1>5 DEF BrokerInv

-----------------------------------------------------------------------------
(* What follows.                                                            *)

\* The broker's inductive invariant holds under Access: types, a queue of
\* waiting callers, exact counts, denied identities that wait.
THEOREM BrokerInductive == Spec => [](BrokerInv /\ scene \in Scenes)
<1>1. Init => BrokerInv /\ scene \in Scenes
  BY BrokerInitial
<1>2. (BrokerInv /\ scene \in Scenes) /\ [Next]_vars => (BrokerInv /\ scene \in Scenes)'
  BY AccessSteps, BrokerKeeps
<1>3. QED BY <1>1, <1>2, PTL DEF Spec

\* The loop of run counts exactly the requests under way, those their callers
\* left included, and passes neither limit, with any number of clients.
THEOREM CountersExactTheorem == Spec => []CountersExact
<1>1. BrokerInv => CountersExact
  <2>1. SUFFICES ASSUME BrokerInv, ~closed
                 PROVE  /\ total = Cardinality(Running(Clients)) /\ total <= MaxTotal
                        /\ \A u \in Users :
                             /\ active[u] = Cardinality(Running(Of(u)))
                             /\ Cardinality(Running(Of(u))) <= MaxWrites
    BY DEF CountersExact, Of
  <2>2. total \in 0 .. MaxTotal /\ active \in [Users -> 0 .. MaxWrites]
        /\ MaxTotal \in Nat /\ MaxWrites \in Nat
    BY <2>1, BrokerConstants DEF BrokerInv, BrokerTypeOK
  <2>3. Counted(total, Clients) /\ \A u \in Users : Counted(active[u], Of(u))
    BY <2>1 DEF BrokerInv, CountInv
  <2>4. total = Cardinality(Running(Clients)) /\ \A u \in Users : active[u] = Cardinality(Running(Of(u)))
    BY <2>3 DEF Counted
  <2>5. total <= MaxTotal /\ \A u \in Users : active[u] <= MaxWrites
    BY <2>2
  <2>6. QED BY <2>4, <2>5
<1>2. QED BY <1>1, BrokerInductive, PTL

\* Nothing but time shortens a wait: neither a shorter hint, nor another
\* request's answer, nor the wait a denied call computes for itself.
THEOREM CooldownTheorem == Spec => CooldownNotShortened
<1>1. BrokerInv /\ scene \in Scenes /\ [Next]_vars =>
        [(\E u \in Users : cool'[u] < cool[u] \/ rate'[u] < rate[u]) => Tick]_broker
  <2>1. SUFFICES ASSUME BrokerInv, BrokerStep, ~Tick, NEW u \in Users
                 PROVE  ~(cool'[u] < cool[u]) /\ ~(rate'[u] < rate[u])
    BY AccessSteps
  <2>2. BrokerTypeOK /\ RestInv /\ cool[u] \in Nat /\ rate[u] \in Nat
    BY <2>1, BrokerConstants DEF BrokerInv, BrokerTypeOK
  <2>3. CASE \/ \E c \in Clients : Ask(c) \/ Cancel(c) \/ Dispatch(c) \/ Resume(c)
             \/ CloseBroker
    BY <2>2, <2>3 DEF Ask, Cancel, Dispatch, Resume, CloseBroker
  <2>4. ASSUME NEW c \in Clients, Deny(c)
        PROVE  ~(cool'[u] < cool[u]) /\ ~(rate'[u] < rate[u])
    <3>1. cool' \in [Users -> 0 .. MaxCool] /\ cool'[u] >= cool[u] /\ rate' = rate
      BY <2>2, <2>4, DenyCool DEF Deny
    <3>2. cool'[u] \in Nat
      BY <3>1, BrokerConstants
    <3>3. QED BY <2>2, <3>1, <3>2
  <2>5. ASSUME NEW c \in Clients, Settles(c)
        PROVE  ~(cool'[u] < cool[u]) /\ ~(rate'[u] < rate[u])
    <3>1. PICK o \in Outcomes, hint \in 0 .. MaxCool : Record(c, o, hint)
      BY <2>5 DEF Settles, Settle, SettleLeft
    <3>2. /\ cool' \in [Users -> 0 .. MaxCool] /\ rate' \in [Users -> 0 .. MaxCool]
          /\ cool'[u] >= cool[u] /\ rate'[u] >= rate[u]
      BY <2>2, <3>1, RecordStep
    <3>3. cool'[u] \in Nat /\ rate'[u] \in Nat
      BY <3>2, BrokerConstants
    <3>4. QED BY <2>2, <3>2, <3>3
  <2>6. QED BY <2>1, <2>3, <2>4, <2>5 DEF BrokerStep
<1>2. QED BY <1>1, BrokerInductive, PTL DEF Spec, CooldownNotShortened

\* After an HTTP 403 no request of the identity is dispatched before time has
\* passed, whichever call was denied and however many others wait.
THEOREM DeniedRestTheorem == Spec => DeniedAccountRests
<1>1. BrokerInv /\ scene \in Scenes /\ [Next]_vars =>
        [\A c \in Clients : client[c].pc # "running" /\ client'[c].pc = "running" =>
           UserOf[c] \notin denied]_broker
  <2>1. SUFFICES ASSUME BrokerInv, BrokerStep, NEW c \in Clients,
                        client[c].pc # "running", client'[c].pc = "running"
                 PROVE  UserOf[c] \notin denied
    BY AccessSteps
  <2>2. BrokerTypeOK
    BY <2>1 DEF BrokerInv
  <2>3. ASSUME NEW d \in Clients, Dispatch(d)
        PROVE  UserOf[c] \notin denied
    <3>1. PICK i \in Chosen : queue[i] = d
      BY <2>3 DEF Dispatch
    <3>2. d = c
      BY <2>1, <2>2, <2>3, PlaceStep DEF Dispatch
    <3>3. ~(cool[UserOf[c]] > 0)
      BY <3>1, <3>2, ChosenStep DEF Blocked
    <3>4. QED BY <2>1, <3>3 DEF BrokerInv, RestInv
  <2>4. ASSUME NEW d \in Clients, Ask(d) \/ Cancel(d) \/ Deny(d) \/ Resume(d) \/ Settles(d)
        PROVE  FALSE
    <3>1. PICK f \in ClientState : client' = [client EXCEPT ![d] = f] /\ f.pc # "running"
      <4>1. client[d] \in ClientState /\ client \in [Clients -> ClientState] /\ Home \in ClientState
            /\ Home.pc = "idle" /\ [pc |-> "queued", denials |-> 1] \in ClientState
        BY <2>2, ClientType DEF ClientState
      <4>2. \A pc \in {"queued", "denied", "pause"} :
              /\ [client[d] EXCEPT !.pc = pc] \in ClientState
              /\ [client[d] EXCEPT !.pc = pc].pc # "running"
        BY <2>2, <4>1, ClientType
      <4>3. CASE Ask(d)
        BY <4>1, <4>2, <4>3 DEF Ask
      <4>4. CASE Cancel(d)
        BY <4>1, <4>4 DEF Cancel
      <4>5. CASE Deny(d)
        BY <4>1, <4>5 DEF Deny
      <4>6. CASE Resume(d)
        BY <4>1, <4>2, <4>6 DEF Resume
      <4>7. CASE Settles(d)
        <5>1. CASE UNCHANGED client
          BY <2>1, <5>1
        <5>2. CASE \E o \in Outcomes, hint \in 0 .. MaxCool : Settle(d, o, hint)
          <6>1. PICK o \in Outcomes, hint \in 0 .. MaxCool : Settle(d, o, hint)
            BY <5>2
          <6>2. client' = [client EXCEPT ![d] =
                  IF o = "denied" THEN [client[d] EXCEPT !.pc = "denied"]
                  ELSE IF Retries(d, o) THEN [client[d] EXCEPT !.pc = "pause"] ELSE Home]
            BY <6>1 DEF Settle
          <6>3. QED BY <4>1, <4>2, <6>2
        <5>3. QED BY <4>7, <5>1, <5>2 DEF Settles, SettleLeft
      <4>8. QED BY <2>4, <4>3, <4>4, <4>5, <4>6, <4>7
    <3>2. client'[d] = f /\ \A e \in Clients \ {d} : client'[e] = client[e]
      BY <2>2, <3>1, MoveStep
    <3>3. QED BY <2>1, <3>1, <3>2
  <2>5. CASE CloseBroker \/ Tick
    <3>1. client'[c].pc # "running"
      <4>1. CASE CloseBroker
        BY <4>1, ClientType, <2>2 DEF CloseBroker
      <4>2. CASE Tick
        BY <2>1, <4>2 DEF Tick
      <4>3. QED BY <2>5, <4>1, <4>2
    <3>2. QED BY <2>1, <3>1
  <2>6. QED BY <2>1, <2>3, <2>4, <2>5 DEF BrokerStep
<1>2. QED BY <1>1, BrokerInductive, PTL DEF Spec, DeniedAccountRests

=============================================================================
