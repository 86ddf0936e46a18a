------------------------ MODULE Transactions16_proofs ------------------------
(***************************************************************************)
(* Theorems about Transactions16, for any number of connectors, sessions,  *)
(* samples, faults and crashes: the answer to a StartTransaction.req finds *)
(* its transaction, a row is acknowledged only for its own                 *)
(* StopTransaction.req, and no transaction that is over is forgotten.      *)
(*                                                                         *)
(* The ids tie the messages, the table, the objects and the maps together, *)
(* so the invariant speaks of all the places where an id is kept: an id    *)
(* stands everywhere for the same message of the same session (RefInv).    *)
(***************************************************************************)
EXTENDS Transactions16, SequenceTheorems, FiniteSetTheorems, TLAPS

-----------------------------------------------------------------------------
(* Positions and ranks.                                                    *)

\* Ranks: every one up to the size of a set is taken by exactly one member, in their order.
LEMMA NthInOrder ==
    ASSUME NEW I, NEW n \in Nat, I \subseteq 0..n
    PROVE  /\ Cardinality(I) \in Nat /\ Cardinality(I) <= Cardinality(0..n)
           /\ \A k \in 1..Cardinality(I) : Nth(I, k) \in I
           /\ \A i \in I : \E k \in 1..Cardinality(I) : Nth(I, k) = i
           /\ \A k, l \in 1..Cardinality(I) : k < l => Nth(I, k) < Nth(I, l)
<1> DEFINE B(i) == {j \in I : j <= i}
           r == [i \in I |-> Cardinality(B(i))]
           K == Cardinality(I)
<1>1. IsFiniteSet(I) /\ K \in Nat /\ K <= Cardinality(0..n)
  <2>1. IsFiniteSet(0..n)
    BY FS_Interval
  <2>2. IsFiniteSet(I) /\ K <= Cardinality(0..n)
    BY <2>1, FS_Subset
  <2> QED  BY <2>2, FS_CardinalityType
<1>2. \A i \in I : i \in Nat
  OBVIOUS
<1>3. ASSUME NEW i \in I PROVE r[i] \in 1..K /\ IsFiniteSet(B(i))
  <2>1. B(i) \in SUBSET I /\ i \in B(i)
    BY <1>2
  <2> HIDE DEF B
  <2>2. IsFiniteSet(B(i)) /\ Cardinality(B(i)) \in Nat /\ Cardinality(B(i)) <= K
    BY <1>1, <2>1, FS_Subset, FS_CardinalityType
  <2>3. Cardinality(B(i)) # 0
    BY <2>1, <2>2, FS_EmptySet
  <2> QED  BY <1>1, <2>2, <2>3
<1>4. ASSUME NEW i \in I, NEW j \in I, i < j PROVE r[i] < r[j]
  <2>1. B(i) \in SUBSET B(j) /\ j \in B(j) /\ j \notin B(i)
    <3>1. \A x \in I : x <= i => x <= j
      BY <1>2, <1>4
    <3>2. j <= j /\ ~(j <= i)
      BY <1>2, <1>4
    <3> QED  BY <3>1, <3>2
  <2>2. r[i] = Cardinality(B(i)) /\ r[j] = Cardinality(B(j)) /\ r[i] \in 1..K /\ r[j] \in 1..K
    BY <1>3
  <2>3. IsFiniteSet(B(j))
    BY <1>3
  <2> HIDE DEF B, r
  <2>4. r[i] <= r[j] /\ (r[i] = r[j] => B(i) = B(j))
    BY <2>1, <2>2, <2>3, FS_Subset
  <2> QED  BY <1>1, <2>1, <2>2, <2>4
<1> HIDE DEF r, B, K
<1>5. r \in Injection(I, 1..K)
  <2>1. r \in [I -> 1..K]
    BY <1>3 DEF r
  <2>2. \A i, j \in I : r[i] = r[j] => i = j
    BY <1>1, <1>2, <1>3, <1>4
  <2> QED  BY <2>1, <2>2 DEF Injection, IsInjective
<1>6. IsFiniteSet(1..K) /\ Cardinality(1..K) = K
  BY <1>1, FS_Interval
<1>7. \A k \in 1..K : \E i \in I : r[i] = k
  <2>1. r \in Surjection(I, 1..K)
    BY <1>5, <1>6, FS_Injection DEF K
  <2> QED  BY <2>1 DEF Surjection
<1>8. \A k \in 1..K : Nth(I, k) \in I /\ r[Nth(I, k)] = k
  <2> SUFFICES ASSUME NEW k \in 1..K PROVE Nth(I, k) \in I /\ r[Nth(I, k)] = k
    OBVIOUS
  <2>1. \E i \in I : Cardinality({j \in I : j <= i}) = k
    BY <1>7 DEF r, B
  <2>2. Nth(I, k) \in I /\ Cardinality({j \in I : j <= Nth(I, k)}) = k
    BY <2>1 DEF Nth
  <2> QED  BY <2>2 DEF r, B
<1>9. \A i \in I : \E k \in 1..K : Nth(I, k) = i
  <2> SUFFICES ASSUME NEW i \in I PROVE Nth(I, r[i]) = i
    BY <1>3
  <2>1. r[i] \in 1..K
    BY <1>3
  <2>2. Nth(I, r[i]) \in I /\ r[Nth(I, r[i])] = r[i]
    BY <1>8, <2>1
  <2> QED  BY <1>5, <2>2 DEF Injection, IsInjective
<1>10. ASSUME NEW k \in 1..K, NEW l \in 1..K, k < l PROVE Nth(I, k) < Nth(I, l)
  <2>1. /\ Nth(I, k) \in I /\ r[Nth(I, k)] = k
        /\ Nth(I, l) \in I /\ r[Nth(I, l)] = l
    BY <1>8
  <2> DEFINE x == Nth(I, k)
             y == Nth(I, l)
  <2>2. x \in I /\ y \in I /\ x \in Nat /\ y \in Nat /\ r[x] = k /\ r[y] = l
    BY <1>2, <2>1
  <2> HIDE DEF x, y
  <2>3. ~(l < k) /\ k # l
    BY <1>1, <1>10
  <2>4. ~(y < x) /\ x # y
    BY <1>4, <2>2, <2>3
  <2>5. x < y
    BY <2>2, <2>4
  <2> QED  BY <2>5 DEF x, y
<1> QED  BY <1>1, <1>8, <1>9, <1>10 DEF K

\* Filtering keeps the elements at the positions, and their order.
LEMMA FilterElements ==
    ASSUME NEW S, NEW s \in Seq(S), NEW I \in SUBSET DOMAIN s
    PROVE  /\ ElementsAt(s, I) \in Seq(S)
           /\ Len(ElementsAt(s, I)) <= Len(s)
           /\ ToSet(ElementsAt(s, I)) = {s[i] : i \in I}
           /\ \A k, l \in DOMAIN ElementsAt(s, I) :
                 k < l => \E i, j \in I : /\ i < j
                                         /\ ElementsAt(s, I)[k] = s[i]
                                         /\ ElementsAt(s, I)[l] = s[j]
<1> DEFINE K == Cardinality(I)
           f == ElementsAt(s, I)
<1>1. /\ DOMAIN s = 1..Len(s) /\ Len(s) \in Nat
      /\ \A i \in 1..Len(s) : s[i] \in S
  BY LenProperties, ElementOfSeq
<1>2. I \subseteq 1..Len(s) /\ I \subseteq 0..Len(s)
  BY <1>1
<1>3. /\ K \in Nat
      /\ \A k \in 1..K : Nth(I, k) \in I
      /\ \A i \in I : \E k \in 1..K : Nth(I, k) = i
      /\ \A k, l \in 1..K : k < l => Nth(I, k) < Nth(I, l)
  BY <1>1, <1>2, NthInOrder
<1>4. K <= Len(s)
  <2>1. IsFiniteSet(1..Len(s)) /\ Cardinality(1..Len(s)) = Len(s)
    <3> DEFINE n == Len(s)
    <3>1. n \in Nat
      BY <1>1
    <3> HIDE DEF n
    <3>2. IsFiniteSet(1..n) /\ Cardinality(1..n) = n
      BY <3>1, FS_Interval
    <3> QED  BY <3>2 DEF n
  <2> QED  BY <1>2, <2>1, FS_Subset
<1> HIDE DEF K
<1>5. f = [k \in 1..K |-> s[Nth(I, k)]]
  BY DEF ElementsAt, K
<1> HIDE DEF f
<1>6. \A k \in 1..K : f[k] = s[Nth(I, k)] /\ f[k] \in S
  <2>1. \A k \in 1..K : Nth(I, k) \in 1..Len(s)
    BY <1>2, <1>3
  <2> QED  BY <1>1, <1>5, <2>1
<1>7. f \in Seq(S) /\ Len(f) = K /\ DOMAIN f = 1..K
  <2>1. f \in [1..K -> S]
    BY <1>5, <1>6
  <2>2. f \in Seq(S)
    BY <1>3, <2>1, SeqDef
  <2> QED  BY <1>3, <2>1, <2>2, LenProperties
<1>8. ToSet(f) = {s[i] : i \in I}
  <2>1. \A k \in 1..K : f[k] \in {s[i] : i \in I}
    BY <1>3, <1>6
  <2>2. \A i \in I : \E k \in 1..K : f[k] = s[i]
    BY <1>3, <1>6
  <2> QED  BY <1>7, <2>1, <2>2 DEF ToSet
<1>9. \A k, l \in 1..K : k < l => \E i, j \in I : i < j /\ f[k] = s[i] /\ f[l] = s[j]
  BY <1>3, <1>6
<1> QED  BY <1>4, <1>7, <1>8, <1>9 DEF f

\* Ordering a set keeps its members.
LEMMA OrderedSet ==
    ASSUME NEW I \in SUBSET Nat, NEW n \in Nat, I \subseteq 1..n
    PROVE  /\ Ordered(I) \in Seq(I)
           /\ ToSet(Ordered(I)) = I
           /\ \A k, l \in DOMAIN Ordered(I) : k < l => Ordered(I)[k] < Ordered(I)[l]
<1> DEFINE K == Cardinality(I)
           f == Ordered(I)
<1>1. /\ K \in Nat
      /\ \A k \in 1..K : Nth(I, k) \in I
      /\ \A i \in I : \E k \in 1..K : Nth(I, k) = i
      /\ \A k, l \in 1..K : k < l => Nth(I, k) < Nth(I, l)
  <2>1. I \subseteq 0..n
    OBVIOUS
  <2> QED  BY <2>1, NthInOrder
<1> HIDE DEF K
<1>2. f = [k \in 1..K |-> Nth(I, k)]
  BY DEF Ordered, K
<1> HIDE DEF f
<1>3. f \in Seq(I) /\ DOMAIN f = 1..K /\ \A k \in 1..K : f[k] = Nth(I, k)
  <2>1. f \in [1..K -> I]
    BY <1>1, <1>2
  <2> QED  BY <1>1, <1>2, <2>1, SeqDef
<1>4. ToSet(f) = I
  <2>1. \A k \in 1..K : f[k] \in I
    BY <1>1, <1>3
  <2>2. \A i \in I : \E k \in 1..K : f[k] = i
    BY <1>1, <1>3
  <2> QED  BY <1>3, <2>1, <2>2 DEF ToSet
<1> QED  BY <1>1, <1>3, <1>4 DEF f

-----------------------------------------------------------------------------
(* The invariant.                                                          *)

\* The messages the queue holds, or whose answer is being handled.
Held == Range(queue) \cup ({inFlight, rx} \ {None})

\* What an id stands for: the request of a session. Which session a MeterValues.req
\* belongs to is left out.
Id(n, s, type) == [n |-> n, s |-> s, type |-> type]
IdOf(m) == Id(m.n, IF m.type = "meter" THEN 0 ELSE m.s, m.type)

\* All the places where an id is kept.
MessageRefs == {IdOf(m) : m \in Range(rows) \cup Held}
TableRefs ==
    {Id(table[s].startMid.n, s, "start") : s \in Sessions}
        \cup {Id(table[s].stopMid.n, s, "stop") : s \in {r \in Sessions : table[r].stopMid # None}}
TxnRefs ==
    {Id(txn[s].startMid.n, s, "start") : s \in DOMAIN txn}
        \cup {Id(txn[s].stopMid.n, s, "stop") : s \in {r \in DOMAIN txn : txn[r].stopMid # None}}
OperationRefs == {Id(pc[c].mid.n, pc[c].s, "stop") : c \in {d \in Connectors : pc[d].at = "stopping"}}
StopRefs == {Id(mid.n, stopIds[mid].s, "stop") : mid \in DOMAIN stopIds \ {None}}
MeterRefs == {Id(mid.n, 0, "meter") : mid \in UNION Range(meterIds)}
Refs == MessageRefs \cup TableRefs \cup TxnRefs \cup OperationRefs \cup StopRefs \cup MeterRefs

RefInv ==
    /\ \A x \in Refs : x.n \in 1..ids
    /\ \A x, y \in Refs : x.n = y.n => x = y

\* Every message is one of a session of the table. A StopTransaction.req carries an id
\* of its own session, and so does each row of the table, which never hears of a retry.
TidInv ==
    /\ \A m \in Range(rows) \cup Held :
          /\ m.s \in Sessions
          /\ m.type = "stop" => m.tid # None /\ m.tid.s = m.s
    /\ \A s \in Sessions : table[s].tid.s = s /\ table[s].startMid.gen = 0
    /\ \A s \in DOMAIN txn : txn[s].tid # None => txn[s].tid.s = s
    /\ \A s \in DOMAIN given : given[s] # None => given[s].s = s
    /\ \A m \in {inFlight, rx} \ {None} : m.type = "start" => given[m.s] # None

\* In a queue nothing of a session comes before its StartTransaction.req.
StartFirst(q) == \A i, j \in DOMAIN q : i < j /\ q[j].type = "start" => q[i].s # q[j].s

StartIn(S, s) == \E m \in S : m.type = "start" /\ m.s = s

Unanswered == Range(queue) \cup ({inFlight} \ {None})

\* Nothing of a session passes its StartTransaction.req on the way to the CSMS.
OrderInv ==
    /\ StartFirst(rows) /\ StartFirst(queue)
    /\ inFlight # None => ~StartIn(Range(queue), inFlight.s)
    /\ rx # None => ~StartIn(Unanswered, rx.s)

\* The CSMS has answered the stops that it answered; nothing is to be started then.
DeliveredInv ==
    /\ delivered \subseteq Sessions
    /\ rx # None /\ rx.type = "stop" => rx.s \in delivered
    /\ \A m \in Held : m.type = "start" => m.s \notin delivered

\* A StartTransaction.req has the id that the transaction knows, on disk the id in its row.
StartInv ==
    /\ \A m \in Range(rows) : m.type = "start" =>
          /\ Mid(m) = table[m.s].startMid
          /\ StartIn(Unanswered, m.s)
    /\ \A m \in Held : m.type = "start" =>
          /\ m.n = table[m.s].startMid.n
          /\ m.s \in Known /\ txn[m.s].startMid = Mid(m)

\* The transaction of a connector is the last one of its rows.
Leads(c, s) ==
    /\ s \in Sessions /\ table[s].connector = c
    /\ \A r \in Sessions : table[r].connector = c => r <= s

Over(s) == StopPending(s) \/ s \in gaveUp \/ s \in delivered

\* What holds at a connector: nothing of a transaction is queued before its object is
\* made; one that is being stopped is still active, and its StopTransaction.req on its way.
OperationAt(c) ==
    /\ active[c] # None => Leads(c, active[c])
    /\ pc[c].at = "starting" =>
          /\ active[c] = None /\ pc[c].s # None /\ Leads(c, pc[c].s)
          /\ pc[c].s \notin delivered
          /\ \A m \in Range(rows) \cup Held : m.s # pc[c].s
    /\ pc[c].at = "stopping" =>
          /\ active[c] # None /\ active[c] = pc[c].s /\ pc[c].mid # None
          /\ Over(pc[c].s)
OperationInv == \A c \in Connectors : OperationAt(c)

IndInv ==
    /\ TypeOK /\ RefInv /\ TidInv /\ OrderInv /\ DeliveredInv /\ StartInv /\ OperationInv
    /\ AckMeansStopped /\ NoTransactionForgotten

-----------------------------------------------------------------------------
(* Queues                                                                  *)

\* The elements of a sequence.
LEMMA ElementsIn ==
    ASSUME NEW S, NEW q \in Seq(S)
    PROVE  Range(q) \subseteq S
<1>1. DOMAIN q = 1..Len(q)
  OBVIOUS
<1>2. ASSUME NEW x \in Range(q) PROVE x \in S
  <2>1. PICK i \in DOMAIN q : q[i] = x
    BY <1>2 DEF Range
  <2>2. QED
    BY <1>1, <2>1
<1>3. QED
  BY <1>2

\* An element is appended.
LEMMA AppendFacts ==
    ASSUME NEW q \in Seq(Messages), NEW m \in Messages
    PROVE  /\ Append(q, m) \in Seq(Messages)
           /\ Range(Append(q, m)) = Range(q) \cup {m}
           /\ StartFirst(q) /\ (m.type = "start" => \A x \in Range(q) : x.s # m.s)
                 => StartFirst(Append(q, m))
<1> DEFINE a == Append(q, m)
           k == Len(q)
<1>1. /\ a \in Seq(Messages) /\ k \in Nat /\ Len(a) = k + 1
      /\ a[k + 1] = m /\ \A i \in 1..k : a[i] = q[i]
      /\ DOMAIN a = 1..(k + 1) /\ DOMAIN q = 1..k
  OBVIOUS
<1> HIDE DEF a, k
<1>2. Range(a) = Range(q) \cup {m}
  <2>1. ASSUME NEW x PROVE x \in Range(a) <=> x \in Range(q) \cup {m}
    <3>1. \A i : i \in 1..(k + 1) <=> i \in 1..k \/ i = k + 1
      BY <1>1
    <3>2. QED
      BY <1>1, <3>1 DEF Range
  <2>2. QED
    BY <2>1
<1>3. ASSUME StartFirst(q), m.type = "start" => \A x \in Range(q) : x.s # m.s
      PROVE  StartFirst(a)
  <2>1. SUFFICES ASSUME NEW i \in 1..(k + 1), NEW j \in 1..(k + 1), i < j, a[j].type = "start"
                 PROVE  a[i].s # a[j].s
    BY <1>1 DEF StartFirst
  <2>2. i \in 1..k /\ a[i] = q[i]
    BY <1>1, <2>1
  <2>3. CASE j = k + 1
    BY <1>1, <1>3, <2>1, <2>2, <2>3 DEF Range
  <2>4. CASE j \in 1..k
    BY <1>1, <1>3, <2>1, <2>2, <2>4 DEF StartFirst
  <2>5. QED
    BY <1>1, <2>1, <2>3, <2>4
<1>4. QED
  BY <1>1, <1>2, <1>3 DEF a

\* The first element is taken off, and one is put in front.
LEMMA HeadFacts ==
    ASSUME NEW q \in Seq(Messages), q # << >>
    PROVE  /\ Head(q) \in Messages /\ Head(q) = q[1]
           /\ Tail(q) \in Seq(Messages)
           /\ Range(q) = {Head(q)} \cup Range(Tail(q))
           /\ StartFirst(q) => /\ StartFirst(Tail(q))
                               /\ ~StartIn(Range(Tail(q)), Head(q).s)
<1> DEFINE h == Head(q)
           t == Tail(q)
           k == Len(q)
<1>1. /\ h \in Messages /\ h = q[1] /\ t \in Seq(Messages) /\ k \in Nat \ {0} /\ Len(t) = k - 1
      /\ DOMAIN q = 1..k /\ DOMAIN t = 1..(k - 1)
      /\ \A i \in 1..(k - 1) : t[i] = q[i + 1]
  OBVIOUS
<1> HIDE DEF h, t, k
<1>2. \A i \in 2..k : i - 1 \in 1..(k - 1) /\ t[i - 1] = q[i]
  <2>1. SUFFICES ASSUME NEW i \in 2..k PROVE i - 1 \in 1..(k - 1) /\ t[i - 1] = q[i]
    OBVIOUS
  <2>2. i - 1 \in 1..(k - 1) /\ (i - 1) + 1 = i
    BY <1>1
  <2>3. QED
    BY <1>1, <2>2
<1>3. ASSUME NEW x PROVE x \in Range(q) <=> x = h \/ x \in Range(t)
  <2>1. ASSUME x \in Range(q) PROVE x = h \/ x \in Range(t)
    <3>1. PICK i \in 1..k : q[i] = x
      BY <1>1, <2>1 DEF Range
    <3>2. CASE i = 1
      BY <1>1, <3>1, <3>2
    <3>3. CASE i \in 2..k
      BY <1>1, <1>2, <3>1, <3>3 DEF Range
    <3>4. QED
      BY <1>1, <3>1, <3>2, <3>3
  <2>2. ASSUME x = h \/ x \in Range(t) PROVE x \in Range(q)
    <3>1. CASE x = h
      BY <1>1, <3>1 DEF Range
    <3>2. CASE x \in Range(t)
      <4>1. PICK i \in 1..(k - 1) : t[i] = x
        BY <1>1, <3>2 DEF Range
      <4>2. i + 1 \in 1..k /\ q[i + 1] = x
        BY <1>1, <4>1
      <4>3. QED
        BY <1>1, <4>2 DEF Range
    <3>3. QED
      BY <2>2, <3>1, <3>2
  <2>3. QED
    BY <2>1, <2>2
<1>4. ASSUME StartFirst(q) PROVE StartFirst(t)
  <2>1. SUFFICES ASSUME NEW i \in 1..(k - 1), NEW j \in 1..(k - 1), i < j, t[j].type = "start"
                 PROVE  t[i].s # t[j].s
    BY <1>1 DEF StartFirst
  <2>2. i + 1 \in 1..k /\ j + 1 \in 1..k /\ i + 1 < j + 1
    BY <1>1, <2>1
  <2>3. t[i] = q[i + 1] /\ t[j] = q[j + 1]
    BY <1>1, <2>1
  <2>4. q[i + 1].s # q[j + 1].s
    BY <1>1, <1>4, <2>1, <2>2, <2>3 DEF StartFirst
  <2>5. QED
    BY <2>3, <2>4
<1>5. ASSUME StartFirst(q), StartIn(Range(t), h.s) PROVE FALSE
  <2>1. PICK i \in 1..(k - 1) : t[i].type = "start" /\ t[i].s = h.s
    BY <1>1, <1>5 DEF StartIn, Range
  <2>2. 1 \in 1..k /\ i + 1 \in 1..k /\ 1 < i + 1 /\ q[i + 1] = t[i] /\ q[1] = h
    BY <1>1, <2>1
  <2>3. QED
    BY <1>1, <1>5, <2>1, <2>2 DEF StartFirst
<1>6. Range(q) = {h} \cup Range(t)
  BY <1>3
<1>7. QED
  BY <1>1, <1>4, <1>5, <1>6 DEF h, t

LEMMA FrontFacts ==
    ASSUME NEW q \in Seq(Messages), NEW m \in Messages
    PROVE  /\ <<m>> \o q \in Seq(Messages)
           /\ Range(<<m>> \o q) = {m} \cup Range(q)
           /\ StartFirst(q) /\ ~StartIn(Range(q), m.s) => StartFirst(<<m>> \o q)
<1> DEFINE a == <<m>> \o q
           k == Len(q)
<1>1. /\ a \in Seq(Messages) /\ k \in Nat /\ Len(a) = k + 1 /\ a[1] = m
      /\ DOMAIN a = 1..(k + 1) /\ DOMAIN q = 1..k
      /\ \A i \in 1..k : a[i + 1] = q[i]
  OBVIOUS
<1> HIDE DEF a, k
<1>2. \A i \in 2..(k + 1) : i - 1 \in 1..k /\ a[i] = q[i - 1]
  <2>1. SUFFICES ASSUME NEW i \in 2..(k + 1) PROVE i - 1 \in 1..k /\ a[i] = q[i - 1]
    OBVIOUS
  <2>2. i - 1 \in 1..k /\ (i - 1) + 1 = i
    BY <1>1
  <2>3. QED
    BY <1>1, <2>2
<1>3. ASSUME NEW x PROVE x \in Range(a) <=> x = m \/ x \in Range(q)
  <2>1. ASSUME x \in Range(a) PROVE x = m \/ x \in Range(q)
    <3>1. PICK i \in 1..(k + 1) : a[i] = x
      BY <1>1, <2>1 DEF Range
    <3>2. CASE i = 1
      BY <1>1, <3>1, <3>2
    <3>3. CASE i \in 2..(k + 1)
      BY <1>1, <1>2, <3>1, <3>3 DEF Range
    <3>4. QED
      BY <1>1, <3>1, <3>2, <3>3
  <2>2. ASSUME x = m \/ x \in Range(q) PROVE x \in Range(a)
    <3>1. CASE x = m
      BY <1>1, <3>1 DEF Range
    <3>2. CASE x \in Range(q)
      <4>1. PICK i \in 1..k : q[i] = x
        BY <1>1, <3>2 DEF Range
      <4>2. i + 1 \in 1..(k + 1) /\ a[i + 1] = x
        BY <1>1, <4>1
      <4>3. QED
        BY <1>1, <4>2 DEF Range
    <3>3. QED
      BY <2>2, <3>1, <3>2
  <2>3. QED
    BY <2>1, <2>2
<1>4. ASSUME StartFirst(q), ~StartIn(Range(q), m.s) PROVE StartFirst(a)
  <2>1. SUFFICES ASSUME NEW i \in 1..(k + 1), NEW j \in 1..(k + 1), i < j, a[j].type = "start"
                 PROVE  a[i].s # a[j].s
    BY <1>1 DEF StartFirst
  <2>2. j \in 2..(k + 1) /\ j - 1 \in 1..k /\ a[j] = q[j - 1]
    BY <1>1, <1>2, <2>1
  <2>3. CASE i = 1
    BY <1>1, <1>4, <2>1, <2>2, <2>3 DEF StartIn, Range
  <2>4. CASE i \in 2..(k + 1)
    <3>1. i - 1 \in 1..k /\ a[i] = q[i - 1] /\ i - 1 < j - 1
      BY <1>1, <1>2, <2>1, <2>2, <2>4
    <3>2. QED
      BY <1>1, <1>4, <2>1, <2>2, <3>1, SMTT(30) DEF StartFirst
  <2>5. QED
    BY <1>1, <2>1, <2>3, <2>4
<1>5. Range(a) = {m} \cup Range(q)
  BY <1>3
<1>6. QED
  BY <1>1, <1>4, <1>5 DEF a

\* A row is deleted.
LEMMA RemoveRowFacts ==
    ASSUME rows \in Seq(Messages), NEW n, RemoveRow(n)
    PROVE  /\ rows' \in Seq(Messages)
           /\ \A m : m \in Range(rows)' <=> m \in Range(rows) /\ m.n # n
           /\ StartFirst(rows) => StartFirst(rows)'
<1> DEFINE I == {i \in DOMAIN rows : rows[i].n # n}
<1>1. I \in SUBSET DOMAIN rows /\ rows' = ElementsAt(rows, I)
  BY DEF RemoveRow
<1> HIDE DEF I
<1>2. /\ rows' \in Seq(Messages)
      /\ ToSet(rows') = {rows[i] : i \in I}
      /\ \A k, l \in DOMAIN rows' :
            k < l => \E i, j \in I : i < j /\ rows'[k] = rows[i] /\ rows'[l] = rows[j]
  BY <1>1, FilterElements
<1>3. Range(rows)' = {rows[i] : i \in I}
  BY <1>2 DEF ToSet, Range
<1>4. \A m : m \in Range(rows)' <=> m \in Range(rows) /\ m.n # n
  BY <1>3 DEF Range, I
<1>5. ASSUME StartFirst(rows) PROVE StartFirst(rows)'
  <2>1. SUFFICES ASSUME NEW k \in DOMAIN rows', NEW l \in DOMAIN rows', k < l, rows'[l].type = "start"
                 PROVE  rows'[k].s # rows'[l].s
    BY DEF StartFirst
  <2>2. PICK i, j \in I : i < j /\ rows'[k] = rows[i] /\ rows'[l] = rows[j]
    BY <1>2, <2>1
  <2>3. QED
    BY <1>5, <2>1, <2>2 DEF StartFirst, I
<1>6. QED
  BY <1>2, <1>4, <1>5

\* Messages are changed where they are, without their types and sessions.
LEMMA InPlace ==
    ASSUME NEW q \in Seq(Messages), NEW r \in Seq(Messages), DOMAIN r = DOMAIN q,
           \A i \in DOMAIN q : r[i].type = q[i].type /\ r[i].s = q[i].s,
           StartFirst(q)
    PROVE  StartFirst(r)
BY DEF StartFirst

\* What is on disk of a session's StopTransaction.req.
LEMMA StopPendingIn ==
    ASSUME NEW s
    PROVE  StopPending(s) <=> \E m \in Range(rows) : m.type = "stop" /\ m.s = s
BY DEF StopPending, Range

-----------------------------------------------------------------------------
(* Ids                                                                     *)

\* The elements of the sequences, and the numbers of the sessions.
LEMMA Basics ==
    ASSUME TypeOK
    PROVE  /\ Range(rows) \subseteq Messages /\ Range(queue) \subseteq Messages
           /\ Held \subseteq Messages
           /\ Sessions = 1..Len(table) /\ Len(table) \in Nat /\ Len(table) <= MaxSessions
           /\ Sessions \subseteq Nat /\ Sessions \subseteq DOMAIN given /\ None \notin Sessions
           /\ \A s \in Sessions : table[s] \in Rows
           /\ MaxSessions \in Nat
<1>1. Range(rows) \subseteq Messages /\ Range(queue) \subseteq Messages
  BY ElementsIn DEF TypeOK
<1>2. Held \subseteq Messages
  BY <1>1 DEF Held, TypeOK
<1>3. Sessions = 1..Len(table) /\ Len(table) \in Nat /\ \A s \in Sessions : table[s] \in Rows
  BY DEF TypeOK, Sessions
<1>4. MaxSessions \in Nat /\ Len(table) <= MaxSessions /\ DOMAIN given = 1..MaxSessions
  BY TransactionsAssumption DEF TypeOK
<1>5. Sessions \subseteq Nat /\ Sessions \subseteq DOMAIN given
  BY <1>3, <1>4
<1>6. None \notin Sessions
  BY <1>5, NoneAssumption
<1>7. QED
  BY <1>1, <1>2, <1>3, <1>4, <1>5, <1>6

\* New ids are larger than all those made before: no id comes to stand for a second thing.
LEMMA RefsGrow ==
    ASSUME RefInv, ids \in Nat, ids' \in Nat, ids <= ids',
           NEW N, \A x \in Refs' : x \in Refs \/ x \in N,
           \A x \in N : x.n \in (ids + 1)..ids',
           \A x, y \in N : x.n = y.n => x = y
    PROVE  RefInv'
<1>1. \A x \in Refs : x.n \in Nat /\ x.n <= ids /\ x.n >= 1
  BY DEF RefInv
<1>2. \A x \in N : x.n \in Nat /\ x.n > ids /\ x.n <= ids' /\ x.n >= 1
  OBVIOUS
<1>3. ASSUME NEW x \in Refs' PROVE x.n \in 1..ids'
  BY <1>1, <1>2
<1>4. ASSUME NEW x \in Refs', NEW y \in Refs', x.n = y.n PROVE x = y
  <2>1. CASE x \in Refs /\ y \in Refs
    BY <1>4, <2>1 DEF RefInv
  <2>2. CASE x \in N /\ y \in N
    BY <1>4, <2>2
  <2>3. CASE (x \in Refs /\ y \in N) \/ (x \in N /\ y \in Refs)
    BY <1>1, <1>2, <1>4, <2>3
  <2>4. QED
    BY <2>1, <2>2, <2>3
<1>5. QED
  BY <1>3, <1>4 DEF RefInv

\* The ids that are kept come from somewhere.
LEMMA RefsFrom ==
    ASSUME RefInv, ids \in Nat, ids' = ids, \A x \in Refs' : x \in Refs
    PROVE  RefInv'
BY DEF RefInv

\* Two messages with the same number are the same request.
LEMMA SameRequest ==
    ASSUME RefInv, NEW m \in Range(rows) \cup Held, NEW x \in Range(rows) \cup Held, m.n = x.n
    PROVE  m.type = x.type /\ (m.type # "meter" => m.s = x.s)
<1>1. IdOf(m) \in Refs /\ IdOf(x) \in Refs
  BY DEF Refs, MessageRefs
<1>2. IdOf(m).n = IdOf(x).n
  BY DEF IdOf, Id
<1>3. IdOf(m) = IdOf(x)
  BY <1>1, <1>2 DEF RefInv
<1>4. QED
  BY <1>3 DEF IdOf, Id

-----------------------------------------------------------------------------
(* Steps that leave the application's operations alone                     *)

LEMMA OperationFrame ==
    ASSUME OperationInv, UNCHANGED <<active, pc>>, Sessions' = Sessions,
           \A s \in Sessions : table'[s].connector = table[s].connector,
           \A m \in (Range(rows) \cup Held)' : \E x \in Range(rows) \cup Held : x.s = m.s,
           \A s \in delivered' : s \in delivered \/ \E x \in Held : x.s = s,
           \A s \in Sessions : Over(s) => Over(s)'
    PROVE  OperationInv'
<1>1. SUFFICES ASSUME NEW c \in Connectors
               PROVE  /\ active[c] # None => Leads(c, active[c])'
                      /\ pc[c].at = "starting" =>
                            /\ active[c] = None /\ pc[c].s # None /\ Leads(c, pc[c].s)'
                            /\ pc[c].s \notin delivered'
                            /\ \A m \in (Range(rows) \cup Held)' : m.s # pc[c].s
                      /\ pc[c].at = "stopping" =>
                            /\ active[c] # None /\ active[c] = pc[c].s /\ pc[c].mid # None
                            /\ Over(pc[c].s)'
  BY DEF OperationInv, OperationAt
<1>2. \A s : Leads(c, s) => Leads(c, s)'
  BY DEF Leads
<1>3. active[c] # None => Leads(c, active[c])'
  BY <1>2 DEF OperationInv, OperationAt
<1>4. ASSUME pc[c].at = "starting"
      PROVE  /\ active[c] = None /\ pc[c].s # None /\ Leads(c, pc[c].s)'
             /\ pc[c].s \notin delivered'
             /\ \A m \in (Range(rows) \cup Held)' : m.s # pc[c].s
  BY <1>2, <1>4 DEF OperationInv, OperationAt
<1>5. ASSUME pc[c].at = "stopping"
      PROVE  /\ active[c] # None /\ active[c] = pc[c].s /\ pc[c].mid # None
             /\ Over(pc[c].s)'
  BY <1>5 DEF OperationInv, OperationAt, Leads
<1>6. QED
  BY <1>3, <1>4, <1>5

LEMMA ForgottenFrame ==
    ASSUME NoTransactionForgotten, UNCHANGED <<active, pc>>, Sessions' = Sessions,
           \A s \in Sessions : table[s].ack => table'[s].ack,
           \A s \in Sessions : Over(s) => Over(s)'
    PROVE  NoTransactionForgotten'
<1>1. SUFFICES ASSUME NEW s \in Sessions
               PROVE  \/ table'[s].ack \/ s \in Range(active)' \/ InOperation(s)' \/ Over(s)'
  BY DEF NoTransactionForgotten, Over
<1>2. \/ table[s].ack \/ s \in Range(active) \/ InOperation(s) \/ Over(s)
  BY DEF NoTransactionForgotten, Over
<1>3. (s \in Range(active) => s \in Range(active)') /\ (InOperation(s) => InOperation(s)')
  BY DEF InOperation, Range
<1>4. QED
  BY <1>2, <1>3

-----------------------------------------------------------------------------
(* The queue                                                               *)

LEMMA MessageNotNone ==
    ASSUME NEW m \in Messages
    PROVE  m # None
BY NoneAssumption

\* The worker may give a message another transaction id, of the same session.
LEMMA PatchedFacts ==
    ASSUME TypeOK, NEW m \in Messages
    PROVE  /\ Patched(m) \in Messages /\ Mid(Patched(m)) = Mid(m) /\ IdOf(Patched(m)) = IdOf(m)
           /\ Patched(m).type = m.type /\ Patched(m).s = m.s /\ Patched(m).n = m.n
           /\ RefInv /\ TidInv /\ m \in Held /\ m.type = "stop" =>
                 Patched(m).tid # None /\ Patched(m).tid.s = m.s
<1> DEFINE tid == IF Mid(m) \in DOMAIN stopIds THEN stopIds[Mid(m)] ELSE m.tid
<1>1. tid \in Tids \cup {None}
  BY DEF TypeOK, Messages
<1>2. Patched(m) = [m EXCEPT !.tid = tid, !.attempts = m.attempts + 1]
  BY DEF Patched
<1> HIDE DEF tid
<1>3. /\ Patched(m) \in Messages /\ Patched(m).type = m.type /\ Patched(m).s = m.s
      /\ Patched(m).n = m.n /\ Patched(m).gen = m.gen /\ Patched(m).tid = tid
  <2>1. PICK k \in Nat : k = m.attempts + 1
    BY DEF Messages
  <2>2. Patched(m) = [m EXCEPT !.tid = tid, !.attempts = k]
    BY <1>2, <2>1
  <2>3. Patched(m) \in Messages
    BY <1>1, <2>1, <2>2 DEF Messages
  <2>4. /\ Patched(m).type = m.type /\ Patched(m).s = m.s
        /\ Patched(m).n = m.n /\ Patched(m).gen = m.gen /\ Patched(m).tid = tid
    BY <2>2 DEF Messages
  <2>5. QED
    BY <2>3, <2>4
<1>4. Mid(Patched(m)) = Mid(m) /\ IdOf(Patched(m)) = IdOf(m)
  BY <1>3 DEF Mid, IdOf, Id
<1>5. ASSUME RefInv, TidInv, m \in Held, m.type = "stop"
      PROVE  tid # None /\ tid.s = m.s
  <2>1. CASE Mid(m) \in DOMAIN stopIds
    <3>1. tid = stopIds[Mid(m)] /\ tid \in Tids
      BY <2>1 DEF tid, TypeOK
    <3>2. Mid(m) # None /\ Mid(m).n = m.n
      BY NoneAssumption DEF Mid, Mids, Messages
    <3>3. Id(Mid(m).n, stopIds[Mid(m)].s, "stop") \in StopRefs
      BY <2>1, <3>2 DEF StopRefs
    <3>4. Id(m.n, tid.s, "stop") \in Refs /\ IdOf(m) \in Refs
      BY <1>5, <3>1, <3>2, <3>3 DEF Refs, MessageRefs
    <3>5. IdOf(m) = Id(m.n, m.s, "stop")
      BY <1>5 DEF IdOf
    <3>6. Id(m.n, tid.s, "stop") = Id(m.n, m.s, "stop")
      BY <1>5, <3>4, <3>5 DEF RefInv, Id
    <3>7. tid.s = m.s
      BY <3>6 DEF Id
    <3>8. tid # None
      BY <3>1, NoneAssumption
    <3>9. QED
      BY <3>7, <3>8
  <2>2. CASE Mid(m) \notin DOMAIN stopIds
    BY <1>5, <2>2 DEF tid, TidInv
  <2>3. QED
    BY <2>1, <2>2
<1>6. QED
  BY <1>3, <1>4, <1>5

LEMMA WithoutFacts ==
    ASSUME NEW f, NEW k
    PROVE  /\ DOMAIN Without(f, k) = DOMAIN f \ {k}
           /\ \A x \in DOMAIN f \ {k} : Without(f, k)[x] = f[x]
BY DEF Without

LEMMA StopIdsWithout ==
    ASSUME TypeOK, NEW k, stopIds' = Without(stopIds, k)
    PROVE  /\ DOMAIN stopIds' \subseteq Mids \cup {None}
           /\ \A mid \in DOMAIN stopIds' : stopIds'[mid] \in Tids
           /\ \A x \in StopRefs' : x \in StopRefs
<1>1. /\ DOMAIN stopIds' = DOMAIN stopIds \ {k}
      /\ \A x \in DOMAIN stopIds' : stopIds'[x] = stopIds[x]
  BY WithoutFacts
<1>2. \A x \in StopRefs' : x \in StopRefs
  BY <1>1 DEF StopRefs
<1>3. QED
  BY <1>1, <1>2 DEF TypeOK

LEMMA SendKeeps ==
    ASSUME IndInv, Send
    PROVE  IndInv'
<1> DEFINE h == Head(queue)
           t == Tail(queue)
           m == Patched(h)
<1>1. /\ queue # << >> /\ inFlight = None /\ inFlight' = m /\ queue' = t
      /\ stopIds' = Without(stopIds, Mid(m))
      /\ given' = IF m.type = "start" THEN [given EXCEPT ![m.s] = [s |-> m.s, k |-> m.attempts]]
                                      ELSE given
      /\ UNCHANGED <<table, rows, txn, active, stopped, meterIds, pc, rx, ids, samples, faults, restarts,
                     delivered, gaveUp>>
  BY DEF Send, persistent, memory, bounds
<1>2. /\ h \in Messages /\ t \in Seq(Messages) /\ Range(queue) = {h} \cup Range(t)
      /\ StartFirst(t) /\ ~StartIn(Range(t), h.s)
  BY <1>1, HeadFacts DEF IndInv, TypeOK, OrderInv
<1>3. h \in Held
  BY <1>2 DEF Held
<1>4. /\ m \in Messages /\ Mid(m) = Mid(h) /\ IdOf(m) = IdOf(h)
      /\ m.type = h.type /\ m.s = h.s /\ m.n = h.n
      /\ m.type = "stop" => m.tid # None /\ m.tid.s = m.s
  BY <1>2, <1>3, PatchedFacts DEF IndInv
<1> HIDE DEF h, t, m
<1>5. /\ Held = {h} \cup Range(t) \cup ({rx} \ {None})
      /\ Held' = {m} \cup Range(t) \cup ({rx} \ {None})
      /\ Unanswered = {h} \cup Range(t) /\ Unanswered' = {m} \cup Range(t)
      /\ Range(queue)' = Range(t) /\ Range(rows)' = Range(rows)
  BY <1>1, <1>2, <1>4, MessageNotNone DEF Held, Unanswered
<1>6. h.s \in Sessions /\ h.s \in DOMAIN given
  BY <1>3, Basics DEF IndInv, TidInv
<1>7. TypeOK'
  <2>1. given' \in [1..MaxSessions -> Tids \cup {None}]
    <3>1. [s |-> m.s, k |-> m.attempts] \in Tids
      BY <1>4 DEF Messages, Tids
    <3>2. QED
      BY <1>1, <3>1 DEF IndInv, TypeOK
  <2>2. /\ DOMAIN stopIds' \subseteq Mids \cup {None}
        /\ \A mid \in DOMAIN stopIds' : stopIds'[mid] \in Tids
    BY <1>1, StopIdsWithout DEF IndInv
  <2>3. QED
    BY <1>1, <1>2, <1>4, <2>1, <2>2 DEF IndInv, TypeOK, Sessions
<1>8. RefInv'
  <2>1. \A x \in StopRefs' : x \in StopRefs
    BY <1>1, StopIdsWithout DEF IndInv
  <2>2. TableRefs' = TableRefs /\ TxnRefs' = TxnRefs /\ OperationRefs' = OperationRefs
    BY <1>1 DEF TableRefs, TxnRefs, OperationRefs, Sessions
  <2>3. MeterRefs' = MeterRefs
    BY <1>1 DEF MeterRefs
  <2>4. \A x \in Refs' : x \in Refs
    BY <1>4, <1>5, <2>1, <2>2, <2>3 DEF Refs, MessageRefs
  <2>5. QED
    BY <1>1, <2>4, RefsFrom DEF IndInv, TypeOK
<1>9. TidInv'
  <2>1. \A x \in (Range(rows) \cup Held)' :
           x.s \in Sessions /\ (x.type = "stop" => x.tid # None /\ x.tid.s = x.s)
    BY <1>4, <1>5, <1>6 DEF IndInv, TidInv
  <2>2. \A s \in DOMAIN given' : given'[s] # None => given'[s].s = s
    BY <1>1, <1>4, <1>6 DEF IndInv, TidInv, TypeOK
  <2>3. \A x \in {inFlight', rx'} \ {None} : x.type = "start" => given'[x.s] # None
    <3>1. [s |-> m.s, k |-> m.attempts] # None
      BY <1>4, NoneAssumption DEF Messages, Tids
    <3>2. m.type = "start" => given'[m.s] # None
      BY <1>1, <1>4, <1>6, <3>1 DEF IndInv, TypeOK
    <3>3. ASSUME rx # None, rx.type = "start" PROVE given'[rx.s] # None
      <4>1. given[rx.s] # None /\ rx.s \in DOMAIN given
        BY <3>3, Basics DEF IndInv, TidInv, Held
      <4>2. QED
        BY <1>1, <3>1, <4>1
    <3>4. QED
      BY <1>1, <3>2, <3>3
  <2>4. QED
    BY <1>1, <2>1, <2>2, <2>3 DEF IndInv, TidInv, Sessions
<1>10. OrderInv'
  BY <1>1, <1>2, <1>4, <1>5 DEF IndInv, OrderInv, StartIn
<1>11. DeliveredInv'
  BY <1>1, <1>4, <1>5 DEF IndInv, DeliveredInv, Sessions
<1>12. StartInv'
  BY <1>1, <1>4, <1>5 DEF IndInv, StartInv, StartIn, Known
<1>13. \A s \in Sessions : Over(s) => Over(s)'
  BY <1>1 DEF Over, StopPending
<1>14. OperationInv'
  <2>1. Sessions' = Sessions /\ \A s \in Sessions : table'[s].connector = table[s].connector
    BY <1>1 DEF Sessions
  <2>2. \A x \in (Range(rows) \cup Held)' : \E y \in Range(rows) \cup Held : y.s = x.s
    BY <1>4, <1>5
  <2>3. QED
    BY <1>1, <1>13, <2>1, <2>2, OperationFrame DEF IndInv
<1>15. NoTransactionForgotten' /\ AckMeansStopped'
  BY <1>1, <1>13, ForgottenFrame DEF IndInv, AckMeansStopped, Sessions
<1>16. QED
  BY <1>7, <1>8, <1>9, <1>10, <1>11, <1>12, <1>14, <1>15 DEF IndInv

LEMMA ReplaceHead ==
    ASSUME NEW q \in Seq(Messages), q # << >>, NEW m \in Messages
    PROVE  [q EXCEPT ![1] = m] = <<m>> \o Tail(q)
<1> DEFINE a == [q EXCEPT ![1] = m]
           b == <<m>> \o Tail(q)
<1>1. a \in Seq(Messages) /\ Len(a) = Len(q) /\ Len(q) \in Nat \ {0}
  OBVIOUS
<1>2. b \in Seq(Messages) /\ Len(b) = Len(q)
  OBVIOUS
<1>3. ASSUME NEW i \in 1..Len(q) PROVE a[i] = b[i]
  <2>1. CASE i = 1
    BY <2>1
  <2>2. CASE i \in 2..Len(q)
    BY <1>3, <2>2
  <2>3. QED
    BY <1>1, <2>1, <2>2
<1> HIDE DEF a, b
<1>4. a = b
  BY <1>1, <1>2, <1>3, SeqEqual
<1>5. QED
  BY <1>4 DEF a, b

LEMMA SendFailsKeeps ==
    ASSUME IndInv, SendFails
    PROVE  IndInv'
<1> DEFINE h == Head(queue)
           t == Tail(queue)
           m == Patched(h)
<1>1. /\ queue # << >> /\ inFlight = None
      /\ queue' = [queue EXCEPT ![1] = Patched(queue[1])]
      /\ stopIds' = Without(stopIds, Mid(queue[1]))
      /\ faults < MaxFaults /\ faults' = faults + 1
      /\ UNCHANGED <<table, rows, txn, active, stopped, inFlight, meterIds, pc, rx, ids, samples, restarts,
                     given, delivered, gaveUp>>
  BY DEF SendFails, persistent, memory, history
<1>2. /\ h \in Messages /\ t \in Seq(Messages) /\ Range(queue) = {h} \cup Range(t) /\ h = queue[1]
      /\ StartFirst(t) /\ ~StartIn(Range(t), h.s)
  BY <1>1, HeadFacts DEF IndInv, TypeOK, OrderInv
<1>3. h \in Held
  BY <1>2 DEF Held
<1>4. /\ m \in Messages /\ Mid(m) = Mid(h) /\ IdOf(m) = IdOf(h)
      /\ m.type = h.type /\ m.s = h.s /\ m.n = h.n
      /\ m.type = "stop" => m.tid # None /\ m.tid.s = m.s
  BY <1>2, <1>3, PatchedFacts DEF IndInv
<1>5. queue' = <<m>> \o t
  BY <1>1, <1>2, <1>4, ReplaceHead DEF IndInv, TypeOK
<1> HIDE DEF h, t, m
<1>6. queue' \in Seq(Messages) /\ Range(queue)' = {m} \cup Range(t) /\ StartFirst(queue)'
  BY <1>2, <1>4, <1>5, FrontFacts
<1>7. /\ Held = {h} \cup Range(t) \cup ({rx} \ {None})
      /\ Held' = {m} \cup Range(t) \cup ({rx} \ {None})
      /\ Unanswered = {h} \cup Range(t) /\ Unanswered' = {m} \cup Range(t)
      /\ Range(rows)' = Range(rows)
  BY <1>1, <1>2, <1>6 DEF Held, Unanswered
<1>8. TypeOK'
  <2>1. /\ DOMAIN stopIds' \subseteq Mids \cup {None}
        /\ \A mid \in DOMAIN stopIds' : stopIds'[mid] \in Tids
    BY <1>1, StopIdsWithout DEF IndInv
  <2>2. faults' \in 0..MaxFaults
    BY <1>1, TransactionsAssumption DEF IndInv, TypeOK
  <2>3. QED
    BY <1>1, <1>6, <2>1, <2>2 DEF IndInv, TypeOK, Sessions
<1>9. RefInv'
  <2>1. \A x \in StopRefs' : x \in StopRefs
    BY <1>1, StopIdsWithout DEF IndInv
  <2>2. TableRefs' = TableRefs /\ TxnRefs' = TxnRefs /\ OperationRefs' = OperationRefs
    BY <1>1 DEF TableRefs, TxnRefs, OperationRefs, Sessions
  <2>3. MeterRefs' = MeterRefs
    BY <1>1 DEF MeterRefs
  <2>4. \A x \in Refs' : x \in Refs
    BY <1>4, <1>7, <2>1, <2>2, <2>3 DEF Refs, MessageRefs
  <2>5. QED
    BY <1>1, <2>4, RefsFrom DEF IndInv, TypeOK
<1>10. TidInv'
  <2>1. \A x \in (Range(rows) \cup Held)' :
           x.s \in Sessions /\ (x.type = "stop" => x.tid # None /\ x.tid.s = x.s)
    BY <1>3, <1>4, <1>7 DEF IndInv, TidInv
  <2>2. QED
    BY <1>1, <2>1 DEF IndInv, TidInv, Sessions
<1>11. OrderInv'
  BY <1>1, <1>4, <1>6, <1>7 DEF IndInv, OrderInv, StartIn
<1>12. DeliveredInv'
  BY <1>1, <1>4, <1>7 DEF IndInv, DeliveredInv, Sessions
<1>13. StartInv'
  BY <1>1, <1>4, <1>7 DEF IndInv, StartInv, StartIn, Known
<1>14. \A s \in Sessions : Over(s) => Over(s)'
  BY <1>1 DEF Over, StopPending
<1>15. OperationInv'
  <2>1. Sessions' = Sessions /\ \A s \in Sessions : table'[s].connector = table[s].connector
    BY <1>1 DEF Sessions
  <2>2. \A x \in (Range(rows) \cup Held)' : \E y \in Range(rows) \cup Held : y.s = x.s
    BY <1>4, <1>7
  <2>3. QED
    BY <1>1, <1>14, <2>1, <2>2, OperationFrame DEF IndInv
<1>16. NoTransactionForgotten' /\ AckMeansStopped'
  BY <1>1, <1>14, ForgottenFrame DEF IndInv, AckMeansStopped, Sessions
<1>17. QED
  BY <1>8, <1>9, <1>10, <1>11, <1>12, <1>13, <1>15, <1>16 DEF IndInv

\* The row of the message in flight goes: what it was about is known to be over then.
LEMMA RowGone ==
    ASSUME IndInv, inFlight # None, RemoveRow(inFlight.n),
           NEW s \in Sessions, Over(s),
           inFlight.type = "stop" => inFlight.s \in delivered' \cup gaveUp',
           delivered \subseteq delivered', gaveUp \subseteq gaveUp'
    PROVE  Over(s)'
<1>1. rows \in Seq(Messages)
  BY DEF IndInv, TypeOK
<1>2. \A m : m \in Range(rows)' <=> m \in Range(rows) /\ m.n # inFlight.n
  BY <1>1, RemoveRowFacts
<1>3. CASE s \in gaveUp \cup delivered
  BY <1>3 DEF Over
<1>4. CASE StopPending(s)
  <2>1. PICK m \in Range(rows) : m.type = "stop" /\ m.s = s
    BY <1>4, StopPendingIn
  <2>2. CASE m.n # inFlight.n
    <3>1. StopPending(s)'
      BY <1>2, <2>1, <2>2 DEF StopPending, Range
    <3>2. QED
      BY <3>1 DEF Over
  <2>3. CASE m.n = inFlight.n
    <3>1. inFlight \in Held
      BY DEF Held
    <3>2. inFlight.type = "stop" /\ inFlight.s = s
      BY <2>1, <2>3, <3>1, SameRequest DEF IndInv
    <3>3. QED
      BY <3>2 DEF Over
  <2>4. QED
    BY <2>2, <2>3
<1>5. QED
  BY <1>3, <1>4 DEF Over

LEMMA ReceiveResultKeeps ==
    ASSUME IndInv, ReceiveResult
    PROVE  IndInv'
<1> DEFINE m == inFlight
<1>1. /\ m # None /\ rx = None /\ RemoveRow(m.n) /\ inFlight' = None /\ rx' = m
      /\ delivered' = IF m.type = "stop" THEN delivered \cup {m.s} ELSE delivered
      /\ UNCHANGED <<table, txn, active, stopped, queue, stopIds, meterIds, pc, ids, samples, faults, restarts,
                     given, gaveUp>>
  BY DEF ReceiveResult, memory, bounds
<1>2. /\ rows' \in Seq(Messages) /\ StartFirst(rows)'
      /\ \A x : x \in Range(rows)' <=> x \in Range(rows) /\ x.n # m.n
  BY <1>1, RemoveRowFacts DEF IndInv, TypeOK, OrderInv
<1>3. /\ Held = {m} \cup Range(queue) /\ Held' = {m} \cup Range(queue)
      /\ Unanswered = {m} \cup Range(queue) /\ Unanswered' = Range(queue)
  BY <1>1 DEF Held, Unanswered
<1>4. m \in Messages /\ m.s \in Sessions /\ ~StartIn(Range(queue), m.s)
  BY <1>1, <1>3 DEF IndInv, TidInv, TypeOK, OrderInv
<1> HIDE DEF m
<1>5. TypeOK'
  BY <1>1, <1>2, <1>4 DEF IndInv, TypeOK, Sessions, m
<1>6. RefInv'
  <2>1. TableRefs' = TableRefs /\ TxnRefs' = TxnRefs /\ OperationRefs' = OperationRefs
    BY <1>1 DEF TableRefs, TxnRefs, OperationRefs, Sessions
  <2>2. StopRefs' = StopRefs /\ MeterRefs' = MeterRefs
    BY <1>1 DEF StopRefs, MeterRefs
  <2>3. \A x \in Refs' : x \in Refs
    BY <1>2, <1>3, <2>1, <2>2 DEF Refs, MessageRefs
  <2>4. QED
    BY <1>1, <2>3, RefsFrom DEF IndInv, TypeOK
<1>7. TidInv'
  <2>1. \A x \in (Range(rows) \cup Held)' :
           x.s \in Sessions /\ (x.type = "stop" => x.tid # None /\ x.tid.s = x.s)
    BY <1>2, <1>3 DEF IndInv, TidInv
  <2>2. \A x \in {inFlight', rx'} \ {None} : x.type = "start" => given'[x.s] # None
    BY <1>1 DEF IndInv, TidInv, m
  <2>3. QED
    BY <1>1, <2>1, <2>2 DEF IndInv, TidInv, Sessions
<1>8. OrderInv'
  BY <1>1, <1>2, <1>3, <1>4 DEF IndInv, OrderInv
<1>9. DeliveredInv'
  BY <1>1, <1>3, <1>4 DEF IndInv, DeliveredInv, Sessions, StartIn
<1>10. StartInv'
  <2>1. ASSUME NEW x \in Range(rows)', x.type = "start"
        PROVE  Mid(x) = table[x.s].startMid /\ StartIn(Range(queue), x.s)
    <3>1. x \in Range(rows) /\ x.n # m.n
      BY <1>2, <2>1
    <3>2. Mid(x) = table[x.s].startMid /\ StartIn({m} \cup Range(queue), x.s)
      BY <1>3, <2>1, <3>1 DEF IndInv, StartInv
    <3>3. ~(m.type = "start" /\ m.s = x.s)
      <4>1. x.n = table[x.s].startMid.n
        BY <3>2 DEF Mid
      <4>2. m.type = "start" => m.n = table[m.s].startMid.n
        BY <1>3 DEF IndInv, StartInv
      <4>3. QED
        BY <3>1, <4>1, <4>2
    <3>4. QED
      BY <3>2, <3>3 DEF StartIn
  <2>2. QED
    BY <1>1, <1>3, <2>1 DEF IndInv, StartInv, Known
<1>11. \A s \in Sessions : Over(s) => Over(s)'
  BY <1>1, RowGone DEF m
<1>12. OperationInv'
  <2>1. Sessions' = Sessions /\ \A s \in Sessions : table'[s].connector = table[s].connector
    BY <1>1 DEF Sessions
  <2>2. \A x \in (Range(rows) \cup Held)' : \E y \in Range(rows) \cup Held : y.s = x.s
    BY <1>2, <1>3
  <2>3. \A s \in delivered' : s \in delivered \/ \E x \in Held : x.s = s
    BY <1>1, <1>3
  <2>4. QED
    BY <1>1, <1>11, <2>1, <2>2, <2>3, OperationFrame DEF IndInv
<1>13. NoTransactionForgotten' /\ AckMeansStopped'
  BY <1>1, <1>11, ForgottenFrame DEF IndInv, AckMeansStopped, Sessions
<1>14. QED
  BY <1>5, <1>6, <1>7, <1>8, <1>9, <1>10, <1>12, <1>13 DEF IndInv

\* Of the transactions that can be found, the id of a StartTransaction.req leads to its own.
LEMMA StartFound ==
    ASSUME IndInv, NEW m \in Held, m.type = "start"
    PROVE  TransactionOf(Mid(m)) = {m.s} /\ m.s \in DOMAIN txn /\ txn[m.s].startMid = Mid(m)
<1>1. m \in Messages
  BY Basics DEF IndInv
<1>2. m.s \in Known /\ txn[m.s].startMid = Mid(m)
  BY DEF IndInv, StartInv
<1>3. Known \subseteq DOMAIN txn
  BY DEF Known, Range, IndInv, TypeOK
<1>4. ASSUME NEW s \in Known, Mid(m) \in {txn[s].startMid, txn[s].stopMid}
      PROVE  s = m.s
  <2>1. Id(m.n, m.s, "start") \in Refs
    <3>1. IdOf(m) = Id(m.n, m.s, "start")
      BY DEF IdOf
    <3>2. QED
      BY <3>1 DEF Refs, MessageRefs
  <2>2. Mid(m) # None /\ Mid(m).n = m.n
    BY <1>1, NoneAssumption DEF Mid, Mids, Messages
  <2>3. CASE Mid(m) = txn[s].startMid
    <3>1. Id(m.n, s, "start") \in Refs
      BY <1>3, <2>2, <2>3 DEF Refs, TxnRefs
    <3>2. QED
      BY <2>1, <3>1 DEF IndInv, RefInv, Id
  <2>4. CASE Mid(m) = txn[s].stopMid
    <3>1. Id(m.n, s, "stop") \in Refs
      BY <1>3, <2>2, <2>4 DEF Refs, TxnRefs
    <3>2. QED
      BY <2>1, <3>1 DEF IndInv, RefInv, Id
  <2>5. QED
    BY <1>4, <2>3, <2>4
<1>5. QED
  BY <1>2, <1>3, <1>4 DEF TransactionOf

\* The message in flight is queued again, under another id.
LEMMA RetryKeeps ==
    ASSUME IndInv, TimeoutOrCallError, inFlight.attempts < MaxAttempts
    PROVE  IndInv'
<1> DEFINE m == inFlight
           r == [m EXCEPT !.gen = m.gen + 1]
<1>1. /\ m # None /\ inFlight' = None /\ queue' = <<r>> \o queue
      /\ faults < MaxFaults /\ faults' = faults + 1
      /\ IF m.type = "start" THEN MessageRetried(Mid(m), Mid(r)) ELSE UNCHANGED txn
      /\ UNCHANGED <<table, rows, active, stopped, stopIds, meterIds, pc, rx, ids, samples, restarts,
                     given, delivered, gaveUp>>
  BY DEF TimeoutOrCallError
<1>2. m \in Messages /\ m \in Held /\ m.s \in Sessions
  BY <1>1 DEF IndInv, TidInv, TypeOK, Held
<1>3. /\ r \in Messages /\ r.type = m.type /\ r.s = m.s /\ r.n = m.n /\ r.tid = m.tid
      /\ IdOf(r) = IdOf(m)
  <2>1. PICK k \in Nat : k = m.gen + 1
    BY <1>2 DEF Messages
  <2>2. r = [m EXCEPT !.gen = k]
    BY <2>1
  <2>3. r \in Messages /\ r.type = m.type /\ r.s = m.s /\ r.n = m.n /\ r.tid = m.tid
    BY <1>2, <2>1, <2>2 DEF Messages
  <2>4. QED
    BY <2>3 DEF IdOf, Id
<1> HIDE DEF m, r
<1>4. ~StartIn(Range(queue), m.s)
  BY <1>1 DEF IndInv, OrderInv, m
<1>5. queue' \in Seq(Messages) /\ Range(queue)' = {r} \cup Range(queue) /\ StartFirst(queue)'
  BY <1>1, <1>3, <1>4, FrontFacts DEF IndInv, TypeOK, OrderInv
<1>6. /\ Held = {m} \cup Range(queue) \cup ({rx} \ {None})
      /\ Held' = {r} \cup Range(queue) \cup ({rx} \ {None})
      /\ Unanswered = {m} \cup Range(queue) /\ Unanswered' = {r} \cup Range(queue)
      /\ Range(rows)' = Range(rows)
  BY <1>1, <1>5 DEF Held, Unanswered, m
\* Only the transaction of the request gets another id, and only for a start.
<1>7. /\ DOMAIN txn' = DOMAIN txn
      /\ \A s \in DOMAIN txn : /\ txn'[s] \in Objects /\ txn'[s].stopMid = txn[s].stopMid
                               /\ txn'[s].tid = txn[s].tid
                               /\ txn'[s].startMid.n = txn[s].startMid.n
                               /\ s # m.s \/ m.type # "start" => txn'[s].startMid = txn[s].startMid
      /\ m.type = "start" => txn'[m.s].startMid = Mid(r)
  <2>1. CASE m.type # "start"
    BY <1>1, <2>1 DEF IndInv, TypeOK
  <2>2. CASE m.type = "start"
    <3>1. TransactionOf(Mid(m)) = {m.s} /\ m.s \in DOMAIN txn /\ txn[m.s].startMid = Mid(m)
      BY <1>2, <2>2, StartFound
    <3>2. txn' = [s \in DOMAIN txn |-> IF s = m.s THEN [txn[s] EXCEPT !.startMid = Mid(r)] ELSE txn[s]]
      BY <1>1, <2>2, <3>1 DEF MessageRetried
    <3>3. Mid(r) \in Mids /\ Mid(r).n = Mid(m).n
      BY <1>3 DEF Mid, Mids, Messages
    <3>4. \A s \in DOMAIN txn : txn[s] \in Objects
      BY DEF IndInv, TypeOK
    <3>5. QED
      BY <2>2, <3>1, <3>2, <3>3, <3>4 DEF Objects
  <2>3. QED
    BY <2>1, <2>2
<1>8. TypeOK'
  <2>1. faults' \in 0..MaxFaults
    BY <1>1, TransactionsAssumption DEF IndInv, TypeOK
  <2>2. QED
    BY <1>1, <1>5, <1>7, <2>1 DEF IndInv, TypeOK, Sessions
<1>9. RefInv'
  <2>1. TableRefs' = TableRefs /\ OperationRefs' = OperationRefs /\ StopRefs' = StopRefs
    BY <1>1 DEF TableRefs, OperationRefs, StopRefs, Sessions
  <2>2. MeterRefs' = MeterRefs
    BY <1>1 DEF MeterRefs
  <2>3. \A x \in TxnRefs' : x \in TxnRefs
    BY <1>7 DEF TxnRefs
  <2>4. \A x \in Refs' : x \in Refs
    BY <1>3, <1>6, <2>1, <2>2, <2>3 DEF Refs, MessageRefs
  <2>5. QED
    BY <1>1, <2>4, RefsFrom DEF IndInv, TypeOK
<1>10. TidInv'
  <2>1. \A x \in (Range(rows) \cup Held)' :
           x.s \in Sessions /\ (x.type = "stop" => x.tid # None /\ x.tid.s = x.s)
    BY <1>2, <1>3, <1>6 DEF IndInv, TidInv
  <2>2. QED
    BY <1>1, <1>7, <2>1 DEF IndInv, TidInv, Sessions
<1>11. OrderInv'
  BY <1>1, <1>3, <1>5, <1>6 DEF IndInv, OrderInv, StartIn
<1>12. DeliveredInv'
  BY <1>1, <1>2, <1>3, <1>6 DEF IndInv, DeliveredInv, Sessions
<1>13. StartInv'
  <2>1. ASSUME NEW x \in Held', x.type = "start"
        PROVE  x.n = table[x.s].startMid.n /\ x.s \in Known' /\ txn'[x.s].startMid = Mid(x)
    <3>1. Known' = Known /\ Known \subseteq DOMAIN txn
      BY <1>1 DEF Known, Range, IndInv, TypeOK
    <3>2. CASE x = r
      BY <1>2, <1>3, <1>7, <2>1, <3>1, <3>2 DEF IndInv, StartInv
    <3>3. CASE x \in Range(queue) \cup ({rx} \ {None})
      <4>1. x \in Held
        BY <1>6, <3>3
      <4>2. x.n = table[x.s].startMid.n /\ x.s \in Known /\ txn[x.s].startMid = Mid(x)
        BY <2>1, <4>1 DEF IndInv, StartInv
      <4>3. ~(m.type = "start" /\ m.s = x.s)
        <5>1. CASE x \in Range(queue)
          BY <1>4, <2>1, <5>1 DEF StartIn
        <5>2. CASE x = rx /\ rx # None
          BY <1>6, <5>2 DEF IndInv, OrderInv, StartIn
        <5>3. QED
          BY <3>3, <5>1, <5>2
      <4>4. QED
        BY <1>7, <3>1, <4>2, <4>3
    <3>4. QED
      BY <1>6, <2>1, <3>2, <3>3
  <2>2. \A x \in Range(rows) : x.type = "start" => StartIn(Unanswered', x.s)
    BY <1>3, <1>6 DEF IndInv, StartInv, StartIn
  <2>3. QED
    BY <1>1, <1>6, <2>1, <2>2 DEF IndInv, StartInv
<1>14. \A s \in Sessions : Over(s) => Over(s)'
  BY <1>1 DEF Over, StopPending
<1>15. OperationInv'
  <2>1. Sessions' = Sessions /\ \A s \in Sessions : table'[s].connector = table[s].connector
    BY <1>1 DEF Sessions
  <2>2. \A x \in (Range(rows) \cup Held)' : \E y \in Range(rows) \cup Held : y.s = x.s
    BY <1>3, <1>6
  <2>3. QED
    BY <1>1, <1>14, <2>1, <2>2, OperationFrame DEF IndInv
<1>16. NoTransactionForgotten' /\ AckMeansStopped'
  BY <1>1, <1>14, ForgottenFrame DEF IndInv, AckMeansStopped, Sessions
<1>17. QED
  BY <1>8, <1>9, <1>10, <1>11, <1>12, <1>13, <1>15, <1>16 DEF IndInv

\* The message in flight is given up.
LEMMA GiveUpKeeps ==
    ASSUME IndInv, TimeoutOrCallError, ~(inFlight.attempts < MaxAttempts)
    PROVE  IndInv'
<1> DEFINE m == inFlight
<1>1. /\ m # None /\ inFlight' = None /\ RemoveRow(m.n)
      /\ gaveUp' = IF m.type = "stop" THEN gaveUp \cup {m.s} ELSE gaveUp
      /\ faults < MaxFaults /\ faults' = faults + 1
      /\ UNCHANGED <<table, queue, txn, active, stopped, stopIds, meterIds, pc, rx, ids, samples, restarts,
                     given, delivered>>
  BY DEF TimeoutOrCallError
<1>2. /\ rows' \in Seq(Messages) /\ StartFirst(rows)'
      /\ \A x : x \in Range(rows)' <=> x \in Range(rows) /\ x.n # m.n
  BY <1>1, RemoveRowFacts DEF IndInv, TypeOK, OrderInv
<1>3. /\ Held = {m} \cup Range(queue) \cup ({rx} \ {None})
      /\ Held' = Range(queue) \cup ({rx} \ {None})
      /\ Unanswered = {m} \cup Range(queue) /\ Unanswered' = Range(queue)
  BY <1>1 DEF Held, Unanswered
<1>4. m \in Messages /\ m.s \in Sessions
  BY <1>1, <1>3 DEF IndInv, TidInv, TypeOK
<1> HIDE DEF m
<1>5. TypeOK'
  <2>1. faults' \in 0..MaxFaults
    BY <1>1, TransactionsAssumption DEF IndInv, TypeOK
  <2>2. QED
    BY <1>1, <1>2, <1>4, <2>1 DEF IndInv, TypeOK, Sessions
<1>6. RefInv'
  <2>1. TableRefs' = TableRefs /\ TxnRefs' = TxnRefs /\ OperationRefs' = OperationRefs
    BY <1>1 DEF TableRefs, TxnRefs, OperationRefs, Sessions
  <2>2. StopRefs' = StopRefs /\ MeterRefs' = MeterRefs
    BY <1>1 DEF StopRefs, MeterRefs
  <2>3. \A x \in Refs' : x \in Refs
    BY <1>2, <1>3, <2>1, <2>2 DEF Refs, MessageRefs
  <2>4. QED
    BY <1>1, <2>3, RefsFrom DEF IndInv, TypeOK
<1>7. TidInv'
  <2>1. \A x \in (Range(rows) \cup Held)' :
           x.s \in Sessions /\ (x.type = "stop" => x.tid # None /\ x.tid.s = x.s)
    BY <1>2, <1>3 DEF IndInv, TidInv
  <2>2. QED
    BY <1>1, <2>1 DEF IndInv, TidInv, Sessions
<1>8. OrderInv'
  BY <1>1, <1>2, <1>3 DEF IndInv, OrderInv, StartIn
<1>9. DeliveredInv'
  BY <1>1, <1>3 DEF IndInv, DeliveredInv, Sessions
<1>10. StartInv'
  <2>1. ASSUME NEW x \in Range(rows)', x.type = "start"
        PROVE  Mid(x) = table[x.s].startMid /\ StartIn(Range(queue), x.s)
    <3>1. x \in Range(rows) /\ x.n # m.n
      BY <1>2, <2>1
    <3>2. Mid(x) = table[x.s].startMid /\ StartIn({m} \cup Range(queue), x.s)
      BY <1>3, <2>1, <3>1 DEF IndInv, StartInv
    <3>3. ~(m.type = "start" /\ m.s = x.s)
      <4>1. x.n = table[x.s].startMid.n
        BY <3>2 DEF Mid
      <4>2. m.type = "start" => m.n = table[m.s].startMid.n
        BY <1>3 DEF IndInv, StartInv
      <4>3. QED
        BY <3>1, <4>1, <4>2
    <3>4. QED
      BY <3>2, <3>3 DEF StartIn
  <2>2. QED
    BY <1>1, <1>3, <2>1 DEF IndInv, StartInv, Known
<1>11. \A s \in Sessions : Over(s) => Over(s)'
  BY <1>1, RowGone DEF m
<1>12. OperationInv'
  <2>1. Sessions' = Sessions /\ \A s \in Sessions : table'[s].connector = table[s].connector
    BY <1>1 DEF Sessions
  <2>2. \A x \in (Range(rows) \cup Held)' : \E y \in Range(rows) \cup Held : y.s = x.s
    BY <1>2, <1>3
  <2>3. QED
    BY <1>1, <1>11, <2>1, <2>2, OperationFrame DEF IndInv
<1>13. NoTransactionForgotten' /\ AckMeansStopped'
  BY <1>1, <1>11, ForgottenFrame DEF IndInv, AckMeansStopped, Sessions
<1>14. QED
  BY <1>5, <1>6, <1>7, <1>8, <1>9, <1>10, <1>12, <1>13 DEF IndInv

-----------------------------------------------------------------------------
(* The answers                                                             *)

\* Only MeterValues.req wait in the map for the id of the transaction.
LEMMA QueuePatchedFacts ==
    ASSUME IndInv, NEW mid, NEW tid \in Tids, queue' = QueuePatched(mid, tid)
    PROVE  /\ queue' \in Seq(Messages) /\ StartFirst(queue)'
           /\ \A x \in Range(queue)' : \E y \in Range(queue) :
                 /\ x.type = y.type /\ x.s = y.s /\ x.n = y.n /\ x.gen = y.gen
                 /\ x.type # "meter" => x.tid = y.tid
           /\ \A y \in Range(queue) : \E x \in Range(queue)' : x.type = y.type /\ x.s = y.s
<1> DEFINE W == IF mid \in DOMAIN meterIds THEN meterIds[mid] ELSE {}
<1>1. /\ queue' = [i \in DOMAIN queue |->
                      IF Mid(queue[i]) \in W THEN [queue[i] EXCEPT !.tid = tid] ELSE queue[i]]
      /\ queue \in Seq(Messages)
  BY DEF QueuePatched, IndInv, TypeOK
<1>2. ASSUME NEW i \in DOMAIN queue, Mid(queue[i]) \in W
      PROVE  queue[i].type = "meter"
  <2>1. mid \in DOMAIN meterIds /\ Mid(queue[i]) \in meterIds[mid]
    BY <1>2
  <2>2. queue[i] \in Held /\ queue[i] \in Messages
    BY <1>1 DEF Held, Range
  <2>3. Id(queue[i].n, 0, "meter") \in Refs /\ IdOf(queue[i]) \in Refs
    BY <2>1, <2>2 DEF Refs, MessageRefs, MeterRefs, Range, Mid
  <2>4. IdOf(queue[i]) = Id(queue[i].n, 0, "meter")
    BY <2>3 DEF IndInv, RefInv, IdOf, Id
  <2>5. QED
    BY <2>4 DEF IdOf, Id
<1> HIDE DEF W
<1>3. ASSUME NEW i \in DOMAIN queue
      PROVE  /\ queue'[i] \in Messages
             /\ queue'[i].type = queue[i].type /\ queue'[i].s = queue[i].s /\ queue'[i].n = queue[i].n
             /\ queue'[i].gen = queue[i].gen
             /\ queue[i].type # "meter" => queue'[i].tid = queue[i].tid
  <2>1. queue[i] \in Messages
    BY <1>1
  <2>2. CASE Mid(queue[i]) \in W
    <3>1. queue'[i] = [queue[i] EXCEPT !.tid = tid] /\ queue[i].type = "meter"
      BY <1>1, <1>2, <2>2
    <3>2. QED
      BY <2>1, <3>1 DEF Messages
  <2>3. CASE Mid(queue[i]) \notin W
    <3>1. queue'[i] = queue[i]
      BY <1>1, <2>3
    <3>2. QED
      BY <2>1, <3>1
  <2>4. QED
    BY <2>2, <2>3
<1>4. DOMAIN queue' = DOMAIN queue /\ Len(queue) \in Nat /\ DOMAIN queue = 1..Len(queue)
  BY <1>1
<1>5. queue' \in Seq(Messages)
  <2>1. queue' = [i \in 1..Len(queue) |-> queue'[i]]
    BY <1>1, <1>4
  <2>2. QED
    BY <1>3, <1>4, <2>1
<1>6. StartFirst(queue)'
  BY <1>1, <1>3, <1>4, <1>5, InPlace DEF IndInv, OrderInv
<1>7. QED
  BY <1>3, <1>4, <1>5, <1>6 DEF Range

LEMMA HandleStartResponseKeeps ==
    ASSUME IndInv, HandleStartResponse
    PROVE  IndInv'
<1> DEFINE s == rx.s
           tid == given[s]
           mid == Mid(rx)
<1>1. /\ rx # None /\ rx.type = "start" /\ rx' = None
      /\ UNCHANGED <<rows, active, stopped, inFlight, pc, ids, samples, faults, restarts, given, delivered,
                     gaveUp>>
  BY DEF HandleStartResponse, bounds, history
<1>2. rx \in Held /\ rx \in Messages /\ s \in Sessions
  BY <1>1 DEF IndInv, TidInv, TypeOK, Held
<1>3. TransactionOf(mid) = {s} /\ s \in DOMAIN txn
  BY <1>1, <1>2, StartFound
<1>4. (CHOOSE x \in TransactionOf(mid) : TRUE) = s
  BY <1>3
<1>5. /\ stopIds' = IF txn[s].finished THEN With(stopIds, txn[s].stopMid, tid) ELSE stopIds
      /\ queue' = QueuePatched(mid, tid)
      /\ meterIds' = Without(meterIds, mid)
      /\ txn' = [txn EXCEPT ![s].tid = tid]
      /\ table' = [table EXCEPT ![s].tid = tid]
  BY <1>3, <1>4 DEF HandleStartResponse
<1>6. tid \in Tids /\ tid.s = s
  <2>1. s \in DOMAIN given /\ given[s] # None /\ given[s].s = s
    BY <1>1, <1>2, Basics DEF IndInv, TidInv
  <2>2. QED
    BY <2>1 DEF IndInv, TypeOK
<1> HIDE DEF s, tid, mid
<1>7. /\ queue' \in Seq(Messages) /\ StartFirst(queue)'
      /\ \A x \in Range(queue)' : \E y \in Range(queue) :
            /\ x.type = y.type /\ x.s = y.s /\ x.n = y.n /\ x.gen = y.gen
            /\ x.type # "meter" => x.tid = y.tid
      /\ \A y \in Range(queue) : \E x \in Range(queue)' : x.type = y.type /\ x.s = y.s
  BY <1>5, <1>6, QueuePatchedFacts
<1>8. /\ Held = Range(queue) \cup ({inFlight, rx} \ {None})
      /\ Held' = Range(queue)' \cup ({inFlight} \ {None})
      /\ Unanswered = Range(queue) \cup ({inFlight} \ {None})
      /\ Unanswered' = Range(queue)' \cup ({inFlight} \ {None})
      /\ Range(rows)' = Range(rows)
  BY <1>1 DEF Held, Unanswered
<1>9. \A x \in Held' : \E y \in Held :
         /\ x.type = y.type /\ x.s = y.s /\ x.n = y.n /\ x.gen = y.gen
         /\ x.type # "meter" => x.tid = y.tid
  BY <1>7, <1>8
<1>10. \A y \in Unanswered : \E x \in Unanswered' : x.type = y.type /\ x.s = y.s
  BY <1>7, <1>8
<1>11. /\ table' \in Seq(Rows) /\ Len(table') = Len(table) /\ Sessions' = Sessions
       /\ \A r \in Sessions : /\ table'[r].connector = table[r].connector
                              /\ table'[r].ack = table[r].ack
                              /\ table'[r].startMid = table[r].startMid
                              /\ table'[r].stopMid = table[r].stopMid
                              /\ table'[r].tid = IF r = s THEN tid ELSE table[r].tid
  <2>1. table \in Seq(Rows) /\ s \in 1..Len(table) /\ table[s] \in Rows /\ Sessions = 1..Len(table)
    BY <1>2, Basics DEF IndInv, TypeOK, s
  <2>2. [table[s] EXCEPT !.tid = tid] \in Rows
    BY <1>6, <2>1 DEF Rows
  <2>3. table' = [table EXCEPT ![s] = [table[s] EXCEPT !.tid = tid]]
    BY <1>5
  <2>4. table' \in Seq(Rows) /\ Len(table') = Len(table)
    BY <2>1, <2>2, <2>3
  <2>5. Sessions' = Sessions
    BY <2>1, <2>4 DEF Sessions
  <2>6. \A r \in Sessions : table[r] \in Rows
    BY Basics DEF IndInv
  <2>7. \A r \in Sessions : table'[r] = IF r = s THEN [table[s] EXCEPT !.tid = tid] ELSE table[r]
    BY <2>1, <2>3
  <2>8. QED
    BY <2>4, <2>5, <2>6, <2>7 DEF Rows
<1>12. /\ DOMAIN txn' = DOMAIN txn
       /\ \A r \in DOMAIN txn : /\ txn'[r] \in Objects
                                /\ txn'[r].startMid = txn[r].startMid
                                /\ txn'[r].stopMid = txn[r].stopMid
                                /\ txn'[r].tid = IF r = s THEN tid ELSE txn[r].tid
  <2>1. \A r \in DOMAIN txn : txn[r] \in Objects
    BY DEF IndInv, TypeOK
  <2>2. \A r \in DOMAIN txn : txn'[r] = IF r = s THEN [txn[s] EXCEPT !.tid = tid] ELSE txn[r]
    BY <1>5
  <2>3. QED
    BY <1>5, <1>6, <2>1, <2>2 DEF Objects
<1>13. /\ DOMAIN stopIds' \subseteq Mids \cup {None}
       /\ \A k \in DOMAIN stopIds' : stopIds'[k] \in Tids
       /\ \A k \in DOMAIN stopIds' :
             \/ k \in DOMAIN stopIds /\ stopIds'[k] = stopIds[k]
             \/ k = txn[s].stopMid /\ stopIds'[k].s = s
  <2>1. CASE stopIds' = stopIds
    BY <2>1 DEF IndInv, TypeOK
  <2>2. CASE stopIds' = With(stopIds, txn[s].stopMid, tid)
    <3>1. /\ DOMAIN stopIds' = DOMAIN stopIds \cup {txn[s].stopMid}
          /\ \A k \in DOMAIN stopIds' : stopIds'[k] = IF k = txn[s].stopMid THEN tid ELSE stopIds[k]
      BY <2>2 DEF With
    <3>2. txn[s].stopMid \in Mids \cup {None}
      BY <1>3 DEF IndInv, TypeOK, Objects
    <3>3. QED
      BY <1>6, <3>1, <3>2 DEF IndInv, TypeOK
  <2>3. QED
    BY <1>5, <2>1, <2>2
<1>14. /\ DOMAIN meterIds' \subseteq DOMAIN meterIds
       /\ \A k \in DOMAIN meterIds' : meterIds'[k] = meterIds[k]
  BY <1>5, WithoutFacts
<1>15. TypeOK'
  BY <1>1, <1>7, <1>11, <1>12, <1>13, <1>14 DEF IndInv, TypeOK
<1>16. RefInv'
  <2>1. \A x \in TableRefs' \cup TxnRefs' : x \in TableRefs \cup TxnRefs
    BY <1>11, <1>12 DEF TableRefs, TxnRefs
  <2>2. OperationRefs' = OperationRefs
    BY <1>1 DEF OperationRefs
  <2>3. \A x \in MeterRefs' : x \in MeterRefs
    BY <1>14 DEF MeterRefs, Range
  <2>4. \A x \in StopRefs' : x \in StopRefs \cup TxnRefs
    <3>1. SUFFICES ASSUME NEW k \in DOMAIN stopIds', k # None
                   PROVE  Id(k.n, stopIds'[k].s, "stop") \in StopRefs \cup TxnRefs
      BY DEF StopRefs
    <3>2. CASE k \in DOMAIN stopIds /\ stopIds'[k] = stopIds[k]
      BY <3>1, <3>2 DEF StopRefs
    <3>3. CASE k = txn[s].stopMid /\ stopIds'[k].s = s
      BY <1>3, <3>1, <3>3 DEF TxnRefs
    <3>4. QED
      BY <1>13, <3>2, <3>3
  <2>5. \A x \in MessageRefs' : x \in MessageRefs
    BY <1>8, <1>9 DEF MessageRefs, IdOf
  <2>6. \A x \in Refs' : x \in Refs
    BY <2>1, <2>2, <2>3, <2>4, <2>5 DEF Refs
  <2>7. QED
    BY <1>1, <2>6, RefsFrom DEF IndInv, TypeOK
<1>17. TidInv'
  <2>1. \A x \in (Range(rows) \cup Held)' :
           x.s \in Sessions /\ (x.type = "stop" => x.tid # None /\ x.tid.s = x.s)
    BY <1>8, <1>9 DEF IndInv, TidInv
  <2>2. \A r \in Sessions : table'[r].tid.s = r /\ table'[r].startMid.gen = 0
    BY <1>6, <1>11 DEF IndInv, TidInv
  <2>3. \A r \in DOMAIN txn' : txn'[r].tid # None => txn'[r].tid.s = r
    BY <1>6, <1>12 DEF IndInv, TidInv
  <2>4. QED
    BY <1>1, <1>11, <2>1, <2>2, <2>3 DEF IndInv, TidInv
<1>18. OrderInv'
  BY <1>1, <1>7, <1>8 DEF IndInv, OrderInv, StartIn
<1>19. DeliveredInv'
  BY <1>1, <1>9, <1>11 DEF IndInv, DeliveredInv
<1>20. StartInv'
  <2>1. Known' = Known /\ Known \subseteq DOMAIN txn
    BY <1>1 DEF Known, Range, IndInv, TypeOK
  <2>2. \A x \in Range(rows) : x.s \in Sessions
    BY DEF IndInv, TidInv
  <2>3. \A x \in Range(rows) : x.type = "start" => StartIn(Unanswered', x.s)
    BY <1>10 DEF IndInv, StartInv, StartIn
  <2>4. \A x \in Range(rows) : x.type = "start" => Mid(x) = table'[x.s].startMid
    BY <1>11, <2>2 DEF IndInv, StartInv
  <2>5. ASSUME NEW x \in Held', x.type = "start"
        PROVE  x.n = table'[x.s].startMid.n /\ x.s \in Known' /\ txn'[x.s].startMid = Mid(x)
    <3>1. PICK y \in Held : x.type = y.type /\ x.s = y.s /\ x.n = y.n /\ x.gen = y.gen
      BY <1>9
    <3>2. y.n = table[y.s].startMid.n /\ y.s \in Known /\ txn[y.s].startMid = Mid(y) /\ y.s \in Sessions
      BY <2>5, <3>1 DEF IndInv, StartInv, TidInv
    <3>3. QED
      BY <1>11, <1>12, <2>1, <3>1, <3>2 DEF Mid
  <2>6. QED
    BY <1>8, <2>3, <2>4, <2>5 DEF StartInv
<1>21. \A r \in Sessions : Over(r) => Over(r)'
  BY <1>1 DEF Over, StopPending
<1>22. OperationInv'
  <2>1. \A x \in (Range(rows) \cup Held)' : \E y \in Range(rows) \cup Held : y.s = x.s
    BY <1>8, <1>9
  <2>2. QED
    BY <1>1, <1>11, <1>21, <2>1, OperationFrame DEF IndInv
<1>23. NoTransactionForgotten' /\ AckMeansStopped'
  BY <1>1, <1>11, <1>21, ForgottenFrame DEF IndInv, AckMeansStopped
<1>24. QED
  BY <1>15, <1>16, <1>17, <1>18, <1>19, <1>20, <1>22, <1>23 DEF IndInv

LEMMA HandleStopResponseKeeps ==
    ASSUME IndInv, HandleStopResponse
    PROVE  IndInv'
<1>1. /\ rx # None /\ rx.type = "stop" /\ rx' = None
      /\ table' = Acknowledged(rx.tid)
      /\ stopped' = {s \in stopped : txn[s].stopMid # Mid(rx)}
      /\ UNCHANGED <<rows, txn, active, queue, inFlight, stopIds, meterIds, pc, ids, samples, faults, restarts,
                     given, delivered, gaveUp>>
  BY DEF HandleStopResponse, messages, bounds, history
<1>2. /\ rx \in Held /\ rx \in Messages /\ rx.s \in Sessions
      /\ rx.tid # None /\ rx.tid.s = rx.s /\ rx.s \in delivered
  BY <1>1 DEF IndInv, TidInv, DeliveredInv, TypeOK, Held
<1>3. /\ Held = Unanswered \cup {rx} /\ Held' = Unanswered
      /\ Unanswered' = Unanswered /\ Range(queue)' = Range(queue) /\ Range(rows)' = Range(rows)
  BY <1>1 DEF Held, Unanswered
\* The row that is found is the one of the session.
<1>4. /\ table' \in Seq(Rows) /\ Len(table') = Len(table) /\ Sessions' = Sessions
      /\ \A r \in Sessions : /\ table'[r].connector = table[r].connector
                             /\ table[r].ack => table'[r].ack
                             /\ table'[r].ack => table[r].ack \/ r = rx.s
                             /\ table'[r].startMid = table[r].startMid
                             /\ table'[r].stopMid = table[r].stopMid
                             /\ table'[r].tid = table[r].tid
  <2>1. Sessions = 1..Len(table) /\ Len(table) \in Nat /\ \A r \in Sessions : table[r] \in Rows
    BY Basics DEF IndInv
  <2>2. PICK b \in BOOLEAN : b = TRUE
    OBVIOUS
  <2>3. table' = [r \in 1..Len(table) |-> IF table[r].tid = rx.tid THEN [table[r] EXCEPT !.ack = b] ELSE table[r]]
    BY <1>1, <2>1, <2>2 DEF Acknowledged
  <2>4. \A r \in Sessions : [table[r] EXCEPT !.ack = b] \in Rows
    BY <2>1 DEF Rows
  <2>5. table' \in Seq(Rows) /\ Len(table') = Len(table)
    BY <2>1, <2>3, <2>4
  <2>6. Sessions' = Sessions
    BY <2>1, <2>5 DEF Sessions
  <2>7. \A r \in Sessions : table[r].tid = rx.tid => r = rx.s
    BY <1>2 DEF IndInv, TidInv
  <2>8. ASSUME NEW r \in Sessions
        PROVE  /\ table'[r].connector = table[r].connector
               /\ table[r].ack => table'[r].ack
               /\ table'[r].ack => table[r].ack \/ r = rx.s
               /\ table'[r].startMid = table[r].startMid
               /\ table'[r].stopMid = table[r].stopMid
               /\ table'[r].tid = table[r].tid
    <3>1. CASE table[r].tid = rx.tid
      <4>1. table'[r] = [table[r] EXCEPT !.ack = b] /\ r = rx.s /\ table[r] \in Rows
        BY <2>1, <2>3, <2>7, <3>1
      <4>2. QED
        BY <2>2, <4>1 DEF Rows
    <3>2. CASE table[r].tid # rx.tid
      <4>1. table'[r] = table[r]
        BY <2>1, <2>3, <3>2
      <4>2. QED
        BY <4>1
    <3>3. QED
      BY <3>1, <3>2
  <2>9. QED
    BY <2>5, <2>6, <2>8
<1>5. TypeOK'
  BY <1>1, <1>4 DEF IndInv, TypeOK
<1>6. RefInv'
  <2>1. TxnRefs' = TxnRefs /\ OperationRefs' = OperationRefs /\ StopRefs' = StopRefs
    BY <1>1 DEF TxnRefs, OperationRefs, StopRefs
  <2>2. MeterRefs' = MeterRefs
    BY <1>1 DEF MeterRefs
  <2>3. \A x \in TableRefs' : x \in TableRefs
    BY <1>4 DEF TableRefs
  <2>4. \A x \in Refs' : x \in Refs
    BY <1>3, <2>1, <2>2, <2>3 DEF Refs, MessageRefs
  <2>5. QED
    BY <1>1, <2>4, RefsFrom DEF IndInv, TypeOK
<1>7. TidInv'
  <2>1. \A x \in (Range(rows) \cup Held)' :
           x.s \in Sessions /\ (x.type = "stop" => x.tid # None /\ x.tid.s = x.s)
    BY <1>3 DEF IndInv, TidInv
  <2>2. QED
    BY <1>1, <1>4, <2>1 DEF IndInv, TidInv
<1>8. OrderInv'
  BY <1>1, <1>3 DEF IndInv, OrderInv
<1>9. DeliveredInv'
  BY <1>1, <1>3, <1>4 DEF IndInv, DeliveredInv
<1>10. StartInv'
  <2>1. ASSUME NEW x \in Unanswered, x.type = "start"
        PROVE  x.s \in Known'
    <3>1. x.s \in Known /\ x.s \notin delivered /\ x \in Held
      BY <1>3, <2>1 DEF IndInv, StartInv, DeliveredInv
    <3>2. CASE x.s \in Range(active) \ {None}
      BY <1>1, <3>2 DEF Known
    <3>3. CASE x.s \in stopped
      <4>1. ASSUME txn[x.s].stopMid = Mid(rx) PROVE FALSE
        <5>1. Mid(rx) # None /\ Mid(rx).n = rx.n
          BY <1>2, NoneAssumption DEF Mid, Mids, Messages
        <5>2. x.s \in DOMAIN txn
          BY <3>3 DEF IndInv, TypeOK
        <5>3. Id(rx.n, x.s, "stop") \in Refs
          BY <4>1, <5>1, <5>2 DEF Refs, TxnRefs
        <5>4. IdOf(rx) = Id(rx.n, rx.s, "stop") /\ IdOf(rx) \in Refs
          BY <1>1, <1>2 DEF IdOf, Refs, MessageRefs
        <5>5. x.s = rx.s
          BY <5>3, <5>4 DEF IndInv, RefInv, Id
        <5>6. QED
          BY <1>2, <3>1, <5>5
      <4>2. QED
        BY <1>1, <3>3, <4>1 DEF Known
    <3>4. QED
      BY <3>1, <3>2, <3>3 DEF Known
  <2>2. \A x \in Range(rows) \cup Held : x.s \in Sessions
    BY DEF IndInv, TidInv
  <2>3. QED
    BY <1>1, <1>3, <1>4, <2>1, <2>2 DEF IndInv, StartInv
<1>11. \A r \in Sessions : Over(r) => Over(r)'
  BY <1>1 DEF Over, StopPending
<1>12. OperationInv'
  <2>1. \A x \in (Range(rows) \cup Held)' : \E y \in Range(rows) \cup Held : y.s = x.s
    BY <1>3
  <2>2. QED
    BY <1>1, <1>4, <1>11, <2>1, OperationFrame DEF IndInv
<1>13. NoTransactionForgotten'
  BY <1>1, <1>4, <1>11, ForgottenFrame DEF IndInv
<1>14. AckMeansStopped'
  BY <1>1, <1>2, <1>4 DEF IndInv, AckMeansStopped
<1>15. QED
  BY <1>5, <1>6, <1>7, <1>8, <1>9, <1>10, <1>12, <1>13, <1>14 DEF IndInv

LEMMA HandleMeterResponseKeeps ==
    ASSUME IndInv, HandleMeterResponse
    PROVE  IndInv'
<1>1. /\ rx # None /\ rx.type = "meter" /\ rx' = None
      /\ UNCHANGED <<table, rows, txn, active, stopped, queue, inFlight, stopIds, meterIds, pc, ids, samples,
                     faults, restarts, given, delivered, gaveUp>>
  BY DEF HandleMeterResponse, persistent, memory, messages, bounds, history
<1>2. /\ Held = Unanswered \cup {rx} /\ Held' = Unanswered
      /\ Unanswered' = Unanswered /\ Range(queue)' = Range(queue) /\ Range(rows)' = Range(rows)
      /\ Sessions' = Sessions /\ Known' = Known
  BY <1>1 DEF Held, Unanswered, Sessions, Known
<1>3. TypeOK'
  BY <1>1, <1>2 DEF IndInv, TypeOK
<1>4. RefInv'
  <2>1. TableRefs' = TableRefs /\ TxnRefs' = TxnRefs /\ OperationRefs' = OperationRefs
    BY <1>1 DEF TableRefs, TxnRefs, OperationRefs, Sessions
  <2>2. StopRefs' = StopRefs /\ MeterRefs' = MeterRefs
    BY <1>1 DEF StopRefs, MeterRefs
  <2>3. \A x \in Refs' : x \in Refs
    BY <1>2, <2>1, <2>2 DEF Refs, MessageRefs
  <2>4. QED
    BY <1>1, <2>3, RefsFrom DEF IndInv, TypeOK
<1>5. TidInv' /\ OrderInv' /\ DeliveredInv' /\ StartInv'
  BY <1>1, <1>2 DEF IndInv, TidInv, OrderInv, DeliveredInv, StartInv
<1>6. \A r \in Sessions : Over(r) => Over(r)'
  BY <1>1 DEF Over, StopPending
<1>7. OperationInv'
  <2>1. \A x \in (Range(rows) \cup Held)' : \E y \in Range(rows) \cup Held : y.s = x.s
    BY <1>2
  <2>2. QED
    BY <1>1, <1>2, <1>6, <2>1, OperationFrame DEF IndInv
<1>8. NoTransactionForgotten' /\ AckMeansStopped'
  BY <1>1, <1>2, <1>6, ForgottenFrame DEF IndInv, AckMeansStopped
<1>9. QED
  BY <1>3, <1>4, <1>5, <1>7, <1>8 DEF IndInv

-----------------------------------------------------------------------------
(* The application                                                         *)

LEMMA InsertTransactionKeeps ==
    ASSUME IndInv, NEW c \in Connectors, InsertTransaction(c)
    PROVE  IndInv'
<1>0. PICK s, mid : s = Len(table) + 1 /\ mid = NewMid(ids + 1)
  OBVIOUS
<1>1. PICK b \in BOOLEAN :
         /\ b = FALSE
         /\ table' = Append(table, [connector |-> c, tid |-> [s |-> s, k |-> 0], ack |-> b,
                                    startMid |-> mid, stopMid |-> None])
  BY <1>0 DEF InsertTransaction
<1>2. /\ pc[c] = Idle /\ active[c] = None /\ s <= MaxSessions /\ ids' = ids + 1
      /\ pc' = [pc EXCEPT ![c] = [at |-> "starting", s |-> s, mid |-> None]]
      /\ UNCHANGED <<rows, txn, active, stopped, queue, inFlight, stopIds, meterIds, rx, samples, faults, restarts,
                     given, delivered, gaveUp>>
  BY <1>0 DEF InsertTransaction, memory, messages, bounds, history
<1>3. /\ Sessions = 1..Len(table) /\ Len(table) \in Nat /\ ids \in Nat /\ s \in Nat
      /\ None \notin Nat /\ Sessions \subseteq Nat
  BY <1>0, Basics, NoneAssumption DEF IndInv, TypeOK
<1> DEFINE row == [connector |-> c, tid |-> [s |-> s, k |-> 0], ack |-> b, startMid |-> mid, stopMid |-> None]
<1>4. mid \in Mids /\ mid.n = ids + 1 /\ row \in Rows
  <2>1. mid \in Mids /\ mid.n = ids + 1
    BY <1>0, <1>3 DEF NewMid, Mids
  <2>2. [s |-> s, k |-> 0] \in Tids
    BY <1>3 DEF Tids
  <2>3. QED
    BY <2>1, <2>2 DEF Rows
<1>5. row.connector = c /\ row.tid.s = s /\ row.ack = b /\ row.startMid = mid /\ row.stopMid = None
  OBVIOUS
<1> HIDE DEF row
<1>6. /\ table' \in Seq(Rows) /\ Len(table') = s
      /\ table'[s] = row /\ \A r \in Sessions : table'[r] = table[r]
      /\ Sessions' = 1..s
  BY <1>0, <1>1, <1>3, <1>4 DEF IndInv, TypeOK, Sessions, row
<1>7. s \notin Sessions /\ s \in Sessions' /\ Sessions' = Sessions \cup {s}
  BY <1>0, <1>3, <1>6
<1>8. /\ Held' = Held /\ Unanswered' = Unanswered /\ Range(queue)' = Range(queue) /\ Range(rows)' = Range(rows)
      /\ Known' = Known
  BY <1>2 DEF Held, Unanswered, Known
<1>9. /\ pc' \in [Connectors -> [at : {"idle", "starting", "stopping"}, s : Sessions' \cup {None},
                                 mid : Mids \cup {None}]]
      /\ pc'[c].at = "starting" /\ pc'[c].s = s
      /\ \A d \in Connectors \ {c} : pc'[d] = pc[d]
  <2>1. pc \in [Connectors -> [at : {"idle", "starting", "stopping"}, s : Sessions' \cup {None},
                               mid : Mids \cup {None}]]
    BY <1>7 DEF IndInv, TypeOK
  <2>2. [at |-> "starting", s |-> s, mid |-> None]
           \in [at : {"idle", "starting", "stopping"}, s : Sessions' \cup {None}, mid : Mids \cup {None}]
    BY <1>7
  <2>3. QED
    BY <1>2, <2>1, <2>2
<1>10. TypeOK'
  <2>1. Len(table') <= MaxSessions /\ ids' \in Nat
    BY <1>2, <1>3, <1>6
  <2>2. DOMAIN txn' \subseteq Sessions' /\ delivered' \subseteq Sessions' /\ gaveUp' \subseteq Sessions'
    BY <1>2, <1>7 DEF IndInv, TypeOK
  <2>3. QED
    BY <1>2, <1>6, <1>9, <2>1, <2>2 DEF IndInv, TypeOK
<1>11. RefInv'
  <2> DEFINE N == {Id(ids + 1, s, "start")}
  <2>1. TxnRefs' = TxnRefs /\ StopRefs' = StopRefs
    BY <1>2 DEF TxnRefs, StopRefs
  <2>2. MeterRefs' = MeterRefs
    BY <1>2 DEF MeterRefs
  <2>3. \A x \in OperationRefs' : x \in OperationRefs
    BY <1>9 DEF OperationRefs
  <2>4. \A x \in TableRefs' : x \in TableRefs \cup N
    BY <1>4, <1>5, <1>6, <1>7 DEF TableRefs
  <2>5. MessageRefs' = MessageRefs
    BY <1>8 DEF MessageRefs
  <2>6. \A x \in Refs' : x \in Refs \/ x \in N
    BY <2>1, <2>2, <2>3, <2>4, <2>5 DEF Refs
  <2>7. \A x \in N : x.n \in (ids + 1)..ids'
    BY <1>2, <1>3 DEF Id
  <2>8. \A x, y \in N : x.n = y.n => x = y
    OBVIOUS
  <2> HIDE DEF N
  <2>9. ids' \in Nat /\ ids <= ids'
    BY <1>2, <1>3
  <2>10. QED
    BY <1>3, <2>6, <2>7, <2>8, <2>9, RefsGrow DEF IndInv
<1>12. TidInv'
  <2>1. mid.gen = 0
    BY <1>0 DEF NewMid
  <2>2. QED
    BY <1>2, <1>5, <1>6, <1>7, <1>8, <2>1 DEF IndInv, TidInv
<1>13. OrderInv' /\ DeliveredInv'
  BY <1>2, <1>7, <1>8 DEF IndInv, OrderInv, DeliveredInv
<1>14. StartInv'
  <2>1. \A x \in Range(rows) \cup Held : x.s \in Sessions
    BY DEF IndInv, TidInv
  <2>2. QED
    BY <1>2, <1>6, <1>8, <2>1 DEF IndInv, StartInv
<1>15. \A r : Over(r)' <=> Over(r)
  BY <1>2 DEF Over, StopPending
<1>16. OperationInv'
  <2>1. SUFFICES ASSUME NEW d \in Connectors
                 PROVE  /\ active[d] # None => Leads(d, active[d])'
                        /\ pc'[d].at = "starting" =>
                              /\ active[d] = None /\ pc'[d].s # None /\ Leads(d, pc[d].s)'
                              /\ pc'[d].s \notin delivered
                              /\ \A m \in Range(rows) \cup Held : m.s # pc'[d].s
                        /\ pc'[d].at = "stopping" =>
                              /\ active[d] # None /\ active[d] = pc'[d].s /\ pc'[d].mid # None
                              /\ Over(pc'[d].s)
    BY <1>2, <1>8, <1>15 DEF OperationInv, OperationAt
  <2>2. CASE d = c
    <3>1. Leads(c, s)'
      <4>1. \A r \in Sessions' : r <= s
        BY <1>3, <1>6
      <4>2. QED
        BY <1>5, <1>6, <1>7, <4>1 DEF Leads
    <3>2. s \notin delivered /\ \A m \in Range(rows) \cup Held : m.s # s
      BY <1>7 DEF IndInv, TidInv, DeliveredInv
    <3>3. s # None
      BY <1>3
    <3>4. QED
      BY <1>2, <1>9, <2>2, <3>1, <3>2, <3>3
  <2>3. CASE d # c
    <3>1. \A r : Leads(d, r) => Leads(d, r)'
      BY <1>5, <1>6, <1>7, <2>3 DEF Leads
    <3>2. pc'[d] = pc[d]
      BY <1>9, <2>3
    <3>3. active[d] # None => Leads(d, active[d])'
      BY <1>2, <3>1 DEF IndInv, OperationInv, OperationAt, Leads
    <3>4. pc[d].at = "starting" => Leads(d, pc[d].s)'
      BY <3>1, <3>2 DEF IndInv, OperationInv, OperationAt, Leads
    <3>5. QED
      BY <3>2, <3>3, <3>4 DEF IndInv, OperationInv, OperationAt
  <2>4. QED
    BY <2>2, <2>3
<1>17. NoTransactionForgotten'
  <2>1. SUFFICES ASSUME NEW r \in Sessions'
                 PROVE  table'[r].ack \/ r \in Range(active)' \/ InOperation(r)' \/ Over(r)'
    BY DEF NoTransactionForgotten, Over
  <2>2. CASE r = s
    <3>1. InOperation(s)'
      BY <1>9 DEF InOperation
    <3>2. QED
      BY <2>2, <3>1
  <2>3. CASE r \in Sessions
    <3>1. table[r].ack \/ r \in Range(active) \/ InOperation(r) \/ Over(r)
      BY <2>3 DEF IndInv, NoTransactionForgotten, Over
    <3>2. InOperation(r) => InOperation(r)'
      BY <1>2, <1>3, <1>9, <2>3 DEF InOperation, Idle
    <3>3. QED
      BY <1>2, <1>6, <1>15, <2>3, <3>1, <3>2 DEF Range
  <2>4. QED
    BY <1>7, <2>2, <2>3
<1>18. AckMeansStopped'
  BY <1>1, <1>2, <1>5, <1>6, <1>7 DEF IndInv, AckMeansStopped
<1>19. QED
  BY <1>10, <1>11, <1>12, <1>13, <1>14, <1>16, <1>17, <1>18 DEF IndInv

\* A message is pushed.
LEMMA PushFacts ==
    ASSUME TypeOK, OrderInv, NEW m \in Messages, PushCall(m), UNCHANGED <<inFlight, rx>>,
           m.type = "start" => \A x \in Range(rows) \cup Held : x.s # m.s
    PROVE  /\ rows' \in Seq(Messages) /\ queue' \in Seq(Messages)
           /\ Range(rows)' = Range(rows) \cup {m} /\ Range(queue)' = Range(queue) \cup {m}
           /\ Held' = Held \cup {m} /\ Unanswered' = Unanswered \cup {m}
           /\ OrderInv'
           /\ \A s : Over(s)' <=> (StopPending(s) \/ (m.type = "stop" /\ m.s = s) \/ s \in gaveUp' \/ s \in delivered')
<1>1. queue' = Append(queue, m) /\ rows' = Append(rows, m)
  BY DEF PushCall
<1>2. rows \in Seq(Messages) /\ queue \in Seq(Messages) /\ StartFirst(rows) /\ StartFirst(queue)
  BY DEF TypeOK, OrderInv
<1>3. /\ rows' \in Seq(Messages) /\ queue' \in Seq(Messages)
      /\ Range(rows)' = Range(rows) \cup {m} /\ Range(queue)' = Range(queue) \cup {m}
  BY <1>1, <1>2, AppendFacts
<1>4. m.type = "start" => \A x \in Range(rows) \cup Range(queue) : x.s # m.s
  BY DEF Held
<1>5. StartFirst(rows)' /\ StartFirst(queue)'
  BY <1>1, <1>2, <1>4, AppendFacts
<1>6. Held' = Held \cup {m} /\ Unanswered' = Unanswered \cup {m}
  BY <1>3 DEF Held, Unanswered
<1>7. OrderInv'
  <2>1. inFlight # None => ~StartIn(Range(queue) \cup {m}, inFlight.s)
    BY DEF OrderInv, StartIn, Held
  <2>2. rx # None => ~StartIn(Unanswered \cup {m}, rx.s)
    BY DEF OrderInv, StartIn, Held
  <2>3. QED
    BY <1>3, <1>5, <1>6, <2>1, <2>2 DEF OrderInv
<1>8. ASSUME NEW s PROVE StopPending(s)' <=> StopPending(s) \/ (m.type = "stop" /\ m.s = s)
  <2>1. StopPending(s)' <=> \E x \in Range(rows)' : x.type = "stop" /\ x.s = s
    BY DEF StopPending, Range
  <2>2. QED
    BY <1>3, <2>1, StopPendingIn
<1>9. QED
  BY <1>3, <1>6, <1>7, <1>8 DEF Over

\* What the application does at one connector does not disturb its operations at another.
LEMMA OtherConnector ==
    ASSUME OperationInv, NEW c, NEW d \in Connectors, d # c,
           active'[d] = active[d], pc'[d] = pc[d], Sessions' = Sessions,
           \A r \in Sessions : table'[r].connector = table[r].connector,
           NEW s, table[s].connector = c,
           \A m \in (Range(rows) \cup Held)' : m \in Range(rows) \cup Held \/ m.s = s,
           delivered' = delivered, \A r : Over(r) => Over(r)'
    PROVE  OperationAt(d)'
<1>1. PICK a, p : a = active[d] /\ p = pc[d]
  OBVIOUS
<1>2. /\ a # None => Leads(d, a)
      /\ p.at = "starting" =>
            /\ a = None /\ p.s # None /\ Leads(d, p.s) /\ p.s \notin delivered
            /\ \A m \in Range(rows) \cup Held : m.s # p.s
      /\ p.at = "stopping" => a # None /\ a = p.s /\ p.mid # None /\ Over(p.s)
  BY <1>1 DEF OperationInv, OperationAt
<1>3. \A r : Leads(d, r) => Leads(d, r)'
  BY DEF Leads
<1>4. \A r : Leads(d, r) => r # s
  BY DEF Leads
<1>5. /\ a # None => Leads(d, a)'
      /\ p.at = "starting" =>
            /\ a = None /\ p.s # None /\ Leads(d, p.s)' /\ p.s \notin delivered'
            /\ \A m \in (Range(rows) \cup Held)' : m.s # p.s
      /\ p.at = "stopping" => a # None /\ a = p.s /\ p.mid # None /\ Over(p.s)'
  BY <1>2, <1>3, <1>4
<1>6. a = active'[d] /\ p = pc'[d]
  BY <1>1
<1>7. QED
  BY <1>5, <1>6 DEF OperationAt

LEMMA StartTransactionKeeps ==
    ASSUME IndInv, NEW c \in Connectors, StartTransaction(c)
    PROVE  IndInv'
<1>1. PICK s, mid, m : s = pc[c].s /\ mid = table[s].startMid /\ m = Message("start", s, None, mid.n)
  OBVIOUS
<1>2. /\ pc[c].at = "starting"
      /\ txn' = With(txn, s, Transaction(c, None, mid, None, TRUE, FALSE))
      /\ active' = [active EXCEPT ![c] = s]
      /\ PushCall(m)
      /\ pc' = [pc EXCEPT ![c] = Idle]
      /\ UNCHANGED <<table, stopped, inFlight, stopIds, meterIds, rx, ids, samples, faults, restarts,
                     given, delivered, gaveUp>>
  BY <1>1 DEF StartTransaction, bounds, history
<1>3. /\ active[c] = None /\ s # None /\ Leads(c, s) /\ s \notin delivered
      /\ \A x \in Range(rows) \cup Held : x.s # s
  BY <1>1, <1>2 DEF IndInv, OperationInv, OperationAt
<1>4. /\ s \in Sessions /\ s \in Nat /\ table[s] \in Rows /\ mid \in Mids /\ table[s].connector = c
      /\ None \notin Nat
  BY <1>1, <1>3, Basics, NoneAssumption DEF Leads, IndInv, Rows
<1>5. m \in Messages /\ m.type = "start" /\ m.s = s /\ m.n = mid.n /\ m.gen = 0 /\ m.tid = None
  BY <1>1, <1>4 DEF Message, Messages, Types, Mids
<1>6. /\ rows' \in Seq(Messages) /\ queue' \in Seq(Messages)
      /\ Range(rows)' = Range(rows) \cup {m} /\ Range(queue)' = Range(queue) \cup {m}
      /\ Held' = Held \cup {m} /\ Unanswered' = Unanswered \cup {m}
      /\ OrderInv'
      /\ \A r : Over(r) => Over(r)'
  <2>1. \A x \in Range(rows) \cup Held : x.s # m.s
    BY <1>3, <1>5
  <2>2. /\ rows' \in Seq(Messages) /\ queue' \in Seq(Messages)
        /\ Range(rows)' = Range(rows) \cup {m} /\ Range(queue)' = Range(queue) \cup {m}
        /\ Held' = Held \cup {m} /\ Unanswered' = Unanswered \cup {m}
        /\ OrderInv'
        /\ \A r : Over(r)' <=> (StopPending(r) \/ (m.type = "stop" /\ m.s = r) \/ r \in gaveUp' \/ r \in delivered')
    BY <1>2, <1>5, <2>1, PushFacts DEF IndInv
  <2>3. QED
    BY <1>2, <2>2 DEF Over
<1>7. Sessions' = Sessions
  BY <1>2 DEF Sessions
<1>8. PICK o \in Objects : o = Transaction(c, None, mid, None, TRUE, FALSE)
  <2>1. PICK yes \in BOOLEAN, no \in BOOLEAN : yes = TRUE /\ no = FALSE
    OBVIOUS
  <2>2. Transaction(c, None, mid, None, yes, no) \in Objects
    BY <1>4 DEF Transaction, Objects
  <2>3. QED
    BY <2>1, <2>2
<1>9. o.tid = None /\ o.startMid = mid /\ o.stopMid = None
  BY <1>8 DEF Transaction
<1>10. /\ DOMAIN txn' = DOMAIN txn \cup {s} /\ txn'[s] = o
       /\ \A r \in DOMAIN txn \ {s} : txn'[r] = txn[r]
  BY <1>2, <1>8 DEF With
<1>11. /\ active' \in [Connectors -> DOMAIN txn' \cup {None}]
       /\ active'[c] = s /\ \A d \in Connectors \ {c} : active'[d] = active[d]
  BY <1>2, <1>10 DEF IndInv, TypeOK
<1>12. /\ pc' \in [Connectors -> [at : {"idle", "starting", "stopping"}, s : Sessions \cup {None},
                                  mid : Mids \cup {None}]]
       /\ pc'[c] = Idle /\ \A d \in Connectors \ {c} : pc'[d] = pc[d]
  BY <1>2 DEF IndInv, TypeOK, Idle
<1>13. TypeOK'
  <2>1. /\ DOMAIN txn' \subseteq Sessions /\ stopped' \subseteq DOMAIN txn'
        /\ \A r \in DOMAIN txn' : txn'[r] \in Objects
    BY <1>2, <1>4, <1>10 DEF IndInv, TypeOK
  <2>2. QED
    BY <1>2, <1>6, <1>7, <1>11, <1>12, <2>1 DEF IndInv, TypeOK
<1>14. RefInv'
  <2>1. Id(mid.n, s, "start") \in TableRefs
    BY <1>1, <1>4 DEF TableRefs
  <2>2. TableRefs' = TableRefs /\ StopRefs' = StopRefs
    BY <1>2, <1>7 DEF TableRefs, StopRefs
  <2>3. MeterRefs' = MeterRefs
    BY <1>2 DEF MeterRefs
  <2>4. \A x \in OperationRefs' : x \in OperationRefs
    BY <1>12 DEF OperationRefs, Idle
  <2>5. \A x \in TxnRefs' : x \in TxnRefs \cup TableRefs
    BY <1>9, <1>10, <2>1 DEF TxnRefs
  <2>6. IdOf(m) = Id(mid.n, s, "start")
    BY <1>5 DEF IdOf
  <2>7. \A x \in MessageRefs' : x \in MessageRefs \cup TableRefs
    BY <1>6, <2>1, <2>6 DEF MessageRefs
  <2>8. \A x \in Refs' : x \in Refs
    BY <2>2, <2>3, <2>4, <2>5, <2>7 DEF Refs
  <2>9. QED
    BY <1>2, <2>8, RefsFrom DEF IndInv, TypeOK
<1>15. TidInv'
  <2>1. \A x \in (Range(rows) \cup Held)' :
           x.s \in Sessions /\ (x.type = "stop" => x.tid # None /\ x.tid.s = x.s)
    BY <1>4, <1>5, <1>6 DEF IndInv, TidInv
  <2>2. \A r \in DOMAIN txn' : txn'[r].tid # None => txn'[r].tid.s = r
    BY <1>9, <1>10 DEF IndInv, TidInv
  <2>3. QED
    BY <1>2, <1>7, <2>1, <2>2 DEF IndInv, TidInv
<1>16. DeliveredInv'
  BY <1>2, <1>3, <1>5, <1>6, <1>7 DEF IndInv, DeliveredInv
<1>17. StartInv'
  <2>1. Known \subseteq Known' /\ s \in Known'
    <3>1. ASSUME NEW r \in Known PROVE r \in Known'
      <4>1. CASE r \in stopped
        BY <1>2, <4>1 DEF Known
      <4>2. CASE r \in Range(active) \ {None}
        <5>1. PICK d \in Connectors : active[d] = r /\ r # None
          BY <4>2 DEF Range, IndInv, TypeOK
        <5>2. d # c
          BY <1>3, <5>1
        <5>3. active'[d] = r
          BY <1>11, <5>1, <5>2
        <5>4. QED
          BY <1>11, <5>1, <5>3 DEF Known, Range
      <4>3. QED
        BY <3>1, <4>1, <4>2 DEF Known
    <3>2. s \in Known'
      BY <1>3, <1>11 DEF Known, Range
    <3>3. QED
      BY <3>1, <3>2
  <2>2. Mid(m) = mid /\ mid = table[s].startMid
    <3>1. mid.gen = 0
      BY <1>1, <1>4 DEF IndInv, TidInv
    <3>2. mid = [n |-> mid.n, gen |-> mid.gen]
      BY <1>4 DEF Mids
    <3>3. QED
      BY <1>1, <1>5, <3>1, <3>2 DEF Mid
  <2>3. \A x \in Range(rows) : x.type = "start" => Mid(x) = table[x.s].startMid /\ StartIn(Unanswered', x.s)
    BY <1>6 DEF IndInv, StartInv, StartIn
  <2>4. StartIn(Unanswered', s)
    BY <1>5, <1>6 DEF StartIn
  <2>5. ASSUME NEW x \in Held, x.type = "start"
        PROVE  x.n = table[x.s].startMid.n /\ x.s \in Known' /\ txn'[x.s].startMid = Mid(x)
    <3>1. x.s # s /\ x.s \in DOMAIN txn
      BY <1>3, <2>5, StartFound
    <3>2. QED
      BY <1>10, <2>1, <2>5, <3>1 DEF IndInv, StartInv
  <2>6. m.n = table[m.s].startMid.n /\ m.s \in Known' /\ txn'[m.s].startMid = Mid(m)
    BY <1>1, <1>5, <1>9, <1>10, <2>1, <2>2
  <2>7. QED
    BY <1>2, <1>5, <1>6, <2>2, <2>3, <2>4, <2>5, <2>6 DEF StartInv
<1>18. OperationInv'
  <2>1. OperationAt(c)'
    <3>1. Leads(c, s)'
      BY <1>2, <1>3, <1>7 DEF Leads
    <3>2. QED
      BY <1>11, <1>12, <3>1 DEF OperationAt, Idle
  <2>2. ASSUME NEW d \in Connectors, d # c PROVE OperationAt(d)'
    <3>1. \A x \in (Range(rows) \cup Held)' : x \in Range(rows) \cup Held \/ x.s = s
      BY <1>5, <1>6
    <3>2. active'[d] = active[d] /\ pc'[d] = pc[d]
      BY <1>11, <1>12, <2>2
    <3>3. QED
      BY <1>2, <1>4, <1>6, <1>7, <2>2, <3>1, <3>2, OtherConnector DEF IndInv
  <2>3. QED
    BY <2>1, <2>2 DEF OperationInv
<1>19. NoTransactionForgotten'
  <2>1. SUFFICES ASSUME NEW r \in Sessions
                 PROVE  table[r].ack \/ r \in Range(active)' \/ InOperation(r)' \/ Over(r)'
    BY <1>2, <1>7 DEF NoTransactionForgotten, Over
  <2>2. table[r].ack \/ r \in Range(active) \/ InOperation(r) \/ Over(r)
    BY DEF IndInv, NoTransactionForgotten, Over
  <2>3. r = s => r \in Range(active)'
    BY <1>11 DEF Range
  <2>4. r \in Range(active) => r \in Range(active)'
    <3>1. r # None
      BY Basics DEF IndInv
    <3>2. ASSUME NEW d \in Connectors, active[d] = r PROVE active'[d] = r
      BY <1>3, <1>11, <3>1, <3>2
    <3>3. QED
      BY <1>11, <3>2 DEF Range, IndInv, TypeOK
  <2>5. InOperation(r) => InOperation(r)' \/ r = s
    BY <1>1, <1>12 DEF InOperation
  <2>6. QED
    BY <1>6, <2>2, <2>3, <2>4, <2>5
<1>20. AckMeansStopped'
  BY <1>2, <1>7 DEF IndInv, AckMeansStopped
<1>21. QED
  BY <1>6, <1>13, <1>14, <1>15, <1>16, <1>17, <1>18, <1>19, <1>20 DEF IndInv

LEMMA PushStopKeeps ==
    ASSUME IndInv, NEW c \in Connectors, PushStop(c)
    PROVE  IndInv'
<1>1. PICK s, mid, tid, m : /\ s = active[c] /\ mid = NewMid(ids + 1) /\ tid = StopId(s)
                            /\ m = Message("stop", s, tid, ids + 1)
  OBVIOUS
<1>2. /\ pc[c] = Idle /\ s # None
      /\ txn' = [txn EXCEPT ![s].active = FALSE]
      /\ PushCall(m)
      /\ ids' = ids + 1
      /\ pc' = [pc EXCEPT ![c] = [at |-> "stopping", s |-> s, mid |-> mid]]
      /\ UNCHANGED <<table, active, stopped, inFlight, stopIds, meterIds, rx, samples, faults, restarts,
                     given, delivered, gaveUp>>
  BY <1>1 DEF PushStop, bounds, history
<1>3. Leads(c, s)
  BY <1>1, <1>2 DEF IndInv, OperationInv, OperationAt
<1>4. /\ s \in Sessions /\ s \in Nat /\ table[s].connector = c /\ s \in DOMAIN txn /\ txn[s] \in Objects
      /\ ids \in Nat /\ None \notin Nat
  BY <1>1, <1>2, <1>3, Basics, NoneAssumption DEF Leads, IndInv, TypeOK
<1>5. tid \in Tids /\ tid.s = s /\ tid # None
  <2>1. CASE txn[s].tid # None
    BY <1>1, <1>4, <2>1 DEF StopId, IndInv, TidInv, Objects
  <2>2. CASE txn[s].tid = None
    <3>1. tid = [s |-> s, k |-> 0] /\ tid \in Tids
      BY <1>1, <1>4, <2>2 DEF StopId, Tids
    <3>2. QED
      BY <3>1, NoneAssumption
  <2>3. QED
    BY <2>1, <2>2
<1>6. /\ m \in Messages /\ m.type = "stop" /\ m.s = s /\ m.n = ids + 1 /\ m.tid = tid
      /\ mid \in Mids /\ mid.n = ids + 1 /\ mid # None
  <2>1. m \in Messages /\ m.type = "stop" /\ m.s = s /\ m.n = ids + 1 /\ m.tid = tid
    BY <1>1, <1>4, <1>5 DEF Message, Messages, Types
  <2>2. mid \in Mids /\ mid.n = ids + 1
    BY <1>1, <1>4 DEF NewMid, Mids
  <2>3. QED
    BY <2>1, <2>2, NoneAssumption
<1>7. /\ rows' \in Seq(Messages) /\ queue' \in Seq(Messages)
      /\ Range(rows)' = Range(rows) \cup {m} /\ Range(queue)' = Range(queue) \cup {m}
      /\ Held' = Held \cup {m} /\ Unanswered' = Unanswered \cup {m}
      /\ OrderInv'
      /\ Over(s)' /\ \A r : Over(r) => Over(r)'
  <2>1. /\ rows' \in Seq(Messages) /\ queue' \in Seq(Messages)
        /\ Range(rows)' = Range(rows) \cup {m} /\ Range(queue)' = Range(queue) \cup {m}
        /\ Held' = Held \cup {m} /\ Unanswered' = Unanswered \cup {m}
        /\ OrderInv'
        /\ \A r : Over(r)' <=> (StopPending(r) \/ (m.type = "stop" /\ m.s = r) \/ r \in gaveUp' \/ r \in delivered')
    BY <1>2, <1>6, PushFacts DEF IndInv
  <2>2. QED
    BY <1>2, <1>6, <2>1 DEF Over
<1>8. Sessions' = Sessions /\ Known' = Known
  BY <1>2 DEF Sessions, Known
<1>9. /\ DOMAIN txn' = DOMAIN txn
      /\ \A r \in DOMAIN txn : /\ txn'[r] \in Objects
                               /\ txn'[r].startMid = txn[r].startMid
                               /\ txn'[r].stopMid = txn[r].stopMid
                               /\ txn'[r].tid = txn[r].tid
  <2>1. PICK no \in BOOLEAN : no = FALSE
    OBVIOUS
  <2>2. \A r \in DOMAIN txn : txn'[r] = IF r = s THEN [txn[s] EXCEPT !.active = no] ELSE txn[r]
    BY <1>2, <2>1
  <2>3. \A r \in DOMAIN txn : txn[r] \in Objects
    BY DEF IndInv, TypeOK
  <2>4. QED
    BY <1>2, <2>2, <2>3 DEF Objects
<1>10. /\ pc' \in [Connectors -> [at : {"idle", "starting", "stopping"}, s : Sessions \cup {None},
                                  mid : Mids \cup {None}]]
       /\ pc'[c].at = "stopping" /\ pc'[c].s = s /\ pc'[c].mid = mid
       /\ \A d \in Connectors \ {c} : pc'[d] = pc[d]
  <2>1. pc \in [Connectors -> [at : {"idle", "starting", "stopping"}, s : Sessions \cup {None},
                               mid : Mids \cup {None}]]
    BY DEF IndInv, TypeOK
  <2>2. [at |-> "stopping", s |-> s, mid |-> mid]
           \in [at : {"idle", "starting", "stopping"}, s : Sessions \cup {None}, mid : Mids \cup {None}]
    BY <1>4, <1>6
  <2>3. QED
    BY <1>2, <2>1, <2>2
<1>11. ids' \in Nat /\ ids <= ids'
  BY <1>2, <1>4
<1>12. TypeOK'
  BY <1>2, <1>7, <1>8, <1>9, <1>10, <1>11 DEF IndInv, TypeOK
<1>13. RefInv'
  <2> DEFINE N == {Id(ids + 1, s, "stop")}
  <2>1. TableRefs' = TableRefs /\ StopRefs' = StopRefs
    BY <1>2, <1>8 DEF TableRefs, StopRefs
  <2>2. MeterRefs' = MeterRefs
    BY <1>2 DEF MeterRefs
  <2>3. \A x \in TxnRefs' : x \in TxnRefs
    BY <1>9 DEF TxnRefs
  <2>4. \A x \in OperationRefs' : x \in OperationRefs \cup N
    BY <1>6, <1>10 DEF OperationRefs
  <2>5. IdOf(m) \in N
    BY <1>6 DEF IdOf
  <2>6. \A x \in MessageRefs' : x \in MessageRefs \cup N
    BY <1>7, <2>5 DEF MessageRefs
  <2>7. \A x \in Refs' : x \in Refs \/ x \in N
    BY <2>1, <2>2, <2>3, <2>4, <2>6 DEF Refs
  <2>8. \A x \in N : x.n \in (ids + 1)..ids'
    BY <1>2, <1>4 DEF Id
  <2>9. \A x, y \in N : x.n = y.n => x = y
    OBVIOUS
  <2> HIDE DEF N
  <2>10. QED
    BY <1>4, <1>11, <2>7, <2>8, <2>9, RefsGrow DEF IndInv
<1>14. TidInv'
  <2>1. \A x \in (Range(rows) \cup Held)' :
           x.s \in Sessions /\ (x.type = "stop" => x.tid # None /\ x.tid.s = x.s)
    BY <1>4, <1>5, <1>6, <1>7 DEF IndInv, TidInv
  <2>2. QED
    BY <1>2, <1>8, <1>9, <2>1 DEF IndInv, TidInv
<1>15. DeliveredInv'
  BY <1>2, <1>6, <1>7, <1>8 DEF IndInv, DeliveredInv
<1>16. StartInv'
  <2>1. \A x \in Held : x.type = "start" => x.s \in DOMAIN txn
    BY StartFound
  <2>2. QED
    BY <1>2, <1>6, <1>7, <1>8, <1>9, <2>1 DEF IndInv, StartInv, StartIn
<1>17. OperationInv'
  <2>1. OperationAt(c)'
    <3>1. Leads(c, s)'
      BY <1>2, <1>3, <1>8 DEF Leads
    <3>2. active'[c] = s
      BY <1>1, <1>2
    <3>3. QED
      BY <1>2, <1>6, <1>7, <1>10, <3>1, <3>2 DEF OperationAt
  <2>2. ASSUME NEW d \in Connectors, d # c PROVE OperationAt(d)'
    <3>1. \A x \in (Range(rows) \cup Held)' : x \in Range(rows) \cup Held \/ x.s = s
      BY <1>6, <1>7
    <3>2. active'[d] = active[d] /\ pc'[d] = pc[d]
      BY <1>2, <1>10, <2>2
    <3>3. QED
      BY <1>2, <1>4, <1>7, <1>8, <2>2, <3>1, <3>2, OtherConnector DEF IndInv
  <2>3. QED
    BY <2>1, <2>2 DEF OperationInv
<1>18. NoTransactionForgotten'
  <2>1. SUFFICES ASSUME NEW r \in Sessions
                 PROVE  table[r].ack \/ r \in Range(active) \/ InOperation(r)' \/ Over(r)'
    BY <1>2, <1>8 DEF NoTransactionForgotten, Over
  <2>2. table[r].ack \/ r \in Range(active) \/ InOperation(r) \/ Over(r)
    BY DEF IndInv, NoTransactionForgotten, Over
  <2>3. InOperation(r) => InOperation(r)'
    <3>1. r # None
      BY Basics DEF IndInv
    <3>2. QED
      BY <1>2, <1>10, <3>1 DEF InOperation, Idle
  <2>4. QED
    BY <1>7, <2>2, <2>3
<1>19. AckMeansStopped'
  BY <1>2, <1>8 DEF IndInv, AckMeansStopped
<1>20. QED
  BY <1>7, <1>12, <1>13, <1>14, <1>15, <1>16, <1>17, <1>18, <1>19 DEF IndInv

LEMMA FinishStopKeeps ==
    ASSUME IndInv, NEW c \in Connectors, FinishStop(c)
    PROVE  IndInv'
<1>1. PICK s, mid : s = pc[c].s /\ mid = pc[c].mid
  OBVIOUS
<1>2. /\ pc[c].at = "stopping"
      /\ txn' = [txn EXCEPT ![s].finished = TRUE, ![s].stopMid = mid]
      /\ stopped' = stopped \cup {s}
      /\ active' = [active EXCEPT ![c] = None]
      /\ table' = [table EXCEPT ![s].stopMid = mid]
      /\ pc' = [pc EXCEPT ![c] = Idle]
      /\ UNCHANGED <<rows, queue, inFlight, stopIds, meterIds, rx, ids, samples, faults, restarts,
                     given, delivered, gaveUp>>
  BY <1>1 DEF FinishStop, messages, bounds, history
<1>3. active[c] # None /\ active[c] = s /\ mid # None /\ Over(s) /\ Leads(c, s)
  BY <1>1, <1>2 DEF IndInv, OperationInv, OperationAt
<1>4. /\ s \in Sessions /\ table[s].connector = c /\ s \in DOMAIN txn /\ s # None
      /\ mid \in Mids /\ None \notin Mids /\ Id(mid.n, s, "stop") \in OperationRefs
  BY <1>1, <1>2, <1>3, NoneAssumption DEF Leads, IndInv, TypeOK, OperationRefs
<1>5. /\ Held' = Held /\ Unanswered' = Unanswered /\ Range(queue)' = Range(queue) /\ Range(rows)' = Range(rows)
      /\ \A r : Over(r)' <=> Over(r)
  BY <1>2 DEF Held, Unanswered, Over, StopPending
<1>6. /\ table' \in Seq(Rows) /\ Len(table') = Len(table) /\ Sessions' = Sessions
      /\ \A r \in Sessions : /\ table'[r].connector = table[r].connector
                             /\ table'[r].ack = table[r].ack
                             /\ table'[r].startMid = table[r].startMid
                             /\ table'[r].tid = table[r].tid
                             /\ table'[r].stopMid = IF r = s THEN mid ELSE table[r].stopMid
  <2>1. table \in Seq(Rows) /\ s \in 1..Len(table) /\ Sessions = 1..Len(table) /\ \A r \in Sessions : table[r] \in Rows
    BY <1>4, Basics DEF IndInv, TypeOK
  <2>2. [table[s] EXCEPT !.stopMid = mid] \in Rows
    BY <1>4, <2>1 DEF Rows
  <2>3. table' = [table EXCEPT ![s] = [table[s] EXCEPT !.stopMid = mid]]
    BY <1>2
  <2>4. table' \in Seq(Rows) /\ Len(table') = Len(table)
    BY <2>1, <2>2, <2>3
  <2>5. Sessions' = Sessions
    BY <2>1, <2>4 DEF Sessions
  <2>6. \A r \in Sessions : table'[r] = IF r = s THEN [table[s] EXCEPT !.stopMid = mid] ELSE table[r]
    BY <2>1, <2>3
  <2>7. QED
    BY <2>1, <2>4, <2>5, <2>6 DEF Rows
<1>7. /\ DOMAIN txn' = DOMAIN txn
      /\ \A r \in DOMAIN txn : /\ txn'[r] \in Objects
                               /\ txn'[r].startMid = txn[r].startMid
                               /\ txn'[r].tid = txn[r].tid
                               /\ txn'[r].stopMid = IF r = s THEN mid ELSE txn[r].stopMid
  <2>1. PICK yes \in BOOLEAN : yes = TRUE
    OBVIOUS
  <2>2. \A r \in DOMAIN txn : txn[r] \in Objects
    BY DEF IndInv, TypeOK
  <2>3. PICK o \in Objects : o = [txn[s] EXCEPT !.finished = yes, !.stopMid = mid]
    BY <1>4, <2>2 DEF Objects
  <2>4. o.startMid = txn[s].startMid /\ o.tid = txn[s].tid /\ o.stopMid = mid
    BY <1>4, <2>2, <2>3 DEF Objects
  <2>5. txn' = [txn EXCEPT ![s] = o]
    BY <1>2, <1>4, <2>1, <2>3
  <2>6. QED
    BY <2>2, <2>4, <2>5
<1>8. /\ active' \in [Connectors -> DOMAIN txn' \cup {None}]
      /\ active'[c] = None /\ \A d \in Connectors \ {c} : active'[d] = active[d]
  BY <1>2, <1>7 DEF IndInv, TypeOK
<1>9. /\ pc' \in [Connectors -> [at : {"idle", "starting", "stopping"}, s : Sessions \cup {None},
                                 mid : Mids \cup {None}]]
      /\ pc'[c] = Idle /\ \A d \in Connectors \ {c} : pc'[d] = pc[d]
  BY <1>2 DEF IndInv, TypeOK, Idle
<1>10. TypeOK'
  <2>1. stopped' \subseteq DOMAIN txn'
    BY <1>2, <1>4, <1>7 DEF IndInv, TypeOK
  <2>2. QED
    BY <1>2, <1>6, <1>7, <1>8, <1>9, <2>1 DEF IndInv, TypeOK
<1>11. RefInv'
  <2>1. StopRefs' = StopRefs /\ MessageRefs' = MessageRefs
    BY <1>2, <1>5 DEF StopRefs, MessageRefs
  <2>2. MeterRefs' = MeterRefs
    BY <1>2 DEF MeterRefs
  <2>3. \A x \in TableRefs' : x \in TableRefs \cup OperationRefs
    BY <1>4, <1>6 DEF TableRefs
  <2>4. \A x \in TxnRefs' : x \in TxnRefs \cup OperationRefs
    BY <1>4, <1>7 DEF TxnRefs
  <2>5. \A x \in OperationRefs' : x \in OperationRefs
    BY <1>9 DEF OperationRefs, Idle
  <2>6. \A x \in Refs' : x \in Refs
    BY <2>1, <2>2, <2>3, <2>4, <2>5 DEF Refs
  <2>7. QED
    BY <1>2, <2>6, RefsFrom DEF IndInv, TypeOK
<1>12. TidInv'
  BY <1>2, <1>5, <1>6, <1>7 DEF IndInv, TidInv
<1>13. OrderInv' /\ DeliveredInv'
  BY <1>2, <1>5, <1>6 DEF IndInv, OrderInv, DeliveredInv
<1>14. StartInv'
  <2>1. Known \subseteq Known'
    <3>1. SUFFICES ASSUME NEW r \in Known PROVE r \in Known'
      OBVIOUS
    <3>2. CASE r \in stopped \cup {s}
      BY <1>2, <3>2 DEF Known
    <3>3. CASE r \in Range(active) \ {None} /\ r # s
      <4>1. PICK d \in Connectors : active[d] = r
        BY <3>3 DEF Range, IndInv, TypeOK
      <4>2. active'[d] = r
        BY <1>3, <1>8, <3>3, <4>1
      <4>3. QED
        BY <1>8, <3>3, <4>1, <4>2 DEF Known, Range
    <3>4. QED
      BY <3>1, <3>2, <3>3 DEF Known
  <2>2. \A x \in Range(rows) \cup Held : x.s \in Sessions
    BY DEF IndInv, TidInv
  <2>3. \A x \in Held : x.type = "start" => x.s \in DOMAIN txn
    BY StartFound
  <2>4. QED
    BY <1>2, <1>5, <1>6, <1>7, <2>1, <2>2, <2>3 DEF IndInv, StartInv
<1>15. OperationInv'
  <2>1. OperationAt(c)'
    BY <1>8, <1>9 DEF OperationAt, Idle
  <2>2. ASSUME NEW d \in Connectors, d # c PROVE OperationAt(d)'
    <3>1. \A x \in (Range(rows) \cup Held)' : x \in Range(rows) \cup Held \/ x.s = s
      BY <1>5
    <3>2. active'[d] = active[d] /\ pc'[d] = pc[d]
      BY <1>8, <1>9, <2>2
    <3>3. QED
      BY <1>2, <1>4, <1>5, <1>6, <2>2, <3>1, <3>2, OtherConnector DEF IndInv
  <2>3. QED
    BY <2>1, <2>2 DEF OperationInv
<1>16. NoTransactionForgotten'
  <2>1. SUFFICES ASSUME NEW r \in Sessions
                 PROVE  table'[r].ack \/ r \in Range(active)' \/ InOperation(r)' \/ Over(r)'
    BY <1>6 DEF NoTransactionForgotten, Over
  <2>2. table[r].ack \/ r \in Range(active) \/ InOperation(r) \/ Over(r)
    BY DEF IndInv, NoTransactionForgotten, Over
  <2>3. r = s => Over(r)'
    BY <1>3, <1>5
  <2>4. r \in Range(active) => r \in Range(active)' \/ r = s
    BY <1>3, <1>8 DEF Range, IndInv, TypeOK
  <2>5. InOperation(r) => InOperation(r)' \/ r = s
    BY <1>1, <1>9 DEF InOperation
  <2>6. QED
    BY <1>5, <1>6, <2>2, <2>3, <2>4, <2>5
<1>17. AckMeansStopped'
  BY <1>2, <1>6 DEF IndInv, AckMeansStopped
<1>18. QED
  BY <1>10, <1>11, <1>12, <1>13, <1>14, <1>15, <1>16, <1>17 DEF IndInv

LEMMA SendMeterValueKeeps ==
    ASSUME IndInv, NEW c \in Connectors, SendMeterValue(c)
    PROVE  IndInv'
<1>1. PICK s, tid, m, key : /\ s = active[c] /\ tid = txn[s].tid /\ m = Message("meter", s, tid, ids + 1)
                            /\ key = txn[s].startMid
  OBVIOUS
<1>2. /\ s # None /\ pc[c] = Idle /\ samples < MaxSamples /\ samples' = samples + 1
      /\ PushCall(m)
      /\ ids' = ids + 1
      /\ meterIds' = IF tid # None THEN meterIds
                     ELSE With(meterIds, key,
                               (IF key \in DOMAIN meterIds THEN meterIds[key] ELSE {}) \cup {Mid(m)})
      /\ UNCHANGED <<table, txn, active, stopped, inFlight, stopIds, pc, rx, faults, restarts,
                     given, delivered, gaveUp>>
  BY <1>1 DEF SendMeterValue, memory, history
<1>3. Leads(c, s)
  BY <1>1, <1>2 DEF IndInv, OperationInv, OperationAt
<1>4. /\ s \in Sessions /\ s \in Nat /\ table[s].connector = c /\ s \in DOMAIN txn /\ txn[s] \in Objects
      /\ ids \in Nat /\ tid \in Tids \cup {None} /\ key \in Mids
  BY <1>1, <1>2, <1>3, Basics DEF Leads, IndInv, TypeOK, Objects
<1>5. /\ m \in Messages /\ m.type = "meter" /\ m.s = s /\ m.n = ids + 1
      /\ Mid(m) \in Mids /\ Mid(m).n = ids + 1
  BY <1>1, <1>4 DEF Message, Messages, Types, Mid, Mids
<1>6. /\ rows' \in Seq(Messages) /\ queue' \in Seq(Messages)
      /\ Range(rows)' = Range(rows) \cup {m} /\ Range(queue)' = Range(queue) \cup {m}
      /\ Held' = Held \cup {m} /\ Unanswered' = Unanswered \cup {m}
      /\ OrderInv'
      /\ \A r : Over(r) => Over(r)'
  <2>1. /\ rows' \in Seq(Messages) /\ queue' \in Seq(Messages)
        /\ Range(rows)' = Range(rows) \cup {m} /\ Range(queue)' = Range(queue) \cup {m}
        /\ Held' = Held \cup {m} /\ Unanswered' = Unanswered \cup {m}
        /\ OrderInv'
        /\ \A r : Over(r)' <=> (StopPending(r) \/ (m.type = "stop" /\ m.s = r) \/ r \in gaveUp' \/ r \in delivered')
    BY <1>2, <1>5, PushFacts DEF IndInv
  <2>2. QED
    BY <1>2, <2>1 DEF Over
<1>7. Sessions' = Sessions /\ Known' = Known
  BY <1>2 DEF Sessions, Known
<1>8. /\ DOMAIN meterIds' \subseteq Mids
      /\ \A k \in DOMAIN meterIds' : meterIds'[k] \subseteq Mids
      /\ \A k \in DOMAIN meterIds' : \A x \in meterIds'[k] :
            x = Mid(m) \/ (k \in DOMAIN meterIds /\ x \in meterIds[k])
  <2>1. CASE meterIds' = meterIds
    BY <2>1 DEF IndInv, TypeOK
  <2>2. CASE tid = None
    <3> DEFINE W == (IF key \in DOMAIN meterIds THEN meterIds[key] ELSE {}) \cup {Mid(m)}
    <3>1. W \subseteq Mids /\ \A x \in W : x = Mid(m) \/ (key \in DOMAIN meterIds /\ x \in meterIds[key])
      BY <1>5 DEF IndInv, TypeOK
    <3>2. meterIds' = With(meterIds, key, W)
      BY <1>2, <2>2
    <3> HIDE DEF W
    <3>3. /\ DOMAIN meterIds' = DOMAIN meterIds \cup {key}
          /\ \A k \in DOMAIN meterIds' : meterIds'[k] = IF k = key THEN W ELSE meterIds[k]
      BY <3>2 DEF With
    <3>4. DOMAIN meterIds \subseteq Mids /\ \A k \in DOMAIN meterIds : meterIds[k] \subseteq Mids
      BY DEF IndInv, TypeOK
    <3>5. QED
      BY <1>4, <3>1, <3>3, <3>4
  <2>3. QED
    BY <1>2, <2>1, <2>2
<1>9. ids' \in Nat /\ ids <= ids'
  BY <1>2, <1>4
<1>10. TypeOK'
  <2>1. samples' \in 0..MaxSamples
    BY <1>2, TransactionsAssumption DEF IndInv, TypeOK
  <2>2. QED
    BY <1>2, <1>6, <1>7, <1>8, <1>9, <2>1 DEF IndInv, TypeOK
<1>11. RefInv'
  <2> DEFINE N == {Id(ids + 1, 0, "meter")}
  <2>1. TableRefs' = TableRefs /\ StopRefs' = StopRefs
    BY <1>2, <1>7 DEF TableRefs, StopRefs
  <2>2. TxnRefs' = TxnRefs /\ OperationRefs' = OperationRefs
    BY <1>2 DEF TxnRefs, OperationRefs
  <2>3. \A x \in MeterRefs' : x \in MeterRefs \cup N
    BY <1>5, <1>8 DEF MeterRefs, Range
  <2>4. IdOf(m) \in N
    BY <1>5 DEF IdOf
  <2>5. \A x \in MessageRefs' : x \in MessageRefs \cup N
    BY <1>6, <2>4 DEF MessageRefs
  <2>6. \A x \in Refs' : x \in Refs \/ x \in N
    BY <2>1, <2>2, <2>3, <2>5 DEF Refs
  <2>7. \A x \in N : x.n \in (ids + 1)..ids'
    BY <1>2, <1>4 DEF Id
  <2>8. \A x, y \in N : x.n = y.n => x = y
    OBVIOUS
  <2> HIDE DEF N
  <2>9. QED
    BY <1>4, <1>9, <2>6, <2>7, <2>8, RefsGrow DEF IndInv
<1>12. TidInv'
  <2>1. \A x \in (Range(rows) \cup Held)' :
           x.s \in Sessions /\ (x.type = "stop" => x.tid # None /\ x.tid.s = x.s)
    BY <1>4, <1>5, <1>6 DEF IndInv, TidInv
  <2>2. QED
    BY <1>2, <1>7, <2>1 DEF IndInv, TidInv
<1>13. DeliveredInv'
  BY <1>2, <1>5, <1>6, <1>7 DEF IndInv, DeliveredInv
<1>14. StartInv'
  BY <1>2, <1>5, <1>6, <1>7 DEF IndInv, StartInv, StartIn
<1>15. OperationInv'
  <2>1. OperationAt(c)'
    <3>1. Leads(c, s)'
      BY <1>2, <1>3, <1>7 DEF Leads
    <3>2. active'[c] = s /\ pc'[c] = Idle
      BY <1>1, <1>2
    <3>3. QED
      BY <3>1, <3>2 DEF OperationAt, Idle
  <2>2. ASSUME NEW d \in Connectors, d # c PROVE OperationAt(d)'
    <3>1. \A x \in (Range(rows) \cup Held)' : x \in Range(rows) \cup Held \/ x.s = s
      BY <1>5, <1>6
    <3>2. QED
      BY <1>2, <1>4, <1>6, <1>7, <2>2, <3>1, OtherConnector DEF IndInv
  <2>3. QED
    BY <2>1, <2>2 DEF OperationInv
<1>16. NoTransactionForgotten' /\ AckMeansStopped'
  BY <1>2, <1>6, <1>7, ForgottenFrame DEF IndInv, AckMeansStopped
<1>17. QED
  BY <1>6, <1>10, <1>11, <1>12, <1>13, <1>14, <1>15, <1>16 DEF IndInv

-----------------------------------------------------------------------------
(* Crashes and restarts                                                    *)

\* Messages that start nothing are put behind the others.
LEMMA ConcatFacts ==
    ASSUME NEW q \in Seq(Messages), NEW a \in Seq(Messages), \A i \in DOMAIN a : a[i].type # "start"
    PROVE  /\ q \o a \in Seq(Messages)
           /\ Range(q \o a) = Range(q) \cup Range(a)
           /\ StartFirst(q) => StartFirst(q \o a)
<1> DEFINE w == q \o a
           k == Len(q)
           l == Len(a)
<1>1. /\ w \in Seq(Messages) /\ k \in Nat /\ l \in Nat /\ Len(w) = k + l
      /\ DOMAIN w = 1..(k + l) /\ DOMAIN q = 1..k /\ DOMAIN a = 1..l
      /\ \A i \in 1..k : w[i] = q[i]
      /\ \A i \in 1..l : w[k + i] = a[i]
  OBVIOUS
<1> HIDE DEF w, k, l
<1>2. \A i \in (k + 1)..(k + l) : i - k \in 1..l /\ w[i] = a[i - k]
  <2>1. SUFFICES ASSUME NEW i \in (k + 1)..(k + l) PROVE i - k \in 1..l /\ w[i] = a[i - k]
    OBVIOUS
  <2>2. i - k \in 1..l /\ k + (i - k) = i
    BY <1>1
  <2>3. QED
    BY <1>1, <2>2
<1>3. ASSUME NEW x PROVE x \in Range(w) <=> x \in Range(q) \cup Range(a)
  <2>1. ASSUME x \in Range(w) PROVE x \in Range(q) \cup Range(a)
    <3>1. PICK i \in 1..(k + l) : w[i] = x
      BY <1>1, <2>1 DEF Range
    <3>2. CASE i \in 1..k
      BY <1>1, <3>1, <3>2 DEF Range
    <3>3. CASE i \in (k + 1)..(k + l)
      BY <1>1, <1>2, <3>1, <3>3 DEF Range
    <3>4. QED
      BY <1>1, <3>1, <3>2, <3>3
  <2>2. ASSUME x \in Range(q) PROVE x \in Range(w)
    <3>1. PICK i \in 1..k : q[i] = x
      BY <1>1, <2>2 DEF Range
    <3>2. i \in 1..(k + l) /\ w[i] = x
      BY <1>1, <3>1
    <3>3. QED
      BY <1>1, <3>2 DEF Range
  <2>3. ASSUME x \in Range(a) PROVE x \in Range(w)
    <3>1. PICK i \in 1..l : a[i] = x
      BY <1>1, <2>3 DEF Range
    <3>2. k + i \in 1..(k + l) /\ w[k + i] = x
      BY <1>1, <3>1
    <3>3. QED
      BY <1>1, <3>2 DEF Range
  <2>4. QED
    BY <2>1, <2>2, <2>3
<1>4. ASSUME StartFirst(q) PROVE StartFirst(w)
  <2>1. SUFFICES ASSUME NEW i \in 1..(k + l), NEW j \in 1..(k + l), i < j, w[j].type = "start"
                 PROVE  w[i].s # w[j].s
    BY <1>1 DEF StartFirst
  <2>2. CASE j \in 1..k
    <3>1. i \in 1..k /\ w[i] = q[i] /\ w[j] = q[j]
      BY <1>1, <2>1, <2>2
    <3>2. QED
      BY <1>1, <1>4, <2>1, <2>2, <3>1 DEF StartFirst
  <2>3. CASE j \in (k + 1)..(k + l)
    BY <1>1, <1>2, <2>1, <2>3
  <2>4. QED
    BY <1>1, <2>1, <2>2, <2>3
<1>5. Range(w) = Range(q) \cup Range(a)
  BY <1>3
<1>6. QED
  BY <1>1, <1>4, <1>5 DEF w

\* The queue is read from its table.
LEMMA ReloadFacts ==
    ASSUME rows \in Seq(Messages), StartFirst(rows)
    PROVE  /\ Reload \in Seq(Messages) /\ StartFirst(Reload)
           /\ \A x \in Range(Reload) : \E y \in Range(rows) :
                 x.type = y.type /\ x.s = y.s /\ x.n = y.n /\ x.gen = y.gen /\ x.tid = y.tid
           /\ \A y \in Range(rows) : \E x \in Range(Reload) : x.type = y.type /\ x.s = y.s
<1>1. DOMAIN rows = 1..Len(rows) /\ Len(rows) \in Nat /\ \A i \in DOMAIN rows : rows[i] \in Messages
  OBVIOUS
<1>2. PICK z \in Nat : z = 0
  OBVIOUS
<1>3. Reload = [i \in 1..Len(rows) |-> [rows[i] EXCEPT !.attempts = z]]
  BY <1>1, <1>2 DEF Reload
<1>4. \A i \in 1..Len(rows) : [rows[i] EXCEPT !.attempts = z] \in Messages
  BY <1>1 DEF Messages
<1>5. Reload \in Seq(Messages) /\ DOMAIN Reload = DOMAIN rows
  BY <1>1, <1>3, <1>4
<1>6. \A i \in DOMAIN rows : /\ Reload[i].type = rows[i].type /\ Reload[i].s = rows[i].s
                             /\ Reload[i].n = rows[i].n /\ Reload[i].gen = rows[i].gen
                             /\ Reload[i].tid = rows[i].tid
  BY <1>1, <1>3 DEF Messages
<1>7. StartFirst(Reload)
  BY <1>5, <1>6, InPlace
<1>8. QED
  BY <1>5, <1>6, <1>7 DEF Range

\* The StopTransaction.req of the transactions that are neither stopped nor resumed.
LEMMA OrphanFacts ==
    ASSUME IndInv, NEW resuming
    PROVE  LET L == OrphanList(resuming)
               stops == OrphanStops(resuming)
           IN  /\ L \in Seq(Orphans(resuming)) /\ Len(L) \in Nat /\ DOMAIN L = 1..Len(L)
               /\ stops \in Seq(Messages) /\ DOMAIN stops = DOMAIN L
               /\ \A i \in DOMAIN L :
                     /\ L[i] \in Orphans(resuming)
                     /\ stops[i].type = "stop" /\ stops[i].s = L[i] /\ stops[i].n = ids + i
                     /\ stops[i].tid = table[L[i]].tid
               /\ \A s \in Orphans(resuming) : \E i \in DOMAIN L :
                     L[i] = s /\ StopMidAfter(resuming, s) = NewMid(ids + i)
<1> DEFINE O == Orphans(resuming)
           L == OrphanList(resuming)
           stops == OrphanStops(resuming)
<1>1. O \subseteq Sessions
  BY DEF Orphans, Owed
<1>2. Sessions = 1..Len(table) /\ Len(table) \in Nat /\ ids \in Nat /\ \A s \in Sessions : table[s] \in Rows
  BY Basics DEF IndInv, TypeOK
<1>3. O \in SUBSET Nat /\ O \subseteq 1..Len(table)
  BY <1>1, <1>2
<1> HIDE DEF O
<1>4. L \in Seq(O) /\ ToSet(L) = O
  BY <1>2, <1>3, OrderedSet DEF OrphanList, O
<1>5. \A i \in DOMAIN L : stops[i] = Message("stop", L[i], table[L[i]].tid, ids + i)
  BY DEF OrphanStops
<1>6. DOMAIN stops = DOMAIN L
  BY DEF OrphanStops
<1>7. stops = [i \in DOMAIN L |-> stops[i]]
  BY DEF OrphanStops
<1>8. \A s \in O : StopMidAfter(resuming, s) = NewMid(ids + CHOOSE i \in DOMAIN L : L[i] = s)
  BY DEF StopMidAfter, O
<1> HIDE DEF L, stops
<1>9. Len(L) \in Nat /\ DOMAIN L = 1..Len(L) /\ \A i \in DOMAIN L : L[i] \in O /\ i \in Nat
  BY <1>4
<1>10. ASSUME NEW i \in DOMAIN L
       PROVE  /\ stops[i] \in Messages
              /\ stops[i].type = "stop" /\ stops[i].s = L[i] /\ stops[i].n = ids + i
              /\ stops[i].tid = table[L[i]].tid
  <2>1. PICK s \in Nat, tid \in Tids, n \in Nat : s = L[i] /\ tid = table[L[i]].tid /\ n = ids + i
    <3>1. L[i] \in Nat /\ L[i] \in Sessions /\ ids + i \in Nat
      BY <1>1, <1>2, <1>3, <1>9 DEF O
    <3>2. table[L[i]].tid \in Tids
      BY <1>2, <3>1 DEF Rows
    <3>3. QED
      BY <3>1, <3>2
  <2>2. stops[i] = Message("stop", s, tid, n)
    BY <1>5, <2>1
  <2>3. QED
    BY <2>1, <2>2 DEF Message, Messages, Types
<1>11. stops \in Seq(Messages)
  BY <1>7, <1>9, <1>10
<1>12. ASSUME NEW s \in O
       PROVE  \E i \in DOMAIN L : L[i] = s /\ StopMidAfter(resuming, s) = NewMid(ids + i)
  <2>1. \E i \in DOMAIN L : L[i] = s
    BY <1>4 DEF ToSet
  <2>2. PICK j : j = CHOOSE i \in DOMAIN L : L[i] = s
    OBVIOUS
  <2>3. j \in DOMAIN L /\ L[j] = s
    BY <2>1, <2>2
  <2>4. QED
    BY <1>8, <2>2, <2>3
<1>13. QED
  BY <1>4, <1>6, <1>9, <1>10, <1>11, <1>12 DEF O, L, stops

\* The transactions that go on after a restart were those of their connectors before it.
LEMMA Resumed ==
    ASSUME IndInv, NEW resuming \in SUBSET Resumable, NEW s \in Owed, ~EndedAfter(resuming, s)
    PROVE  /\ table[s].connector \in Connectors
           /\ Leads(table[s].connector, s)
           /\ Latest(table[s].connector) = {s}
<1>1. s \in Resumable /\ s \in Sessions
  BY DEF EndedAfter, Orphans, Owed
<1>2. PICK c \in Connectors : Leads(c, s)
  <2>1. CASE s \in Range(active) \ {None}
    <3>1. PICK c \in Connectors : active[c] = s /\ s # None
      BY <2>1 DEF Range, IndInv, TypeOK
    <3>2. Leads(c, s)
      BY <3>1 DEF IndInv, OperationInv, OperationAt
    <3>3. QED
      BY <3>2
  <2>2. CASE \E c \in Connectors : pc[c].at = "starting" /\ pc[c].s = s
    <3>1. PICK c \in Connectors : pc[c].at = "starting" /\ pc[c].s = s
      BY <2>2
    <3>2. Leads(c, s)
      BY <3>1 DEF IndInv, OperationInv, OperationAt
    <3>3. QED
      BY <3>2
  <2>3. QED
    BY <1>1, <2>1, <2>2 DEF Resumable
<1>3. c = table[s].connector
  BY <1>2 DEF Leads
<1>4. ASSUME NEW r \in Latest(c) PROVE r = s
  <2>1. r \in Sessions /\ table[r].connector = c /\ s <= r
    BY <1>3, <1>4 DEF Latest, Owed
  <2>2. r <= s
    BY <1>2, <2>1 DEF Leads
  <2>3. r \in Nat /\ s \in Nat
    BY <1>1, <2>1, Basics DEF IndInv
  <2>4. QED
    BY <2>1, <2>2, <2>3
<1>5. s \in Latest(c)
  BY <1>2, <1>3 DEF Latest, Owed, Leads
<1>6. QED
  BY <1>2, <1>3, <1>4, <1>5

LEMMA RestartKeeps ==
    ASSUME IndInv, NEW resuming \in SUBSET Resumable, Restart(resuming)
    PROVE  IndInv'
<1>1. PICK L, stops, O, owed : /\ L = OrphanList(resuming) /\ stops = OrphanStops(resuming)
                               /\ O = Orphans(resuming) /\ owed = Owed
  OBVIOUS
<1>2. PICK ended, stopMid, latest : /\ ended = [s \in Sessions |-> EndedAfter(resuming, s)]
                                    /\ stopMid = [s \in Sessions |-> StopMidAfter(resuming, s)]
                                    /\ latest = [c \in Connectors |-> Latest(c)]
  OBVIOUS
<1>3. /\ owed \subseteq Sessions /\ O \subseteq owed
      /\ \A s \in Sessions : s \in owed <=> ~table[s].ack
      /\ \A c \in Connectors : latest[c] \subseteq owed
      /\ \A c \in Connectors : \A s \in latest[c] : table[s].connector = c
  BY <1>1, <1>2 DEF Owed, Orphans, Latest
<1>4. /\ restarts < MaxRestarts /\ restarts' = restarts + 1
      /\ rows' = rows \o stops
      /\ queue' = Reload \o stops
      /\ ids' = ids + Len(L)
      /\ inFlight' = None /\ stopIds' = NoEntry /\ meterIds' = NoEntry
      /\ pc' = [c \in Connectors |-> Idle] /\ rx' = None
      /\ UNCHANGED <<samples, faults, given, delivered, gaveUp>>
  BY <1>1 DEF Restart, history
<1>5. txn' = [s \in owed |-> Transaction(table[s].connector, table[s].tid, table[s].startMid,
                                         stopMid[s], s \notin O, ended[s])]
  BY <1>1, <1>2, <1>3 DEF Restart
<1>6. active' = [c \in Connectors |->
                    IF \E s \in latest[c] : ~ended[s] THEN CHOOSE s \in latest[c] : TRUE ELSE None]
  BY <1>1, <1>2, <1>3 DEF Restart
<1>7. stopped' = {s \in owed : ended[s]}
  BY <1>1, <1>2, <1>3 DEF Restart
<1>8. table' = [s \in Sessions |-> IF s \in O THEN [table[s] EXCEPT !.stopMid = stopMid[s]] ELSE table[s]]
  BY <1>1, <1>2, <1>3 DEF Restart
<1>9. /\ Len(L) \in Nat /\ DOMAIN L = 1..Len(L)
      /\ stops \in Seq(Messages) /\ DOMAIN stops = DOMAIN L
      /\ \A i \in DOMAIN L : /\ L[i] \in O
                             /\ stops[i].type = "stop" /\ stops[i].s = L[i] /\ stops[i].n = ids + i
                             /\ stops[i].tid = table[L[i]].tid
      /\ \A s \in O : \E i \in DOMAIN L : L[i] = s /\ stopMid[s] = NewMid(ids + i)
  BY <1>1, <1>2, <1>3, OrphanFacts
<1>10. /\ Sessions = 1..Len(table) /\ Len(table) \in Nat /\ ids \in Nat /\ None \notin Sessions
       /\ \A s \in Sessions : table[s] \in Rows
  BY Basics DEF IndInv, TypeOK
\* A session that is not ended leads its connector.
<1>11. ASSUME NEW s \in owed, ~ended[s]
       PROVE  /\ table[s].connector \in Connectors /\ Leads(table[s].connector, s)
              /\ latest[table[s].connector] = {s}
              /\ active'[table[s].connector] = s
  <2>1. /\ table[s].connector \in Connectors /\ Leads(table[s].connector, s)
        /\ Latest(table[s].connector) = {s}
    BY <1>1, <1>2, <1>3, <1>11, Resumed
  <2>2. latest[table[s].connector] = {s}
    BY <1>2, <2>1
  <2>3. (CHOOSE r \in {s} : TRUE) = s
    OBVIOUS
  <2>4. QED
    BY <1>6, <1>11, <2>1, <2>2, <2>3
\* One that is ended has a StopTransaction.req on disk.
<1>12. ASSUME NEW s \in Sessions, ended[s]
       PROVE  s \in O \/ \E m \in Range(rows) : m.type = "stop" /\ m.s = s
  <2>1. s \in O \/ StopQueued(s)
    BY <1>1, <1>2, <1>12 DEF EndedAfter
  <2>2. ASSUME StopQueued(s) PROVE \E m \in Range(rows) : m.type = "stop" /\ m.s = s
    <3>1. PICK m \in Range(rows) : m.type = "stop" /\ m.tid = table[s].tid
      BY <2>2 DEF StopQueued, Range
    <3>2. m.s = s
      BY <3>1 DEF IndInv, TidInv
    <3>3. QED
      BY <3>1, <3>2
  <2>3. QED
    BY <2>1, <2>2
<1>13. rows \in Seq(Messages) /\ StartFirst(rows)
  BY DEF IndInv, TypeOK, OrderInv
<1>14. PICK again : /\ again = Reload
                    /\ again \in Seq(Messages) /\ StartFirst(again)
                    /\ \A x \in Range(again) : \E y \in Range(rows) :
                          x.type = y.type /\ x.s = y.s /\ x.n = y.n /\ x.gen = y.gen /\ x.tid = y.tid
                    /\ \A y \in Range(rows) : \E x \in Range(again) : x.type = y.type /\ x.s = y.s
  BY <1>13, ReloadFacts
<1>15. /\ rows' \in Seq(Messages) /\ queue' \in Seq(Messages)
       /\ Range(rows)' = Range(rows) \cup Range(stops)
       /\ Range(queue)' = Range(again) \cup Range(stops)
       /\ StartFirst(rows)' /\ StartFirst(queue)'
  <2>1. \A i \in DOMAIN stops : stops[i].type # "start"
    BY <1>9
  <2>2. QED
    BY <1>4, <1>9, <1>13, <1>14, <2>1, ConcatFacts
<1>16. Held' = Range(queue)' /\ Unanswered' = Range(queue)'
  BY <1>4 DEF Held, Unanswered
<1>17. \A m \in Range(stops) : \E i \in DOMAIN L : m = stops[i]
  BY <1>9 DEF Range
<1>18. \A m \in Range(stops) : m.type = "stop" /\ m.s \in O
  BY <1>9, <1>17
<1>19. \A s \in O : stopMid[s] \in Mids
  <2>1. SUFFICES ASSUME NEW s \in O PROVE stopMid[s] \in Mids
    OBVIOUS
  <2>2. PICK i \in DOMAIN L : stopMid[s] = NewMid(ids + i)
    BY <1>9
  <2>3. ids + i \in Nat
    BY <1>9, <1>10
  <2>4. QED
    BY <2>2, <2>3 DEF NewMid, Mids
<1>20. \A s \in Sessions \ O : stopMid[s] = table[s].stopMid
  BY <1>1, <1>2 DEF StopMidAfter
<1>21. /\ table' \in Seq(Rows) /\ Len(table') = Len(table) /\ Sessions' = Sessions
       /\ \A r \in Sessions : /\ table'[r].connector = table[r].connector
                              /\ table'[r].ack = table[r].ack
                              /\ table'[r].startMid = table[r].startMid
                              /\ table'[r].tid = table[r].tid
                              /\ table'[r].stopMid = stopMid[r]
  <2>1. \A r \in Sessions : r \in O => [table[r] EXCEPT !.stopMid = stopMid[r]] \in Rows
    BY <1>10, <1>19 DEF Rows
  <2>2. \A r \in 1..Len(table) : table'[r] \in Rows
    BY <1>8, <1>10, <2>1
  <2>3. table' = [r \in 1..Len(table) |-> table'[r]]
    BY <1>8, <1>10
  <2>4. table' \in Seq(Rows) /\ Len(table') = Len(table)
    BY <1>10, <2>2, <2>3
  <2>5. Sessions' = Sessions
    BY <1>10, <2>4 DEF Sessions
  <2>6. ASSUME NEW r \in Sessions
        PROVE  /\ table'[r].connector = table[r].connector
               /\ table'[r].ack = table[r].ack
               /\ table'[r].startMid = table[r].startMid
               /\ table'[r].tid = table[r].tid
               /\ table'[r].stopMid = stopMid[r]
    <3>1. CASE r \in O
      <4>1. table'[r] = [table[r] EXCEPT !.stopMid = stopMid[r]] /\ table[r] \in Rows
        BY <1>8, <1>10, <3>1
      <4>2. QED
        BY <4>1 DEF Rows
    <3>2. CASE r \notin O
      BY <1>8, <1>20, <3>2
    <3>3. QED
      BY <3>1, <3>2
  <2>7. QED
    BY <2>4, <2>5, <2>6
<1>22. /\ DOMAIN txn' = owed
       /\ \A r \in owed : /\ txn'[r] \in Objects
                          /\ txn'[r].tid = table[r].tid
                          /\ txn'[r].startMid = table[r].startMid
                          /\ txn'[r].stopMid = stopMid[r]
  <2>1. ASSUME NEW r \in owed
        PROVE  /\ txn'[r] \in Objects
               /\ txn'[r].tid = table[r].tid
               /\ txn'[r].startMid = table[r].startMid
               /\ txn'[r].stopMid = stopMid[r]
    <3>1. ended[r] \in BOOLEAN
      BY <1>2, <1>3 DEF EndedAfter, StopQueued
    <3>2. PICK a \in BOOLEAN, e \in BOOLEAN : a = (r \notin O) /\ e = ended[r]
      BY <3>1
    <3>3. txn'[r] = Transaction(table[r].connector, table[r].tid, table[r].startMid, stopMid[r], a, e)
      BY <1>5, <3>2
    <3>4. /\ table[r].connector \in Connectors /\ table[r].tid \in Tids /\ table[r].startMid \in Mids
          /\ stopMid[r] \in Mids \cup {None}
      BY <1>3, <1>10, <1>19, <1>20 DEF Rows
    <3>5. QED
      BY <3>3, <3>4 DEF Transaction, Objects
  <2>2. DOMAIN txn' = owed
    BY <1>5
  <2>3. QED
    BY <2>1, <2>2
<1>23. ASSUME NEW c \in Connectors, active'[c] # None
       PROVE  active'[c] \in owed /\ Leads(c, active'[c])
  <2>1. PICK s \in latest[c] : ~ended[s]
    BY <1>6, <1>23
  <2>2. s \in owed /\ table[s].connector = c
    BY <1>3, <2>1
  <2>3. active'[c] = s /\ Leads(c, s)
    BY <1>11, <2>1, <2>2
  <2>4. QED
    BY <2>2, <2>3
<1>24. TypeOK'
  <2>1. active' \in [Connectors -> owed \cup {None}]
    <3>1. active' = [c \in Connectors |-> active'[c]]
      BY <1>6
    <3>2. QED
      BY <1>23, <3>1
  <2>2. pc' \in [Connectors -> [at : {"idle", "starting", "stopping"}, s : Sessions \cup {None},
                                mid : Mids \cup {None}]]
    BY <1>4 DEF Idle
  <2>3. restarts' \in 0..MaxRestarts
    BY <1>4, TransactionsAssumption DEF IndInv, TypeOK
  <2>4. ids' \in Nat
    BY <1>4, <1>9, <1>10
  <2>5. DOMAIN stopIds' = {} /\ DOMAIN meterIds' = {}
    BY <1>4 DEF NoEntry
  <2>6. stopped' \subseteq owed
    BY <1>7
  <2>7. QED
    BY <1>3, <1>4, <1>15, <1>21, <1>22, <2>1, <2>2, <2>3, <2>4, <2>5, <2>6 DEF IndInv, TypeOK
<1>25. RefInv'
  <2> DEFINE N == {Id(ids + i, L[i], "stop") : i \in DOMAIN L}
  <2>1. \A s \in O : Id(stopMid[s].n, s, "stop") \in N
    <3>1. SUFFICES ASSUME NEW s \in O PROVE Id(stopMid[s].n, s, "stop") \in N
      OBVIOUS
    <3>2. PICK i \in DOMAIN L : L[i] = s /\ stopMid[s] = NewMid(ids + i)
      BY <1>9
    <3>3. stopMid[s].n = ids + i
      BY <3>2 DEF NewMid
    <3>4. QED
      BY <3>2, <3>3
  <2>2. \A s \in Sessions : stopMid[s] # None => Id(stopMid[s].n, s, "stop") \in TableRefs \cup N
    <3>1. SUFFICES ASSUME NEW s \in Sessions, stopMid[s] # None
                   PROVE  Id(stopMid[s].n, s, "stop") \in TableRefs \cup N
      OBVIOUS
    <3>2. CASE s \in O
      BY <2>1, <3>2
    <3>3. CASE s \notin O
      BY <1>20, <3>1, <3>3 DEF TableRefs
    <3>4. QED
      BY <3>2, <3>3
  <2>3. \A x \in TableRefs' : x \in TableRefs \cup N
    <3>1. \A s \in Sessions : Id(table[s].startMid.n, s, "start") \in TableRefs
      BY DEF TableRefs
    <3> HIDE DEF N
    <3>2. ASSUME NEW x \in TableRefs' PROVE x \in TableRefs \cup N
      <4>1. CASE \E s \in Sessions : x = Id(table'[s].startMid.n, s, "start")
        BY <1>21, <3>1, <4>1
      <4>2. CASE \E s \in Sessions : table'[s].stopMid # None /\ x = Id(table'[s].stopMid.n, s, "stop")
        BY <1>21, <2>2, <4>2
      <4>3. QED
        BY <1>21, <3>2, <4>1, <4>2 DEF TableRefs
    <3>3. QED
      BY <3>2
  <2>4. \A x \in TxnRefs' : x \in TableRefs \cup N
    <3>1. \A s \in Sessions : Id(table[s].startMid.n, s, "start") \in TableRefs
      BY DEF TableRefs
    <3> HIDE DEF N
    <3>2. ASSUME NEW x \in TxnRefs' PROVE x \in TableRefs \cup N
      <4>1. CASE \E s \in owed : x = Id(txn'[s].startMid.n, s, "start")
        BY <1>3, <1>22, <3>1, <4>1
      <4>2. CASE \E s \in owed : txn'[s].stopMid # None /\ x = Id(txn'[s].stopMid.n, s, "stop")
        BY <1>3, <1>22, <2>2, <4>2
      <4>3. QED
        BY <1>22, <3>2, <4>1, <4>2 DEF TxnRefs
    <3>3. QED
      BY <3>2
  <2>5. OperationRefs' = {} /\ StopRefs' = {} /\ MeterRefs' = {}
    BY <1>4 DEF OperationRefs, StopRefs, MeterRefs, Idle, NoEntry, Range
  <2>6. \A m \in Range(stops) : IdOf(m) \in N
    BY <1>9, <1>17 DEF IdOf
  <2>7. \A x \in MessageRefs' : x \in MessageRefs \cup N
    <3> HIDE DEF N
    <3>1. \A m \in Range(again) : \E y \in Range(rows) : IdOf(m) = IdOf(y)
      BY <1>14 DEF IdOf
    <3>2. QED
      BY <1>15, <1>16, <2>6, <3>1 DEF MessageRefs
  <2>8. \A x \in N : x.n \in (ids + 1)..ids'
    BY <1>4, <1>9, <1>10 DEF Id
  <2>9. \A x, y \in N : x.n = y.n => x = y
    BY <1>9, <1>10 DEF Id
  <2> HIDE DEF N
  <2>10. \A x \in Refs' : x \in Refs \/ x \in N
    BY <2>3, <2>4, <2>5, <2>7 DEF Refs
  <2>11. ids' \in Nat /\ ids <= ids'
    BY <1>4, <1>9, <1>10
  <2>12. QED
    BY <1>10, <2>8, <2>9, <2>10, <2>11, RefsGrow DEF IndInv
<1>26. TidInv'
  <2>1. \A x \in Range(rows) \cup Range(again) :
           x.s \in Sessions /\ (x.type = "stop" => x.tid # None /\ x.tid.s = x.s)
    BY <1>14 DEF IndInv, TidInv
  <2>2. \A x \in Range(stops) : x.s \in Sessions /\ x.tid # None /\ x.tid.s = x.s
    <3>1. SUFFICES ASSUME NEW x \in Range(stops) PROVE x.s \in Sessions /\ x.tid # None /\ x.tid.s = x.s
      OBVIOUS
    <3>2. x.s \in Sessions /\ x.tid = table[x.s].tid
      BY <1>3, <1>9, <1>17
    <3>3. x.tid \in Tids /\ x.tid.s = x.s
      BY <1>10, <3>2 DEF Rows, IndInv, TidInv
    <3>4. QED
      BY <3>2, <3>3, NoneAssumption
  <2>3. \A r \in owed : txn'[r].tid.s = r
    BY <1>3, <1>22 DEF IndInv, TidInv
  <2>4. \A x \in (Range(rows) \cup Held)' :
           x.s \in Sessions /\ (x.type = "stop" => x.tid # None /\ x.tid.s = x.s)
    BY <1>15, <1>16, <2>1, <2>2
  <2>5. \A r \in Sessions : table'[r].tid.s = r /\ table'[r].startMid.gen = 0
    BY <1>21 DEF IndInv, TidInv
  <2>6. \A r \in DOMAIN given' : given'[r] # None => given'[r].s = r
    BY <1>4 DEF IndInv, TidInv
  <2>7. {inFlight', rx'} \ {None} = {}
    BY <1>4
  <2>8. QED
    BY <1>21, <1>22, <2>3, <2>4, <2>5, <2>6, <2>7 DEF TidInv
<1>27. OrderInv'
  BY <1>4, <1>15 DEF OrderInv
\* What is to be started after the restart is in a row, and not acknowledged.
<1>28. ASSUME NEW x \in Held', x.type = "start"
       PROVE  /\ x.s \in owed /\ x.s \notin delivered /\ Mid(x) = table[x.s].startMid
  <2>1. PICK y \in Range(rows) : x.type = y.type /\ x.s = y.s /\ x.n = y.n /\ x.gen = y.gen
    BY <1>14, <1>15, <1>16, <1>18, <1>28
  <2>2. Mid(y) = table[y.s].startMid /\ StartIn(Unanswered, y.s) /\ y.s \in Sessions
    BY <1>28, <2>1 DEF IndInv, StartInv, TidInv
  <2>3. y.s \notin delivered
    BY <2>2 DEF StartIn, IndInv, DeliveredInv, Unanswered, Held
  <2>4. ~table[y.s].ack
    BY <2>2, <2>3 DEF IndInv, AckMeansStopped
  <2>5. QED
    BY <1>3, <2>1, <2>2, <2>3, <2>4 DEF Mid
<1>29. DeliveredInv'
  BY <1>4, <1>21, <1>28 DEF IndInv, DeliveredInv
<1>30. StartInv'
  <2>1. ASSUME NEW x \in Range(rows)', x.type = "start"
        PROVE  Mid(x) = table'[x.s].startMid /\ StartIn(Unanswered', x.s)
    <3>1. x \in Range(rows) /\ x.s \in Sessions
      BY <1>15, <1>18, <2>1 DEF IndInv, TidInv
    <3>2. StartIn(Unanswered', x.s)
      BY <1>14, <1>15, <1>16, <2>1, <3>1 DEF StartIn
    <3>3. QED
      BY <1>21, <2>1, <3>1, <3>2 DEF IndInv, StartInv
  <2>2. ASSUME NEW x \in Held', x.type = "start"
        PROVE  x.n = table'[x.s].startMid.n /\ x.s \in Known' /\ txn'[x.s].startMid = Mid(x)
    <3>1. x.s \in owed /\ x.s \in Sessions /\ Mid(x) = table[x.s].startMid /\ Mid(x).n = x.n
      BY <1>3, <1>28, <2>2 DEF Mid
    <3>2. x.s \in Known'
      <4>1. CASE ended[x.s]
        BY <1>7, <3>1, <4>1 DEF Known
      <4>2. CASE ~ended[x.s]
        <5>1. table[x.s].connector \in Connectors /\ active'[table[x.s].connector] = x.s
          BY <1>11, <3>1, <4>2
        <5>2. x.s \in Range(active)'
          BY <1>6, <5>1 DEF Range
        <5>3. x.s # None
          BY <1>10, <3>1
        <5>4. QED
          BY <5>2, <5>3 DEF Known
      <4>3. QED
        BY <4>1, <4>2
    <3>3. QED
      BY <1>21, <1>22, <3>1, <3>2
  <2>3. QED
    BY <2>1, <2>2 DEF StartInv
<1>31. OperationInv'
  <2>1. SUFFICES ASSUME NEW c \in Connectors PROVE OperationAt(c)'
    BY DEF OperationInv
  <2>2. pc'[c] = Idle
    BY <1>4
  <2>3. PICK s : s = active'[c]
    OBVIOUS
  <2>4. s # None => Leads(c, s)'
    BY <1>21, <1>23, <2>3 DEF Leads
  <2>5. QED
    BY <2>2, <2>3, <2>4 DEF OperationAt, Idle
<1>32. NoTransactionForgotten'
  <2>1. SUFFICES ASSUME NEW s \in Sessions
                 PROVE  table[s].ack \/ s \in Range(active)' \/ StopPending(s)'
    BY <1>21 DEF NoTransactionForgotten
  <2>2. CASE s \notin owed
    BY <1>3, <2>2
  <2>3. CASE s \in owed /\ ~ended[s]
    <3>1. table[s].connector \in Connectors /\ active'[table[s].connector] = s
      BY <1>11, <2>3
    <3>2. QED
      BY <1>6, <3>1 DEF Range
  <2>4. CASE ended[s]
    <3>1. \E m \in Range(rows)' : m.type = "stop" /\ m.s = s
      <4>1. CASE s \in O
        <5>1. PICK i \in DOMAIN L : L[i] = s
          BY <1>9, <4>1
        <5>2. stops[i] \in Range(stops) /\ stops[i].type = "stop" /\ stops[i].s = s
          BY <1>9, <5>1 DEF Range
        <5>3. QED
          BY <1>15, <5>2
      <4>2. CASE \E m \in Range(rows) : m.type = "stop" /\ m.s = s
        BY <1>15, <4>2
      <4>3. QED
        BY <1>12, <2>4, <4>1, <4>2
    <3>2. StopPending(s)'
      BY <3>1 DEF StopPending, Range
    <3>3. QED
      BY <3>2
  <2>5. QED
    BY <2>2, <2>3, <2>4
<1>33. AckMeansStopped'
  BY <1>4, <1>21 DEF IndInv, AckMeansStopped
<1>34. QED
  BY <1>24, <1>25, <1>26, <1>27, <1>29, <1>30, <1>31, <1>32, <1>33 DEF IndInv

-----------------------------------------------------------------------------
(* The theorems                                                            *)

LEMMA InitHolds == Init => IndInv
<1>1. SUFFICES ASSUME Init PROVE IndInv
  OBVIOUS
<1>2. /\ table = << >> /\ rows = << >> /\ queue = << >> /\ inFlight = None /\ rx = None
      /\ txn = NoEntry /\ stopIds = NoEntry /\ meterIds = NoEntry
      /\ active = [c \in Connectors |-> None] /\ stopped = {} /\ pc = [c \in Connectors |-> Idle]
      /\ ids = 0 /\ samples = 0 /\ faults = 0 /\ restarts = 0
      /\ given = [s \in 1..MaxSessions |-> None] /\ delivered = {} /\ gaveUp = {}
  BY <1>1 DEF Init
<1>3. /\ Sessions = {} /\ DOMAIN txn = {} /\ DOMAIN stopIds = {} /\ DOMAIN meterIds = {}
      /\ DOMAIN rows = {} /\ DOMAIN queue = {}
  BY <1>2 DEF Sessions, NoEntry
<1>4. Range(rows) = {} /\ Range(queue) = {} /\ Held = {} /\ Unanswered = {}
  BY <1>2, <1>3 DEF Range, Held, Unanswered
<1>5. TypeOK
  <2>1. table \in Seq(Rows) /\ rows \in Seq(Messages) /\ queue \in Seq(Messages) /\ Len(table) = 0
    BY <1>2
  <2>2. pc \in [Connectors -> [at : {"idle", "starting", "stopping"}, s : Sessions \cup {None},
                               mid : Mids \cup {None}]]
    BY <1>2 DEF Idle
  <2>3. QED
    BY <1>2, <1>3, <2>1, <2>2, TransactionsAssumption DEF TypeOK
<1>6. RefInv
  <2>1. MessageRefs = {} /\ TableRefs = {} /\ TxnRefs = {}
    BY <1>3, <1>4 DEF MessageRefs, TableRefs, TxnRefs
  <2>2. OperationRefs = {} /\ StopRefs = {} /\ MeterRefs = {}
    BY <1>2, <1>3 DEF OperationRefs, StopRefs, MeterRefs, Idle, Range
  <2>3. QED
    BY <2>1, <2>2 DEF RefInv, Refs
<1>7. TidInv
  BY <1>2, <1>3, <1>4 DEF TidInv
<1>8. OrderInv /\ DeliveredInv /\ StartInv
  BY <1>2, <1>3, <1>4 DEF OrderInv, DeliveredInv, StartInv, StartFirst
<1>9. OperationInv
  BY <1>2 DEF OperationInv, OperationAt, Idle
<1>10. AckMeansStopped /\ NoTransactionForgotten
  BY <1>3 DEF AckMeansStopped, NoTransactionForgotten
<1>11. QED
  BY <1>5, <1>6, <1>7, <1>8, <1>9, <1>10 DEF IndInv

LEMMA StutterKeeps ==
    ASSUME IndInv, UNCHANGED vars
    PROVE  IndInv'
<1>1. UNCHANGED <<table, rows, txn, active, stopped, queue, inFlight, stopIds, meterIds, pc, rx, ids, samples,
                  faults, restarts, given, delivered, gaveUp>>
  BY DEF vars, persistent, memory, messages, bounds, history
<1>2. TypeOK'
  BY <1>1 DEF IndInv, TypeOK, Sessions
<1>3. RefInv'
  BY <1>1 DEF IndInv, RefInv, Refs, MessageRefs, TableRefs, TxnRefs, OperationRefs, StopRefs, MeterRefs,
              Held, Sessions
<1>4. TidInv' /\ OrderInv' /\ DeliveredInv' /\ StartInv'
  BY <1>1 DEF IndInv, TidInv, OrderInv, DeliveredInv, StartInv, Held, Unanswered, Sessions, Known
<1>5. \A r : Over(r)' <=> Over(r)
  BY <1>1 DEF Over, StopPending
<1>6. OperationInv'
  <2>1. Sessions' = Sessions /\ (Range(rows) \cup Held)' = Range(rows) \cup Held
    BY <1>1 DEF Sessions, Held
  <2>2. QED
    BY <1>1, <1>5, <2>1, OperationFrame DEF IndInv
<1>7. AckMeansStopped' /\ NoTransactionForgotten'
  BY <1>1, <1>5, ForgottenFrame DEF IndInv, AckMeansStopped, Sessions
<1>8. QED
  BY <1>2, <1>3, <1>4, <1>6, <1>7 DEF IndInv

LEMMA Invariance == Spec => []IndInv
<1>1. ASSUME IndInv, [Next]_vars PROVE IndInv'
  <2>1. ASSUME NEW c \in Connectors,
               InsertTransaction(c) \/ StartTransaction(c) \/ PushStop(c) \/ FinishStop(c) \/ SendMeterValue(c)
        PROVE  IndInv'
    BY <1>1, <2>1, InsertTransactionKeeps, StartTransactionKeeps, PushStopKeeps, FinishStopKeeps,
       SendMeterValueKeeps
  <2>2. CASE QueueNext
    <3>1. CASE Send
      BY <1>1, <3>1, SendKeeps
    <3>2. CASE SendFails
      BY <1>1, <3>2, SendFailsKeeps
    <3>3. CASE ReceiveResult
      BY <1>1, <3>3, ReceiveResultKeeps
    <3>4. CASE TimeoutOrCallError
      BY <1>1, <3>4, RetryKeeps, GiveUpKeeps
    <3>5. QED
      BY <2>2, <3>1, <3>2, <3>3, <3>4 DEF QueueNext
  <2>3. CASE HandlerNext
    BY <1>1, <2>3, HandleStartResponseKeeps, HandleStopResponseKeeps, HandleMeterResponseKeeps DEF HandlerNext
  <2>4. ASSUME NEW resuming \in SUBSET Resumable, Restart(resuming) PROVE IndInv'
    BY <1>1, <2>4, RestartKeeps
  <2>5. CASE UNCHANGED vars
    BY <1>1, <2>5, StutterKeeps
  <2>6. QED
    BY <1>1, <2>1, <2>2, <2>3, <2>4, <2>5 DEF Next, ApplicationNext
<1>2. QED
  BY <1>1, InitHolds, PTL DEF Spec

\* The variables of ChargePointImpl, TransactionHandler, the queue and the database keep their types,
\* whatever answers, timeouts and crashes come between the steps of an operation.
THEOREM TypeCorrect == Spec => []TypeOK
<1>1. IndInv => TypeOK
  BY DEF IndInv
<1>2. QED
  BY <1>1, Invariance, PTL

\* The answer to a StartTransaction.req finds exactly the transaction it belongs to
\* (handleStartTransactionResponse, get_transaction), across retries under new ids and restarts.
THEOREM StartIsFound == Spec => []StartFindsItsTransaction
<1>1. ASSUME IndInv PROVE StartFindsItsTransaction
  <2>1. SUFFICES ASSUME NEW m \in Held, m.type = "start" PROVE TransactionOf(Mid(m)) = {m.s}
    BY DEF StartFindsItsTransaction, StartsPending, Held
  <2>2. QED
    BY <1>1, <2>1, StartFound
<1>2. QED
  BY <1>1, Invariance, PTL

\* update_transaction_csms_ack sets the flag of a row only when the CSMS has answered a
\* StopTransaction.req of that very transaction.
THEOREM AckIsEarned == Spec => []AckMeansStopped
<1>1. IndInv => AckMeansStopped
  BY DEF IndInv
<1>2. QED
  BY <1>1, Invariance, PTL

\* Wherever the process dies between the row, the pushes and the answers, try_resume_transactions
\* leaves no transaction that is over without a StopTransaction.req on disk.
THEOREM NothingForgotten == Spec => []NoTransactionForgotten
<1>1. IndInv => NoTransactionForgotten
  BY DEF IndInv
<1>2. QED
  BY <1>1, Invariance, PTL

=============================================================================
