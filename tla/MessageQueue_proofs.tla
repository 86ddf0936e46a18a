------------------------ MODULE MessageQueue_proofs ------------------------
(***************************************************************************)
(* Proofs about MessageQueue, for every number of messages, every set of   *)
(* kinds and every configuration of the queue.                             *)
(***************************************************************************)
EXTENDS MessageQueue, SequenceTheorems, FiniteSetTheorems,
        WellFoundedInduction, NaturalsInduction, TLAPS

-----------------------------------------------------------------------------
(* Sequences and the set of their elements.                                *)

\* push_back adds its argument to the elements of a queue.
LEMMA ToSetAppend ==
    ASSUME NEW S, NEW s \in Seq(S), NEW e \in S
    PROVE  /\ Append(s, e) \in Seq(S)
           /\ ToSet(Append(s, e)) = ToSet(s) \cup {e}
<1>1. /\ Append(s, e) \in Seq(S)
      /\ Len(Append(s, e)) = Len(s) + 1
      /\ \A i \in 1..Len(s) : Append(s, e)[i] = s[i]
      /\ Append(s, e)[Len(s) + 1] = e
  BY AppendProperties
<1>2. /\ DOMAIN s = 1..Len(s) /\ Len(s) \in Nat
      /\ DOMAIN Append(s, e) = 1..(Len(s) + 1)
  BY <1>1, LenProperties
<1> QED  BY <1>1, <1>2 DEF ToSet

\* push_front adds its argument to the elements of a queue.
LEMMA ToSetCons ==
    ASSUME NEW S, NEW s \in Seq(S), NEW e \in S
    PROVE  /\ Cons(e, s) \in Seq(S)
           /\ ToSet(Cons(e, s)) = ToSet(s) \cup {e}
           /\ Len(Cons(e, s)) = Len(s) + 1
           /\ Cons(e, s)[1] = e
           /\ \A i \in 1..Len(s) : Cons(e, s)[i + 1] = s[i]
<1>1. /\ <<e>> \in Seq(S) /\ Len(<<e>>) = 1 /\ <<e>>[1] = e
      /\ Len(s) \in Nat /\ DOMAIN s = 1..Len(s)
  BY LenProperties
<1>2. /\ Cons(e, s) \in Seq(S)
      /\ Len(Cons(e, s)) = 1 + Len(s)
      /\ \A i \in 1..1 + Len(s) :
            Cons(e, s)[i] = IF i <= 1 THEN <<e>>[i] ELSE s[i - 1]
  BY <1>1, ConcatProperties DEF Cons
<1>3. DOMAIN Cons(e, s) = 1..1 + Len(s)
  BY <1>2, LenProperties
<1>4. \A i \in 1..Len(s) : Cons(e, s)[i + 1] = s[i]
  BY <1>1, <1>2
<1>5. Cons(e, s)[1] = e
  BY <1>1, <1>2
<1>6. ToSet(Cons(e, s)) \subseteq ToSet(s) \cup {e}
  <2>1. SUFFICES ASSUME NEW i \in 1..1 + Len(s), i # 1
                 PROVE  Cons(e, s)[i] \in ToSet(s)
    BY <1>3, <1>5 DEF ToSet
  <2>2. i - 1 \in 1..Len(s) /\ Cons(e, s)[i] = s[i - 1]
    BY <1>1, <1>2, <2>1
  <2> QED  BY <1>1, <2>2 DEF ToSet
<1>7. ToSet(s) \cup {e} \subseteq ToSet(Cons(e, s))
  <2>1. ASSUME NEW i \in 1..Len(s)
        PROVE  s[i] \in ToSet(Cons(e, s))
    <3>1. i + 1 \in 1..1 + Len(s) /\ Cons(e, s)[i + 1] = s[i]
      BY <1>1, <1>4
    <3> QED  BY <1>3, <3>1 DEF ToSet
  <2>2. e \in ToSet(Cons(e, s))
    BY <1>1, <1>3, <1>5 DEF ToSet
  <2> QED  BY <1>1, <2>1, <2>2 DEF ToSet
<1> QED  BY <1>1, <1>2, <1>4, <1>5, <1>6, <1>7

\* pop_front removes the first element.
LEMMA ToSetTail ==
    ASSUME NEW S, NEW s \in Seq(S), s # <<>>
    PROVE  /\ Tail(s) \in Seq(S)
           /\ Head(s) \in S
           /\ ToSet(s) = ToSet(Tail(s)) \cup {Head(s)}
           /\ Len(s) \in Nat /\ Len(s) > 0 /\ s[1] = Head(s)
           /\ Len(Tail(s)) = Len(s) - 1
           /\ \A i \in 1..Len(Tail(s)) : Tail(s)[i] = s[i + 1]
<1>1. /\ Tail(s) \in Seq(S) /\ Head(s) \in S
      /\ Len(Tail(s)) = Len(s) - 1
      /\ \A i \in 1..Len(Tail(s)) : Tail(s)[i] = s[i + 1]
  BY HeadTailProperties
<1>2. /\ DOMAIN s = 1..Len(s) /\ Len(s) \in Nat /\ Len(s) # 0
      /\ DOMAIN Tail(s) = 1..Len(s) - 1
  BY <1>1, LenProperties, EmptySeq
<1>3. s[1] = Head(s)
  BY <1>2
<1>4. ASSUME NEW i \in 1..Len(s), i # 1
      PROVE  s[i] \in ToSet(Tail(s))
  <2>1. i - 1 \in 1..Len(Tail(s)) /\ Tail(s)[i - 1] = s[i]
    BY <1>1, <1>2, <1>4
  <2> QED  BY <1>1, <1>2, <2>1 DEF ToSet
<1>5. ASSUME NEW i \in 1..Len(s) - 1
      PROVE  Tail(s)[i] \in ToSet(s)
  BY <1>1, <1>2, <1>5 DEF ToSet
<1>6. Head(s) \in ToSet(s)
  BY <1>2, <1>3 DEF ToSet
<1>7. ToSet(s) \subseteq ToSet(Tail(s)) \cup {Head(s)}
  BY <1>2, <1>3, <1>4 DEF ToSet
<1>8. ToSet(Tail(s)) \subseteq ToSet(s)
  BY <1>2, <1>5 DEF ToSet
<1> QED  BY <1>1, <1>2, <1>3, <1>6, <1>7, <1>8

\* What is left of a queue whose front has been cut off was there before.
LEMMA ToSetSuffix ==
    ASSUME NEW S, NEW s \in Seq(S), NEW k \in Nat
    PROVE  /\ SubSeq(s, k + 1, Len(s)) \in Seq(S)
           /\ ToSet(SubSeq(s, k + 1, Len(s))) \subseteq ToSet(s)
<1>1. Len(s) \in Nat /\ DOMAIN s = 1..Len(s) /\ \A i \in 1..Len(s) : s[i] \in S
  BY LenProperties, ElementOfSeq
<1> DEFINE t == SubSeq(s, k + 1, Len(s))
<1>2. /\ t \in Seq(S)
      /\ Len(t) = IF k + 1 <= Len(s) THEN Len(s) - (k + 1) + 1 ELSE 0
      /\ \A i \in 1..Len(s) - (k + 1) + 1 : t[i] = s[k + 1 + i - 1]
  <2>1. \A i \in k + 1..Len(s) : s[i] \in S
    BY <1>1
  <2> QED  BY <1>1, <2>1, SubSeqProperties
<1>3. DOMAIN t = 1..Len(t)
  BY <1>2, LenProperties
<1> HIDE DEF t
<1>4. ASSUME NEW i \in 1..Len(t)
      PROVE  t[i] \in ToSet(s)
  <2>1. k + 1 <= Len(s) /\ i \in 1..Len(s) - (k + 1) + 1
    <3>1. CASE k + 1 <= Len(s)  BY <1>2, <1>4, <3>1
    <3>2. CASE ~(k + 1 <= Len(s))
      <4>1. Len(t) = 0  BY <1>2, <3>2
      <4> QED  BY <1>4, <4>1
    <3> QED  BY <3>1, <3>2
  <2>2. t[i] = s[k + i] /\ k + i \in DOMAIN s
    BY <1>1, <1>2, <2>1
  <2> QED  BY <2>2 DEF ToSet
<1>5. ToSet(t) \subseteq ToSet(s)
  BY <1>3, <1>4 DEF ToSet
<1> QED  BY <1>2, <1>5 DEF t

\* erase(it) removes one element, and only elements equal to it can be missing.
LEMMA ToSetRemoveAt ==
    ASSUME NEW S, NEW s \in Seq(S), NEW k \in DOMAIN s
    PROVE  /\ RemoveAt(s, k) \in Seq(S)
           /\ ToSet(RemoveAt(s, k)) \cup {s[k]} = ToSet(s)
           /\ Len(RemoveAt(s, k)) = Len(s) - 1
           /\ \A i \in 1..Len(s) - 1 :
                 RemoveAt(s, k)[i] = IF i <= k - 1 THEN s[i] ELSE s[i + 1]
<1>1. Len(s) \in Nat /\ DOMAIN s = 1..Len(s) /\ \A i \in 1..Len(s) : s[i] \in S
  BY LenProperties, ElementOfSeq
<1> DEFINE a == SubSeq(s, 1, k - 1)
           b == SubSeq(s, k + 1, Len(s))
           r == RemoveAt(s, k)
<1>2. k \in Nat /\ k >= 1 /\ k <= Len(s)
  BY <1>1
<1>3. /\ a \in Seq(S) /\ Len(a) = k - 1
      /\ \A i \in 1..k - 1 : a[i] = s[i]
  <2>1. \A i \in 1..k - 1 : s[i] \in S
    BY <1>1, <1>2
  <2>2. /\ a \in Seq(S)
        /\ Len(a) = IF 1 <= k - 1 THEN k - 1 - 1 + 1 ELSE 0
        /\ \A i \in 1..k - 1 - 1 + 1 : a[i] = s[1 + i - 1]
    BY <1>2, <2>1, SubSeqProperties
  <2> QED  BY <1>2, <2>2
<1>4. /\ b \in Seq(S) /\ Len(b) = Len(s) - k
      /\ \A i \in 1..Len(s) - k : b[i] = s[k + i]
  <2>1. \A i \in k + 1..Len(s) : s[i] \in S
    BY <1>1, <1>2
  <2>2. /\ b \in Seq(S)
        /\ Len(b) = IF k + 1 <= Len(s) THEN Len(s) - (k + 1) + 1 ELSE 0
        /\ \A i \in 1..Len(s) - (k + 1) + 1 : b[i] = s[k + 1 + i - 1]
    BY <1>1, <1>2, <2>1, SubSeqProperties
  <2> QED  BY <1>1, <1>2, <2>2, SMTT(30)
<1>5. r = a \o b
  BY DEF RemoveAt
<1> HIDE DEF a, b, r
<1>6. /\ r \in Seq(S) /\ Len(r) = Len(s) - 1
      /\ \A i \in 1..Len(s) - 1 : r[i] = IF i <= k - 1 THEN s[i] ELSE s[i + 1]
  <2>1. /\ r \in Seq(S) /\ Len(r) = Len(a) + Len(b)
        /\ \A i \in 1..Len(a) + Len(b) :
              r[i] = IF i <= Len(a) THEN a[i] ELSE b[i - Len(a)]
    BY <1>3, <1>4, <1>5, ConcatProperties
  <2>2. Len(a) + Len(b) = Len(s) - 1
    BY <1>1, <1>2, <1>3, <1>4
  <2>3. ASSUME NEW i \in 1..Len(s) - 1
        PROVE  r[i] = IF i <= k - 1 THEN s[i] ELSE s[i + 1]
    <3>1. CASE i <= k - 1
      BY <1>1, <1>2, <1>3, <2>1, <2>2, <2>3, <3>1
    <3>2. CASE ~(i <= k - 1)
      <4>1. i - (k - 1) \in 1..Len(s) - k /\ k + (i - (k - 1)) = i + 1
        BY <1>1, <1>2, <2>3, <3>2
      <4>2. r[i] = b[i - (k - 1)]
        BY <1>3, <2>1, <2>2, <2>3, <3>2
      <4> QED  BY <1>4, <3>2, <4>1, <4>2
    <3> QED  BY <3>1, <3>2
  <2> QED  BY <2>1, <2>2, <2>3
<1>7. DOMAIN r = 1..Len(s) - 1
  BY <1>6, LenProperties
<1>8. ToSet(r) \subseteq ToSet(s)
  <2>1. ASSUME NEW i \in 1..Len(s) - 1
        PROVE  \E j \in 1..Len(s) : r[i] = s[j]
    <3>1. i \in 1..Len(s) /\ i + 1 \in 1..Len(s)
      BY <1>1, <2>1
    <3> QED  BY <1>6, <2>1, <3>1
  <2> QED  BY <1>1, <1>7, <2>1 DEF ToSet
<1>9. ASSUME NEW i \in 1..Len(s), i # k
      PROVE  s[i] \in ToSet(r)
  <2>1. CASE i < k
    <3>1. i \in 1..Len(s) - 1 /\ r[i] = s[i]
      BY <1>1, <1>2, <1>6, <1>9, <2>1
    <3> QED  BY <1>7, <3>1 DEF ToSet
  <2>2. CASE i > k
    <3>1. i - 1 \in 1..Len(s) - 1 /\ r[i - 1] = s[i]
      BY <1>1, <1>2, <1>6, <1>9, <2>2
    <3> QED  BY <1>7, <3>1 DEF ToSet
  <2> QED  BY <1>1, <1>2, <1>9, <2>1, <2>2
<1>10. s[k] \in ToSet(s)
  BY DEF ToSet
<1>11. ToSet(s) \subseteq ToSet(r) \cup {s[k]}
  BY <1>1, <1>9 DEF ToSet
<1> QED  BY <1>6, <1>8, <1>10, <1>11 DEF r

\* A queue that is read back or filtered holds the given messages in push order.
LEMMA PushOrder ==
    ASSUME NEW n \in Nat, NEW S \in SUBSET (1..n), NEW s \in InPushOrder(S)
    PROVE  /\ s \in Seq(S)
           /\ ToSet(s) = S
           /\ \A i, j \in DOMAIN s : i < j => s[i] < s[j]
<1>1. IsFiniteSet(S)
  <2>1. S \in SUBSET Nat /\ \A x \in S : x <= n
    OBVIOUS
  <2> QED  BY <2>1, FS_BoundedSetOfNaturals
<1>2. Cardinality(S) \in Nat
  BY <1>1, FS_CardinalityType
<1>3. s \in [1..Cardinality(S) -> S]
  BY DEF InPushOrder
<1> QED  BY <1>2, <1>3, SeqDef DEF InPushOrder

\* Induction up to a bound, in the form in which the rounds below use it.
LEMMA BoundedInduction ==
    ASSUME NEW n \in Nat, NEW T, 0 \in T,
           \A k \in 0..n : k > 0 /\ k - 1 \in T => k \in T
    PROVE  0..n \subseteq T
<1> DEFINE F == (0..n) \ T
           R == {ss \in Nat \X Nat : ss[1] < ss[2]}
<1>1. SUFFICES ASSUME F # {} PROVE FALSE
  OBVIOUS
<1>2. IsWellFoundedOn(R, Nat)
  BY NatLessThanWellFounded, Zenon DEF OpToRel
<1>3. PICK x \in F : \A y \in F : ~(<<y, x>> \in R)
  <2>1. F \subseteq Nat
    OBVIOUS
  <2> HIDE DEF F, R
  <2> QED  BY <1>1, <1>2, <2>1, WFMin
<1>4. x \in 0..n /\ x # 0 /\ x \notin T
  OBVIOUS
<1>5. x - 1 \in F
  BY <1>4
<1>6. <<x - 1, x>> \in R
  BY <1>4
<1> QED  BY <1>3, <1>5, <1>6

\* A function can be applied n times, and the results form a function.
LEMMA Iterates ==
    ASSUME NEW V, NEW v \in V, NEW step \in [V -> V], NEW n \in Nat
    PROVE  \E g \in [0..n -> V] :
              g = [k \in 0..n |-> IF k = 0 THEN v ELSE step[g[k - 1]]]
<1> DEFINE Upto(k, g) == \A i \in 0..k : g[i] = IF i = 0 THEN v ELSE step[g[i - 1]]
           T == {k \in 0..n : \E g \in [0..k -> V] : Upto(k, g)}
<1>1. 0 \in T
  <2> DEFINE g == [i \in 0..0 |-> v]
  <2>1. 0 \in 0..n /\ g \in [0..0 -> V] /\ Upto(0, g)
    OBVIOUS
  <2> HIDE DEF g, Upto
  <2> QED  BY <2>1
<1>2. ASSUME NEW k \in 0..n, k > 0, k - 1 \in T PROVE k \in T
  <2>1. PICK g \in [0..k - 1 -> V] : Upto(k - 1, g)
    BY <1>2
  <2> DEFINE h == [i \in 0..k |-> IF i = k THEN step[g[k - 1]] ELSE g[i]]
  <2>2. h \in [0..k -> V]
    BY <1>2, <2>1
  <2>3. Upto(k, h)
    <3>1. ASSUME NEW i \in 0..k PROVE h[i] = IF i = 0 THEN v ELSE step[h[i - 1]]
      <4>1. CASE i = k
        BY <1>2, <4>1
      <4>2. CASE i # k
        <5>1. i \in 0..k - 1
          BY <4>2
        <5>2. i # 0 => i - 1 \in 0..k - 1
          BY <5>1
        <5> QED  BY <2>1, <4>2, <5>1, <5>2
      <4> QED  BY <4>1, <4>2
    <3> QED  BY <3>1
  <2> QED  BY <2>2, <2>3
<1>3. n \in T
  <2> HIDE DEF T
  <2>1. 0..n \subseteq T
    BY <1>1, <1>2, BoundedInduction
  <2> QED  BY <2>1
<1>4. PICK g \in [0..n -> V] : Upto(n, g)
  BY <1>3
<1>5. g = [k \in 0..n |-> IF k = 0 THEN v ELSE step[g[k - 1]]]
  BY <1>4
<1> QED  BY <1>5

\* Only update messages are dropped, and never the last message.
LEMMA DroppedUpdates ==
    ASSUME NEW n \in Nat, NEW S \in SUBSET (1..n), NEW m \in UpdatesToDrop(S)
    PROVE  m \in S /\ Kind(m) \in UpdateKinds /\ \E x \in S : x > m
<1>1. m \in S /\ Cardinality(Later(S, m)) > 1 /\ Cardinality(UpdateRun(S, m)) % 2 = 1
  BY DEF UpdatesToDrop
<1>2. Cardinality({}) = 0
  BY FS_EmptySet
<1>3. PICK x \in S : x > m
  <2>1. Later(S, m) # {}
    BY <1>1, <1>2, SMTT(30)
  <2> QED  BY <2>1 DEF Later
<1>4. PICK y \in S : y <= m /\ \A z \in y..m : z \in S => Kind(z) \in UpdateKinds
  <2>1. UpdateRun(S, m) # {}
    BY <1>1, <1>2
  <2> QED  BY <2>1 DEF UpdateRun
<1>5. m \in y..m
  BY <1>1, <1>4
<1> QED  BY <1>1, <1>3, <1>4, <1>5

\* The rounds of check_queue_sizes drop update messages of the transaction queue
\* only, and never the last message.
LEMMA KeptUpdates ==
    ASSUME NEW n \in Nat, NEW S \in SUBSET (1..n), NEW room
    PROVE  /\ UpdatesKept(S, room) \subseteq S
           /\ \A m \in S \ UpdatesKept(S, room) :
                 Kind(m) \in UpdateKinds /\ \E x \in S : x > m
<1> DEFINE N == Cardinality(S)
           Round(X) == IF Cardinality(X) > room THEN X \ UpdatesToDrop(X) ELSE X
           step == [X \in SUBSET S |-> Round(X)]
           P(g) == g = [k \in 0..N |-> IF k = 0 THEN S
                            ELSE IF Cardinality(g[k - 1]) > room
                                 THEN g[k - 1] \ UpdatesToDrop(g[k - 1])
                                 ELSE g[k - 1]]
           left == CHOOSE g : P(g)
           Fine(X) == \A m \in S \ X : Kind(m) \in UpdateKinds /\ \E x \in S : x > m
<1>1. N \in Nat
  <2>1. S \in SUBSET Nat /\ \A x \in S : x <= n
    OBVIOUS
  <2> QED  BY <2>1, FS_BoundedSetOfNaturals, FS_CardinalityType
<1>2. step \in [SUBSET S -> SUBSET S]
  OBVIOUS
<1>3. PICK g \in [0..N -> SUBSET S] :
         g = [k \in 0..N |-> IF k = 0 THEN S ELSE step[g[k - 1]]]
  <2> HIDE DEF N, step
  <2> QED  BY <1>1, <1>2, Iterates
<1>4. ASSUME NEW k \in 0..N, k # 0
      PROVE  k - 1 \in 0..N /\ g[k - 1] \in SUBSET S /\ step[g[k - 1]] = Round(g[k - 1])
  <2> HIDE DEF N
  <2>1. k - 1 \in 0..N
    BY <1>1, <1>4
  <2>2. g[k - 1] \in SUBSET S
    BY <1>3, <2>1
  <2> QED  BY <2>1, <2>2
<1>5. P(g)
  <2> HIDE DEF N, step, Round
  <2>1. g = [k \in 0..N |-> IF k = 0 THEN S ELSE Round(g[k - 1])]
    BY <1>3, <1>4
  <2> QED  BY <2>1 DEF Round
<1>6. P(left)
  <2> HIDE DEF P
  <2> QED  BY <1>5, Zenon
<1>7. UpdatesKept(S, room) = left[N]
  BY DEF UpdatesKept
<1> HIDE DEF left, N, step
<1> DEFINE T == {k \in 0..N : left[k] \in SUBSET S /\ Fine(left[k])}
<1>8. 0 \in T
  <2>1. left[0] = S
    BY <1>1, <1>6
  <2> QED  BY <1>1, <2>1
<1>9. ASSUME NEW k \in 0..N, k > 0, k - 1 \in T PROVE k \in T
  <2>1. left[k] = Round(left[k - 1])
    <3>1. k # 0
      BY <1>9
    <3> QED  BY <1>6, <3>1
  <2>2. left[k - 1] \in SUBSET S /\ Fine(left[k - 1])
    BY <1>9
  <2>3. left[k] \in SUBSET S
    BY <2>1, <2>2
  <2>4. \A m \in UpdatesToDrop(left[k - 1]) :
           Kind(m) \in UpdateKinds /\ \E x \in left[k - 1] : x > m
    <3>1. left[k - 1] \in SUBSET (1..n)
      BY <2>2
    <3> QED  BY <3>1, DroppedUpdates, ZenonT(30)
  <2>5. Fine(left[k])
    BY <2>1, <2>2, <2>4
  <2> QED  BY <2>3, <2>5
<1>10. N \in T
  <2> HIDE DEF T
  <2>1. 0..N \subseteq T
    BY <1>1, <1>8, <1>9, BoundedInduction
  <2> QED  BY <1>1, <2>1
<1> QED  BY <1>7, <1>10

\* find_if returns a message of the queue.
LEMMA FirstAllowed ==
    ASSUME NEW S, nq \in Seq(S), FirstAllowedNormal # 0
    PROVE  FirstAllowedNormal \in DOMAIN nq
<1> DEFINE I == {i \in 1..Len(nq) : AllowedToSend(nq[i])}
<1>1. DOMAIN nq = 1..Len(nq) /\ Len(nq) \in Nat
  BY LenProperties
<1>2. I # {} /\ FirstAllowedNormal = Min(I)
  BY DEF FirstAllowedNormal, SelectInSeq
<1> DEFINE R == {ss \in Nat \X Nat : ss[1] < ss[2]}
<1>3. PICK x \in I : \A y \in I : ~(<<y, x>> \in R)
  <2>1. I \subseteq Nat
    BY <1>1
  <2>2. IsWellFoundedOn(R, Nat)
    BY NatLessThanWellFounded, Zenon DEF OpToRel
  <2> QED  BY <1>2, <2>1, <2>2, WFMin
<1>4. \A y \in I : x <= y
  <2>1. ASSUME NEW y \in I  PROVE x <= y
    <3>1. x \in Nat /\ y \in Nat
      BY <1>1
    <3>2. ~(y < x)
      BY <1>3, <3>1
    <3> QED  BY <3>1, <3>2
  <2> QED  BY <2>1
<1>5. Min(I) \in I
  BY <1>4 DEF Min
<1> QED  BY <1>1, <1>2, <1>5


-----------------------------------------------------------------------------
(* The inductive invariant.                                                *)

\* What the actions on the queues preserve together: that a transaction message
\* is in its queue or in flight exactly when it has a row needs the order (the
\* message in flight is not queued as well), and the order needs the worker to
\* send the head of the queue.
Core ==
    /\ QueueTypeOK
    /\ SelectionStands
    /\ TransactionsPersisted
    /\ TransactionsInOrder

IndInv == Core /\ ControlTypeOK /\ EnvTypeOK

\* A step that touches neither the queues nor the tables keeps Core, as long as
\* the worker does not begin or stop sending.
LEMMA CoreFrame ==
    ASSUME Core, up' => up,
           UNCHANGED <<pushed, msgs, tq, nq, inFlight, dbT, dbN, selected>>,
           worker' = "sending" <=> worker = "sending"
    PROVE  Core'
<1>1. QueueTypeOK'
  BY DEF Core, QueueTypeOK, Live, Pending, Msgs, Transactional, Kind
<1>2. SelectionStands'
  BY DEF Core, SelectionStands
<1>3. TransactionsPersisted' /\ TransactionsInOrder'
  BY DEF Core, TransactionsPersisted, TransactionsInOrder, PendingTransactions,
         Transactional, Kind
<1> QED  BY <1>1, <1>2, <1>3 DEF Core

\* The fields of a control message that the queue changes.
LEMMA UpdatedAttempts ==
    ASSUME NEW r \in ControlMessages
    PROVE  /\ [r EXCEPT !.attempts = r.attempts + 1] \in ControlMessages
           /\ [r EXCEPT !.attempts = r.attempts + 1].kind = r.kind
BY DEF ControlMessages

LEMMA UpdatedPromise ==
    ASSUME NEW r \in ControlMessages, NEW p \in {"open", "answered", "offline"}
    PROVE  /\ [r EXCEPT !.promise = p] \in ControlMessages
           /\ [r EXCEPT !.promise = p].kind = r.kind
BY DEF ControlMessages

LEMMA UpdatedId ==
    ASSUME NEW r \in ControlMessages, NEW t \in 0..MaxTime
    PROVE  /\ [r EXCEPT !.gen = r.gen + 1, !.timestamp = t] \in ControlMessages
           /\ [r EXCEPT !.gen = r.gen + 1, !.timestamp = t].kind = r.kind
<1> DEFINE q == [r EXCEPT !.gen = r.gen + 1]
<1>1. q \in ControlMessages /\ q.kind = r.kind
  BY DEF ControlMessages
<1>2. /\ [q EXCEPT !.timestamp = t] \in ControlMessages
      /\ [q EXCEPT !.timestamp = t].kind = q.kind
  <2> HIDE DEF q
  <2> QED  BY <1>1 DEF ControlMessages
<1>3. [r EXCEPT !.gen = r.gen + 1, !.timestamp = t] = [q EXCEPT !.timestamp = t]
  OBVIOUS
<1> QED  BY <1>1, <1>2, <1>3

LEMMA ReadBack ==
    ASSUME NEW r \in ControlMessages
    PROVE  FromRow(r) \in ControlMessages /\ FromRow(r).kind = r.kind
BY DEF ControlMessages, FromRow

LEMMA InitIndInv == Init => IndInv
<1> SUFFICES ASSUME Init PROVE IndInv
  OBVIOUS
<1>1. ToSet(<<>>) = {}
  BY DEF ToSet
<1>2. Live = {}
  BY <1>1 DEF Init, Live, Pending
<1>3. QueueTypeOK
  BY <1>1, <1>2, NumbersAssumption, NoneAssumption DEF Init, QueueTypeOK, Msgs
<1>4. SelectionStands /\ TransactionsPersisted /\ TransactionsInOrder
  BY <1>1 DEF Init, SelectionStands, TransactionsPersisted, TransactionsInOrder,
              PendingTransactions
<1>5. ControlTypeOK
  BY DEF Init, ControlTypeOK
<1>6. EnvTypeOK
  BY NumbersAssumption DEF Init, EnvTypeOK, Idle
<1> QED  BY <1>3, <1>4, <1>5, <1>6 DEF IndInv, Core


-----------------------------------------------------------------------------
(* The worker thread.                                                      *)

\* The message chosen is the head of the transaction queue, or a message of the
\* normal queue.
LEMMA SelectionQueued ==
    ASSUME QueueTypeOK, Selection # None
    PROVE  /\ Selection \in ToSet(tq) \cup ToSet(nq)
           /\ Selection \in ToSet(tq) => Selection = Head(tq)
<1>1. CASE TransactionSelected
  <2>1. tq # <<>> /\ Selection = Head(tq)
    BY <1>1 DEF Selection, TransactionSelected
  <2>2. Head(tq) \in ToSet(tq)
    BY <2>1, ToSetTail DEF QueueTypeOK
  <2> QED  BY <2>1, <2>2
<1>2. CASE ~TransactionSelected
  <2>1. FirstAllowedNormal # 0 /\ Selection = nq[FirstAllowedNormal]
    BY <1>2 DEF Selection
  <2>2. Selection \in ToSet(nq)
    BY <2>1, FirstAllowed DEF QueueTypeOK, ToSet
  <2>3. Selection \notin ToSet(tq)
    BY <2>2 DEF QueueTypeOK
  <2> QED  BY <2>2, <2>3
<1> QED  BY <1>1, <1>2

LEMMA WorkerSelectCore == ASSUME Core, WorkerSelect PROVE Core'
<1>1. CASE worker' = "loop"
  <2>1. /\ UNCHANGED <<pushed, msgs, tq, nq, inFlight, dbT, dbN, selected, up>>
        /\ worker # "sending"
    BY <1>1 DEF WorkerSelect, db, process
  <2> QED  BY <1>1, <2>1, CoreFrame
<1>2. CASE worker' # "loop"
  <2>1. /\ UNCHANGED <<pushed, msgs, tq, nq, inFlight, dbT, dbN, up>>
        /\ selected' = Selection /\ Selection # None
        /\ worker' = "sending" /\ inFlight = None
    BY <1>2 DEF WorkerSelect, db, process, NothingToDo
  <2>2. /\ Selection \in ToSet(tq) \cup ToSet(nq)
        /\ Selection \in ToSet(tq) => Selection = Head(tq)
    BY <2>1, SelectionQueued DEF Core
  <2>3. QueueTypeOK'
    BY <2>1, <2>2
    DEF Core, QueueTypeOK, Live, Pending, Msgs, Transactional, Kind
  <2>4. SelectionStands'
    BY <2>1, <2>2 DEF SelectionStands
  <2>5. TransactionsPersisted' /\ TransactionsInOrder'
    BY <2>1 DEF Core, TransactionsPersisted, TransactionsInOrder,
                PendingTransactions, Transactional, Kind
  <2> QED  BY <2>3, <2>4, <2>5 DEF Core
<1> QED  BY <1>1, <1>2

LEMMA WorkerSendCore == ASSUME Core, WorkerSend PROVE Core'
<1> DEFINE m == selected
<1>1. /\ inFlight = None /\ worker = "sending" /\ up
      /\ m \in ToSet(tq) \cup ToSet(nq)
      /\ m \in ToSet(tq) => m = Head(tq)
  BY DEF Core, SelectionStands, WorkerSend
<1>2. /\ m \in Live /\ m \in Msgs /\ m # None
      /\ Transactional(m) <=> m \in ToSet(tq)
  BY <1>1, NoneAssumption DEF Core, QueueTypeOK, Live, Pending, Msgs
<1>3. /\ inFlight' = m /\ selected' = None /\ worker' = "loop"
      /\ msgs' = [msgs EXCEPT ![m].attempts = msgs[m].attempts + 1]
      /\ UNCHANGED <<pushed, dbT, dbN, up>>
  BY DEF WorkerSend, db, process
<1>4. /\ DOMAIN msgs' = Live
      /\ msgs' \in [Live -> ControlMessages]
      /\ \A x \in Live : msgs'[x].kind = msgs[x].kind
  <2>1. msgs \in [Live -> ControlMessages] /\ msgs[m] \in ControlMessages
    BY <1>2 DEF Core, QueueTypeOK
  <2> DEFINE r == [msgs[m] EXCEPT !.attempts = msgs[m].attempts + 1]
  <2>2. r \in ControlMessages /\ r.kind = msgs[m].kind
    BY <2>1, UpdatedAttempts
  <2>3. msgs' = [msgs EXCEPT ![m] = r]
    BY <1>3
  <2> HIDE DEF r
  <2> QED  BY <1>2, <2>1, <2>2, <2>3
<1>5. CASE m \in ToSet(tq)
  <2>1. tq # <<>>
    BY <1>5 DEF ToSet
  <2>2. /\ tq' = Tail(tq) /\ nq' = nq /\ m = Head(tq)
    BY <1>1, <1>2, <1>5 DEF WorkerSend
  <2>3. /\ tq' \in Seq(Msgs)
        /\ ToSet(tq) = ToSet(tq') \cup {m}
        /\ Len(tq) \in Nat /\ Len(tq) > 0 /\ tq[1] = m
        /\ Len(tq') = Len(tq) - 1
        /\ \A i \in 1..Len(tq') : tq'[i] = tq[i + 1]
    BY <2>1, <2>2, ToSetTail DEF Core, QueueTypeOK
  <2>4. DOMAIN tq = 1..Len(tq) /\ DOMAIN tq' = 1..Len(tq')
    BY <2>3, LenProperties DEF Core, QueueTypeOK
  <2>5. /\ \A i, j \in DOMAIN tq' : i < j => tq'[i] < tq'[j]
        /\ \A i \in DOMAIN tq' : m < tq'[i]
    <3>1. \A i, j \in DOMAIN tq : i < j => tq[i] < tq[j]
      BY <1>1 DEF Core, TransactionsInOrder
    <3>2. \A i \in DOMAIN tq' : i + 1 \in DOMAIN tq /\ tq'[i] = tq[i + 1]
      BY <2>3, <2>4
    <3>3. \A i, j \in DOMAIN tq' : i < j => tq'[i] < tq'[j]
      <4>1. SUFFICES ASSUME NEW i \in DOMAIN tq', NEW j \in DOMAIN tq', i < j
                     PROVE  tq'[i] < tq'[j]
        OBVIOUS
      <4>2. i + 1 < j + 1
        BY <2>3, <2>4, <4>1
      <4> QED  BY <3>1, <3>2, <4>2
    <3>4. \A i \in DOMAIN tq' : m < tq'[i]
      <4>1. SUFFICES ASSUME NEW i \in DOMAIN tq' PROVE m < tq'[i]
        OBVIOUS
      <4>2. 1 \in DOMAIN tq /\ 1 < i + 1
        BY <2>3, <2>4
      <4> QED  BY <2>3, <3>1, <3>2, <4>2
    <3> QED  BY <3>3, <3>4
  <2>6. Live' = Live
    BY <1>1, <1>2, <1>3, <2>2, <2>3 DEF Live, Pending
  <2>7. QueueTypeOK'
    BY <1>2, <1>3, <1>4, <2>2, <2>3, <2>6
    DEF Core, QueueTypeOK, Msgs, Transactional, Kind, Live, Pending
  <2>8. PendingTransactions' = PendingTransactions
    BY <1>1, <1>2, <1>3, <1>4, <1>5, <2>3
    DEF PendingTransactions, Transactional, Kind
  <2>9. TransactionsPersisted' /\ TransactionsInOrder'
    BY <1>1, <1>3, <2>5, <2>8 DEF Core, TransactionsPersisted, TransactionsInOrder
  <2>10. SelectionStands'
    BY <1>3 DEF SelectionStands
  <2> QED  BY <2>7, <2>9, <2>10 DEF Core
<1>6. CASE m \notin ToSet(tq)
  <2>1. m \in ToSet(nq) /\ ~Transactional(m)
    BY <1>1, <1>2, <1>6
  <2> DEFINE k == CHOOSE i \in DOMAIN nq : nq[i] = m
  <2>2. k \in DOMAIN nq /\ nq[k] = m
    BY <2>1 DEF ToSet
  <2>3. tq' = tq /\ nq' = RemoveAt(nq, k)
    BY <2>1 DEF WorkerSend
  <2>4. nq' \in Seq(Msgs) /\ ToSet(nq') \cup {m} = ToSet(nq)
    BY <2>2, <2>3, ToSetRemoveAt DEF Core, QueueTypeOK
  <2>5. Live' = Live
    BY <1>1, <1>2, <1>3, <2>3, <2>4 DEF Live, Pending
  <2>6. QueueTypeOK'
    BY <1>2, <1>3, <1>4, <2>3, <2>4, <2>5
    DEF Core, QueueTypeOK, Msgs, Transactional, Kind, Live, Pending
  <2>7. PendingTransactions' = PendingTransactions /\ m \notin PendingTransactions
    BY <1>1, <1>2, <1>3, <1>4, <1>6, <2>1, <2>3
    DEF PendingTransactions, Transactional, Kind
  <2>8. TransactionsPersisted' /\ TransactionsInOrder'
    BY <1>1, <1>3, <2>3, <2>7 DEF Core, TransactionsPersisted, TransactionsInOrder
  <2>9. SelectionStands'
    BY <1>3 DEF SelectionStands
  <2> QED  BY <2>6, <2>8, <2>9 DEF Core
<1> QED  BY <1>5, <1>6


\* A send that fails drops at most the front of the normal queue, never a
\* transaction message.
LEMMA WorkerSendFailsCore == ASSUME Core, WorkerSendFails PROVE Core'
<1> DEFINE m == selected
           p == IF Kept(m) THEN msgs[m].promise ELSE "offline"
           r == [msgs[m] EXCEPT !.attempts = msgs[m].attempts + 1, !.promise = p]
           f == [msgs EXCEPT ![m] = r]
<1>1. /\ inFlight = None /\ worker = "sending" /\ up
      /\ m \in ToSet(tq) \cup ToSet(nq)
  BY DEF Core, SelectionStands, WorkerSendFails
<1>2. /\ m \in Live /\ m \in Msgs
      /\ msgs \in [Live -> ControlMessages]
      /\ ~Kept(m) => m \in ToSet(nq)
  BY <1>1 DEF Core, QueueTypeOK, Live, Pending, Kept
<1>3. /\ inFlight' = None /\ selected' = None /\ worker' = "loop" /\ tq' = tq
      /\ nq' = IF Kept(m) THEN nq ELSE Tail(nq)
      /\ UNCHANGED <<pushed, dbT, dbN>>
  BY <1>1 DEF WorkerSendFails, NormalAfterFailure, db
<1>4. msgs' = [x \in Live' |-> f[x]]
  <2> DEFINE g == [msgs EXCEPT ![m].attempts = msgs[m].attempts + 1,
                               ![m].promise = p]
  <2>1. msgs' = [x \in Live' |-> g[x]]
    BY Zenon DEF WorkerSendFails, UpdateMessages
  <2>2. g = f
    <3> HIDE DEF p
    <3> QED  BY <1>2
  <2> QED  BY <2>1, <2>2, Zenon
<1>5. /\ f \in [Live -> ControlMessages]
      /\ \A x \in Live : f[x].kind = msgs[x].kind
  <2>1. msgs[m] \in ControlMessages
    BY <1>2
  <2> DEFINE q == [msgs[m] EXCEPT !.attempts = msgs[m].attempts + 1]
  <2>2. q \in ControlMessages /\ q.kind = msgs[m].kind
    BY <2>1, UpdatedAttempts
  <2>3. p \in {"open", "answered", "offline"}
    BY <2>1 DEF ControlMessages
  <2>4. r = [q EXCEPT !.promise = p]
    OBVIOUS
  <2> HIDE DEF p, q, r
  <2>5. r \in ControlMessages /\ r.kind = msgs[m].kind
    BY <2>2, <2>3, <2>4, UpdatedPromise
  <2> QED  BY <1>2, <2>5
<1> HIDE DEF f, r, p
<1>6. nq' \in Seq(Msgs) /\ ToSet(nq') \subseteq ToSet(nq)
  <2>1. CASE Kept(m)
    BY <1>3, <2>1 DEF Core, QueueTypeOK
  <2>2. CASE ~Kept(m)
    <3>1. nq # <<>>
      BY <1>2, <2>2 DEF ToSet
    <3> QED  BY <1>3, <2>2, <3>1, ToSetTail DEF Core, QueueTypeOK
  <2> QED  BY <2>1, <2>2
<1>7. Live' \subseteq Live
  BY <1>1, <1>3, <1>6 DEF Live, Pending
<1>8. /\ msgs' \in [Live' -> ControlMessages]
      /\ \A x \in Live' : msgs'[x].kind = msgs[x].kind
  BY <1>4, <1>5, <1>7
<1>9. QueueTypeOK'
  BY <1>3, <1>6, <1>7, <1>8
  DEF Core, QueueTypeOK, Msgs, Transactional, Kind, Live, Pending
<1>10. TransactionsPersisted' /\ TransactionsInOrder'
  BY <1>1, <1>3 DEF Core, TransactionsPersisted, TransactionsInOrder,
                    PendingTransactions
<1>11. SelectionStands'
  BY <1>3 DEF SelectionStands
<1> QED  BY <1>9, <1>10, <1>11 DEF Core

-----------------------------------------------------------------------------
(* The queue is given new messages, and dropped from when it is full.      *)

LEMMA NormalDropsNat ==
    ASSUME NEW n \in Nat, NEW t \in Nat
    PROVE  NormalDrops(n, t) \in 0..n
<1>1. DropBatch \in Nat /\ DropBatch >= 1
  <2>1. Threshold \div 10 \in Int
    BY NumbersAssumption
  <2> QED  BY <2>1 DEF DropBatch
<1> DEFINE excess == n + t - Threshold
           batches == (excess + DropBatch - 1) \div DropBatch
<1>2. CASE excess <= 0
  BY <1>2 DEF NormalDrops
<1>3. CASE ~(excess <= 0)
  <2>1. excess \in Nat
    BY <1>3, NumbersAssumption
  <2>2. excess + DropBatch - 1 \in Nat
    BY <1>1, <2>1
  <2>3. batches \in Nat
    <3> HIDE DEF excess
    <3> QED  BY <1>1, <2>2
  <2>4. batches * DropBatch \in Nat
    <3> HIDE DEF batches
    <3> QED  BY <1>1, <2>3
  <2> QED  BY <2>4 DEF NormalDrops
<1> QED  BY <1>2, <1>3

\* check_queue_sizes only removes, removes the row with the message, leaves the
\* transaction messages in order, and drops none of them but updates.
LEMMA CheckQueueSizesDrops ==
    ASSUME NEW k \in Nat, NEW t \in Seq(1..k), NEW n \in Seq(1..k),
           NEW rowsT, NEW rowsN,
           CheckQueueSizes(t, n, rowsT, rowsN)
    PROVE  /\ nq' \in Seq(1..k) /\ ToSet(nq') \subseteq ToSet(n)
           /\ tq' \in Seq(1..k) /\ ToSet(tq') \subseteq ToSet(t)
           /\ \A i, j \in DOMAIN tq' : i < j => tq'[i] < tq'[j]
           /\ dbT' = rowsT \ (ToSet(t) \ ToSet(tq'))
           /\ dbN' \subseteq rowsN
           /\ \A m \in ToSet(t) \ ToSet(tq') :
                 Kind(m) \in UpdateKinds /\ \E x \in ToSet(t) : x > m
<1> DEFINE cut == NormalDrops(Len(n), Len(t))
           normal == SubSeq(n, cut + 1, Len(n))
           kept == UpdatesKept(ToSet(t), Threshold - Len(normal))
<1>1. cut \in Nat
  <2>1. Len(n) \in Nat /\ Len(t) \in Nat
    BY LenProperties
  <2> QED  BY <2>1, NormalDropsNat
<1>2. nq' = normal /\ tq' \in InPushOrder(kept) /\ dbT' = rowsT \ (ToSet(t) \ kept)
  BY DEF CheckQueueSizes
<1>3. dbN' \subseteq rowsN
  BY DEF CheckQueueSizes
<1>4. nq' \in Seq(1..k) /\ ToSet(nq') \subseteq ToSet(n)
  <2> HIDE DEF cut
  <2> QED  BY <1>1, <1>2, ToSetSuffix
<1>5. /\ kept \in SUBSET (1..k) /\ kept \subseteq ToSet(t)
      /\ \A m \in ToSet(t) \ kept : Kind(m) \in UpdateKinds /\ \E x \in ToSet(t) : x > m
  <2>1. DOMAIN t = 1..Len(t) /\ \A i \in 1..Len(t) : t[i] \in 1..k
    BY LenProperties, ElementOfSeq
  <2>2. ToSet(t) \in SUBSET (1..k)
    BY <2>1 DEF ToSet
  <2> QED  BY <2>2, KeptUpdates
<1>6. /\ tq' \in Seq(kept) /\ ToSet(tq') = kept
      /\ \A i, j \in DOMAIN tq' : i < j => tq'[i] < tq'[j]
  <2> HIDE DEF kept
  <2> QED  BY <1>2, <1>5, PushOrder
<1>7. tq' \in Seq(1..k)
  <2> HIDE DEF kept
  <2> QED  BY <1>5, <1>6, SeqMonotonic
<1> QED  BY <1>2, <1>3, <1>4, <1>5, <1>6, <1>7


\* The message in flight is not in the transaction queue as well.
LEMMA InFlightNotQueued ==
    ASSUME Core, up, inFlight # None
    PROVE  inFlight \notin ToSet(tq)
<1>1. SUFFICES ASSUME inFlight \in ToSet(tq) PROVE FALSE
  OBVIOUS
<1>2. PICK i \in DOMAIN tq : tq[i] = inFlight
  BY <1>1 DEF ToSet
<1>3. inFlight \in PendingTransactions
  BY <1>1 DEF PendingTransactions
<1>4. inFlight < inFlight
  BY <1>2, <1>3 DEF Core, TransactionsInOrder
<1>5. inFlight \in Nat
  BY <1>1 DEF Core, QueueTypeOK, Msgs
<1> QED  BY <1>4, <1>5

\* The messages a push of kind adds to the transaction queue and to the normal
\* queue, before the sizes of the queues are checked.
NewTransactions(kind) == IF kind \in TransactionKinds THEN {pushed + 1} ELSE {}
NewNormals(kind) == IF kind \in TransactionKinds THEN {} ELSE {pushed + 1}

\* What a push does to the queues and tables.
LEMMA PushCallQueues ==
    ASSUME IndInv, NEW kind \in Kinds, NEW stall \in BOOLEAN, PushCall(kind, stall)
    PROVE  /\ nq' \in Seq(1..pushed + 1)
           /\ ToSet(nq') \subseteq ToSet(nq) \cup NewNormals(kind)
           /\ tq' \in Seq(1..pushed + 1)
           /\ ToSet(tq') \subseteq ToSet(tq) \cup NewTransactions(kind)
           /\ \A i, j \in DOMAIN tq' : i < j => tq'[i] < tq'[j]
           /\ dbT' = (dbT \cup NewTransactions(kind))
                        \ ((ToSet(tq) \cup NewTransactions(kind)) \ ToSet(tq'))
           /\ dbN' \subseteq dbN \cup NewNormals(kind)
           /\ \A m \in (ToSet(tq) \cup NewTransactions(kind)) \ ToSet(tq') :
                 Kind(m) \in UpdateKinds /\ m # pushed + 1
<1> DEFINE k == pushed + 1
           NT == NewTransactions(kind)
           NN == NewNormals(kind)
<1> USE DEF NewTransactions, NewNormals
<1>1. up
  BY DEF PushCall, LockFree
<1>2. /\ pushed \in Nat /\ k \in Nat /\ pushed < MaxMsgs /\ k \in 0..MaxMsgs
      /\ Msgs = 1..pushed /\ Msgs' = 1..k /\ k \notin Msgs /\ Msgs \subseteq 1..k
      /\ k \in 1..k
  BY <1>1, NumbersAssumption DEF PushCall, IndInv, Core, QueueTypeOK, Msgs
<1>3. /\ tq \in Seq(1..k) /\ nq \in Seq(1..k)
      /\ Live \subseteq Msgs /\ ToSet(tq) \subseteq Live /\ ToSet(nq) \subseteq Live
      /\ dbT \subseteq Live /\ dbN \subseteq Live
      /\ msgs \in [Live -> ControlMessages]
  BY <1>2, SeqMonotonic DEF IndInv, Core, QueueTypeOK, Live, Pending
<1>4. \E t, n \in Seq(1..k), rowsN \in SUBSET (dbN \cup NN) :
         /\ ToSet(t) = ToSet(tq) \cup NT /\ ToSet(n) = ToSet(nq) \cup NN
         /\ CheckQueueSizes(t, n, dbT \cup NT, rowsN)
  <2>1. CASE kind \in TransactionKinds
    <3>1. /\ Append(tq, k) \in Seq(1..k)
          /\ ToSet(Append(tq, k)) = ToSet(tq) \cup NT
      BY <1>2, <1>3, <2>1, ToSetAppend
    <3>2. CheckQueueSizes(Append(tq, k), nq, dbT \cup NT, dbN)
      BY <2>1 DEF PushCall, AddToTransactionQueue
    <3> QED  BY <1>3, <2>1, <3>1, <3>2
  <2>2. CASE kind \notin TransactionKinds
    <3> DEFINE n == IF kind \in BootKinds THEN Cons(k, nq) ELSE Append(nq, k)
               rowsN == IF CheckQueue(kind) THEN dbN \cup {k} ELSE dbN
    <3>1. n \in Seq(1..k) /\ ToSet(n) = ToSet(nq) \cup NN
      <4>1. NN = {k}
        BY <2>2
      <4>2. CASE kind \in BootKinds
        BY <1>2, <1>3, <4>1, <4>2, ToSetCons
      <4>3. CASE kind \notin BootKinds
        BY <1>2, <1>3, <4>1, <4>3, ToSetAppend
      <4> QED  BY <4>2, <4>3
    <3>2. CheckQueueSizes(tq, n, dbT \cup NT, rowsN)
      <4>1. CheckQueueSizes(tq, n, dbT, rowsN)
        BY <2>2 DEF PushCall, AddToNormalQueue
      <4>2. dbT \cup NT = dbT
        BY <2>2
      <4> QED  BY <4>1, <4>2
    <3>3. rowsN \in SUBSET (dbN \cup NN) /\ ToSet(tq) = ToSet(tq) \cup NT
      BY <2>2
    <3> QED  BY <1>3, <3>1, <3>2, <3>3
  <2> QED  BY <2>1, <2>2
<1>5. PICK t \in Seq(1..k), n \in Seq(1..k), rowsN \in SUBSET (dbN \cup NN) :
         /\ ToSet(t) = ToSet(tq) \cup NT /\ ToSet(n) = ToSet(nq) \cup NN
         /\ CheckQueueSizes(t, n, dbT \cup NT, rowsN)
  BY <1>4
<1>6. ToSet(t) \subseteq 1..k
  BY <1>2, <1>3, <1>5
<1> HIDE DEF NT, NN, k, NewTransactions, NewNormals
<1>7. /\ nq' \in Seq(1..k) /\ ToSet(nq') \subseteq ToSet(nq) \cup NN
      /\ tq' \in Seq(1..k) /\ ToSet(tq') \subseteq ToSet(tq) \cup NT
      /\ \A i, j \in DOMAIN tq' : i < j => tq'[i] < tq'[j]
      /\ dbT' = (dbT \cup NT) \ ((ToSet(tq) \cup NT) \ ToSet(tq'))
      /\ dbN' \subseteq dbN \cup NN
      /\ \A m \in ToSet(t) \ ToSet(tq') :
            Kind(m) \in UpdateKinds /\ \E x \in ToSet(t) : x > m
  BY <1>2, <1>5, CheckQueueSizesDrops
<1>8. ASSUME NEW m \in ToSet(t) \ ToSet(tq') PROVE Kind(m) \in UpdateKinds /\ m # k
  <2>1. PICK x \in ToSet(t) : x > m
    BY <1>7
  <2> QED  BY <1>2, <1>6, <1>7, <2>1
<1> QED  BY <1>5, <1>7, <1>8 DEF NT, NN, k

LEMMA PushCallCore ==
    ASSUME IndInv, NEW kind \in Kinds, NEW stall \in BOOLEAN, PushCall(kind, stall)
    PROVE  Core'
<1> DEFINE k == pushed + 1
           NT == IF kind \in TransactionKinds THEN {k} ELSE {}
           NN == IF kind \in TransactionKinds THEN {} ELSE {k}
           f == [x \in DOMAIN msgs \cup {k} |->
                    IF x = k THEN NewControlMessage(kind, stall) ELSE msgs[x]]
<1>1. /\ up /\ worker # "sending" /\ pushed' = k /\ inFlight' = inFlight
      /\ selected' = selected /\ up' = up /\ worker' = Notified
      /\ msgs' = [x \in Live' |-> f[x]]
  BY DEF PushCall, LockFree, process, UpdateMessages
<1>2. /\ pushed \in Nat /\ k \in Nat /\ pushed < MaxMsgs /\ k \in 0..MaxMsgs
      /\ Msgs = 1..pushed /\ Msgs' = 1..k /\ k \notin Msgs /\ Msgs \subseteq 1..k
      /\ k \in 1..k
  BY <1>1, NumbersAssumption DEF PushCall, IndInv, Core, QueueTypeOK, Msgs
<1>3. /\ tq \in Seq(1..k) /\ nq \in Seq(1..k)
      /\ Live \subseteq Msgs /\ ToSet(tq) \subseteq Live /\ ToSet(nq) \subseteq Live
      /\ dbT \subseteq Live /\ dbN \subseteq Live
      /\ msgs \in [Live -> ControlMessages]
  BY <1>2, SeqMonotonic DEF IndInv, Core, QueueTypeOK, Live, Pending
<1>4. NewTransactions(kind) = NT /\ NewNormals(kind) = NN
  BY DEF NewTransactions, NewNormals
<1>5. /\ nq' \in Seq(1..k) /\ ToSet(nq') \subseteq ToSet(nq) \cup NN
      /\ tq' \in Seq(1..k) /\ ToSet(tq') \subseteq ToSet(tq) \cup NT
      /\ \A i, j \in DOMAIN tq' : i < j => tq'[i] < tq'[j]
      /\ dbT' = (dbT \cup NT) \ ((ToSet(tq) \cup NT) \ ToSet(tq'))
      /\ dbN' \subseteq dbN \cup NN
  <2> HIDE DEF NT, NN
  <2> QED  BY <1>4, PushCallQueues
<1>6. Live' \subseteq Live \cup {k}
  BY <1>1, <1>5 DEF Live, Pending
<1>7. /\ msgs' \in [Live' -> ControlMessages]
      /\ \A x \in Live' \ {k} : msgs'[x] = msgs[x]
      /\ k \in Live' => msgs'[k].kind = kind
  <2>1. /\ NewControlMessage(kind, stall) \in ControlMessages
        /\ NewControlMessage(kind, stall).kind = kind
    BY DEF NewControlMessage, ControlMessages, IndInv, EnvTypeOK
  <2> HIDE DEF k
  <2> QED  BY <1>1, <1>3, <1>6, <2>1
<1>8. QueueTypeOK'
  <2>1. Live' \subseteq Msgs' /\ selected' \in Live' \cup {None}
        /\ inFlight' \in Msgs' \cup {None}
    BY <1>1, <1>2, <1>3, <1>6
    DEF IndInv, Core, QueueTypeOK, SelectionStands
  <2>2. /\ \A m \in ToSet(tq') \cup dbT' : msgs'[m].kind \in TransactionKinds
        /\ \A m \in ToSet(nq') \cup dbN' : msgs'[m].kind \notin TransactionKinds
    <3>1. ToSet(tq') \cup dbT' \cup ToSet(nq') \cup dbN' \subseteq Live'
      BY DEF Live, Pending
    <3>2. /\ \A m \in ToSet(tq) \cup dbT : msgs[m].kind \in TransactionKinds
          /\ \A m \in ToSet(nq) \cup dbN : msgs[m].kind \notin TransactionKinds
      BY DEF IndInv, Core, QueueTypeOK, Transactional, Kind
    <3>3. /\ k \notin ToSet(tq) \cup dbT \cup ToSet(nq) \cup dbN
          /\ ToSet(tq') \cup dbT' \subseteq ToSet(tq) \cup dbT \cup NT
          /\ ToSet(nq') \cup dbN' \subseteq ToSet(nq) \cup dbN \cup NN
      BY <1>2, <1>3, <1>5
    <3> HIDE DEF k
    <3> QED  BY <1>7, <3>1, <3>2, <3>3
  <2> HIDE DEF k
  <2> QED  BY <1>1, <1>2, <1>5, <1>7, <2>1, <2>2
           DEF QueueTypeOK, Transactional, Kind
<1>9. SelectionStands'
  BY <1>1 DEF IndInv, Core, SelectionStands, Notified
<1>10. inFlight # None => /\ inFlight \in Live /\ inFlight \in 1..pushed
                          /\ inFlight \notin ToSet(tq)
                          /\ inFlight \in Live' /\ inFlight # k
  BY <1>1, <1>2, InFlightNotQueued
  DEF IndInv, Core, QueueTypeOK, Live, Pending, Msgs
<1>11. inFlight # None => Transactional(inFlight)' = Transactional(inFlight)
  BY <1>1, <1>7, <1>10 DEF Transactional, Kind
<1>12. TransactionsPersisted'
  <2>1. dbT = PendingTransactions
    BY <1>1 DEF IndInv, Core, TransactionsPersisted
  <2>2. PendingTransactions' =
           ToSet(tq') \cup {m \in {inFlight} \ {None} : Transactional(m)}
    BY <1>1, <1>10, <1>11 DEF PendingTransactions
  <2>3. dbT' = ToSet(tq') \cup {m \in {inFlight} \ {None} : Transactional(m)}
    <3> HIDE DEF k
    <3> QED  BY <1>5, <1>10, <2>1 DEF PendingTransactions
  <2> QED  BY <2>2, <2>3 DEF TransactionsPersisted
<1>13. TransactionsInOrder'
  <2>1. ASSUME inFlight \in PendingTransactions', NEW i \in DOMAIN tq'
        PROVE  inFlight < tq'[i]
    <3>1. inFlight # None
      <4>1. None \notin ToSet(tq')
        <5>1. ToSet(tq') \subseteq Live \cup {k}
          BY <1>3, <1>5
        <5>2. Live \cup {k} \subseteq Int
          BY <1>2, <1>3
        <5> QED  BY <5>1, <5>2, NoneAssumption
      <4> QED  BY <1>1, <2>1, <4>1 DEF PendingTransactions
    <3>2. inFlight \in PendingTransactions
      <4>1. inFlight \notin ToSet(tq')
        <5> HIDE DEF k
        <5> QED  BY <1>5, <1>10, <3>1
      <4> QED  BY <1>1, <1>10, <1>11, <2>1, <3>1, <4>1 DEF PendingTransactions
    <3>3. tq'[i] \in ToSet(tq) \cup {k}
      BY <1>5, <2>1 DEF ToSet
    <3>4. \A x \in ToSet(tq) : inFlight < x
      BY <1>1, <3>2 DEF IndInv, Core, TransactionsInOrder, ToSet
    <3> QED  BY <1>2, <1>10, <3>1, <3>3, <3>4
  <2> QED  BY <1>1, <1>5, <2>1 DEF TransactionsInOrder
<1> QED  BY <1>8, <1>9, <1>12, <1>13 DEF Core


-----------------------------------------------------------------------------
(* The message in flight is answered, times out or is rejected.            *)

\* The message in flight leaves the queue and its table, and nothing else moves.
LEMMA RemoveInFlight ==
    ASSUME Core, up, inFlight # None, worker # "sending",
           NEW p \in {"open", "answered", "offline"},
           inFlight' = None, UNCHANGED <<pushed, tq, nq, selected>>,
           worker' # "sending",
           dbT' = dbT \ {inFlight}, dbN' \subseteq dbN,
           UpdateMessages([msgs EXCEPT ![inFlight].promise = p])
    PROVE  Core'
<1> DEFINE m == inFlight
           f == [msgs EXCEPT ![m].promise = p]
<1>1. m \in Live /\ m \notin ToSet(tq) /\ msgs \in [Live -> ControlMessages]
  BY InFlightNotQueued DEF Core, QueueTypeOK, Live, Pending
<1>2. f \in [Live -> ControlMessages] /\ \A x \in Live : f[x].kind = msgs[x].kind
  <2> DEFINE r == [msgs[m] EXCEPT !.promise = p]
  <2>1. r \in ControlMessages /\ r.kind = msgs[m].kind
    BY <1>1, UpdatedPromise
  <2>2. f = [msgs EXCEPT ![m] = r]
    OBVIOUS
  <2> HIDE DEF r, f
  <2> QED  BY <1>1, <2>1, <2>2
<1> HIDE DEF f
<1>3. Live' \subseteq Live
  BY DEF Live, Pending
<1>4. msgs' = [x \in Live' |-> f[x]]
  BY Zenon DEF UpdateMessages, f
<1>5. /\ msgs' \in [Live' -> ControlMessages]
      /\ \A x \in Live' : msgs'[x].kind = msgs[x].kind
  BY <1>2, <1>3, <1>4
<1>6. QueueTypeOK'
  BY <1>3, <1>5
  DEF Core, QueueTypeOK, SelectionStands, Msgs, Transactional, Kind, Live, Pending
<1>7. SelectionStands'
  BY DEF Core, SelectionStands
<1>8. dbT' = ToSet(tq) /\ PendingTransactions' = ToSet(tq)
  BY <1>1 DEF Core, TransactionsPersisted, PendingTransactions
<1>9. TransactionsPersisted'
  BY <1>8 DEF TransactionsPersisted
<1>10. TransactionsInOrder'
  <2>1. None \notin ToSet(tq)
    BY NoneAssumption DEF Core, QueueTypeOK, Live, Pending, Msgs
  <2> QED  BY <1>8, <2>1 DEF Core, TransactionsInOrder
<1> QED  BY <1>6, <1>7, <1>9, <1>10 DEF Core

UnderNewId(m, t) ==
    [msgs EXCEPT ![m].gen = msgs[m].gen + 1, ![m].timestamp = t]

\* The message in flight goes back to the front of its queue under a new id.
LEMMA RequeueInFlight ==
    ASSUME Core, up, inFlight # None, worker # "sending",
           NEW t \in 0..MaxTime,
           inFlight' = None, UNCHANGED <<pushed, selected, dbT, dbN>>,
           worker' # "sending",
           IF Transactional(inFlight) THEN tq' = Cons(inFlight, tq) /\ UNCHANGED nq
                                      ELSE nq' = Cons(inFlight, nq) /\ UNCHANGED tq,
           msgs' = UnderNewId(inFlight, t)
    PROVE  Core'
<1> DEFINE m == inFlight
<1>1. /\ m \in Live /\ m \in Msgs /\ m \notin ToSet(tq) /\ Msgs \subseteq Int
      /\ msgs \in [Live -> ControlMessages]
      /\ tq \in Seq(Msgs) /\ nq \in Seq(Msgs)
  BY InFlightNotQueued DEF Core, QueueTypeOK, Live, Pending, Msgs
<1>2. msgs' \in [Live -> ControlMessages] /\ \A x \in Live : msgs'[x].kind = msgs[x].kind
  <2> DEFINE r == [msgs[m] EXCEPT !.gen = msgs[m].gen + 1, !.timestamp = t]
  <2>1. r \in ControlMessages /\ r.kind = msgs[m].kind
    BY <1>1, UpdatedId
  <2>2. msgs' = [msgs EXCEPT ![m] = r]
    BY <1>1 DEF UnderNewId
  <2> HIDE DEF r
  <2> QED  BY <1>1, <2>1, <2>2
<1>3. /\ Cons(m, tq) \in Seq(Msgs) /\ ToSet(Cons(m, tq)) = ToSet(tq) \cup {m}
      /\ Cons(m, nq) \in Seq(Msgs) /\ ToSet(Cons(m, nq)) = ToSet(nq) \cup {m}
      /\ Len(Cons(m, tq)) = Len(tq) + 1 /\ Cons(m, tq)[1] = m
      /\ \A i \in 1..Len(tq) : Cons(m, tq)[i + 1] = tq[i]
  <2>1. /\ Cons(m, tq) \in Seq(Msgs) /\ ToSet(Cons(m, tq)) = ToSet(tq) \cup {m}
        /\ Len(Cons(m, tq)) = Len(tq) + 1 /\ Cons(m, tq)[1] = m
    BY <1>1, ToSetCons
  <2>2. \A i \in 1..Len(tq) : Cons(m, tq)[i + 1] = tq[i]
    BY <1>1, ToSetCons
  <2>3. Cons(m, nq) \in Seq(Msgs) /\ ToSet(Cons(m, nq)) = ToSet(nq) \cup {m}
    BY <1>1, ToSetCons
  <2> QED  BY <2>1, <2>2, <2>3
<1>4. Live' = Live
  BY <1>3 DEF Live, Pending
<1>5. QueueTypeOK'
  BY <1>1, <1>2, <1>3, <1>4, ZenonT(30)
  DEF Core, QueueTypeOK, Msgs, Transactional, Kind, Live, Pending
<1>6. SelectionStands'
  BY DEF Core, SelectionStands
<1>7. PendingTransactions' = PendingTransactions
  <2>1. PendingTransactions' = ToSet(tq')
    BY DEF PendingTransactions
  <2>2. CASE Transactional(m)
    BY <1>3, <2>1, <2>2 DEF PendingTransactions
  <2>3. CASE ~Transactional(m)
    BY <2>1, <2>3 DEF PendingTransactions
  <2> QED  BY <2>2, <2>3
<1>8. TransactionsPersisted'
  BY <1>7 DEF Core, TransactionsPersisted
<1>9. \A i, j \in DOMAIN tq' : i < j => tq'[i] < tq'[j]
  <2>1. CASE Transactional(m)
    <3>1. /\ DOMAIN tq = 1..Len(tq) /\ Len(tq) \in Nat
          /\ DOMAIN tq' = 1..Len(tq) + 1
      BY <1>1, <1>3, <2>1, LenProperties
    <3>2. /\ \A i, j \in 1..Len(tq) : i < j => tq[i] < tq[j]
          /\ \A i \in 1..Len(tq) : m < tq[i]
      BY <2>1, <3>1 DEF Core, TransactionsInOrder, PendingTransactions
    <3>3. SUFFICES ASSUME NEW i \in 1..Len(tq) + 1, NEW j \in 1..Len(tq) + 1, i < j
                   PROVE  tq'[i] < tq'[j]
      BY <3>1
    <3>4. j - 1 \in 1..Len(tq) /\ tq'[j] = tq[j - 1]
      <4>1. j - 1 \in 1..Len(tq)
        BY <3>1, <3>3
      <4>2. Cons(m, tq)[(j - 1) + 1] = tq[j - 1]
        BY <1>3, <4>1
      <4> QED  BY <2>1, <4>1, <4>2
    <3>5. CASE i = 1
      BY <1>3, <2>1, <3>2, <3>4, <3>5
    <3>6. CASE i # 1
      <4>1. i - 1 \in 1..Len(tq) /\ i - 1 < j - 1
        BY <3>1, <3>3, <3>6
      <4>2. Cons(m, tq)[(i - 1) + 1] = tq[i - 1]
        BY <1>3, <4>1
      <4> QED  BY <2>1, <3>2, <3>4, <4>1, <4>2
    <3> QED  BY <3>5, <3>6
  <2>2. CASE ~Transactional(m)
    BY <2>2 DEF Core, TransactionsInOrder
  <2> QED  BY <2>1, <2>2
<1>10. TransactionsInOrder'
  <2>1. None \notin PendingTransactions'
    BY <1>7, NoneAssumption DEF Core, QueueTypeOK, Live, Pending, Msgs, PendingTransactions
  <2> QED  BY <1>9, <2>1 DEF TransactionsInOrder
<1> QED  BY <1>5, <1>6, <1>8, <1>10 DEF Core

LEMMA AtMostTime == ASSUME NEW t \in Nat PROVE AtMost(t) \in 0..MaxTime
BY NumbersAssumption DEF AtMost

\* Which step handle_timeout_or_callerror takes depends on the kind and on the
\* attempts made; each keeps the rows and the order.
LEMMA HandleTimeoutCore ==
    ASSUME IndInv, LockFree, NEW answer \in {"answered", "offline"}, NEW fired,
           HandleTimeoutOrCallError(answer, fired), selected' = selected
    PROVE  Core'
<1>1. up /\ worker # "sending"
  BY DEF LockFree
<1>2. CASE inFlight = None
  <2>1. UNCHANGED <<pushed, msgs, tq, nq, inFlight, dbT, dbN, worker>> /\ ~up'
    BY <1>2 DEF HandleTimeoutOrCallError, queue, db
  <2> QED  BY <1>1, <2>1, CoreFrame DEF IndInv
<1>3. CASE inFlight # None
  <2>1. /\ inFlight' = None /\ pushed' = pushed /\ worker' # "sending"
        /\ \/ Kept(inFlight) /\ RetryKept(inFlight)
           \/ Kept(inFlight) /\ GiveUp(inFlight, answer)
           \/ ~Kept(inFlight) /\ RetryBoot(inFlight)
           \/ ~Kept(inFlight) /\ DropUnkept(inFlight, answer)
    BY <1>1, <1>3 DEF HandleTimeoutOrCallError, Notified
  <2>2. inFlight \in Live /\ msgs[inFlight] \in ControlMessages
    BY <1>3 DEF IndInv, Core, QueueTypeOK, Live, Pending
  <2>3. /\ msgs[inFlight].timestamp \in Nat /\ msgs[inFlight].attempts \in Nat
        /\ config.interval \in Nat /\ now \in Nat
    BY <2>2, NumbersAssumption DEF IndInv, ControlTypeOK, EnvTypeOK, ControlMessages
  <2>4. CASE Kept(inFlight) /\ RetryKept(inFlight)
    <3> DEFINE due == IF config.interval > 0
                      THEN msgs[inFlight].timestamp
                              + config.interval * msgs[inFlight].attempts
                      ELSE now
    <3>1. due \in Nat
      <4>1. config.interval * msgs[inFlight].attempts \in Nat
        BY <2>3
      <4> QED  BY <2>3, <4>1
    <3>2. AtMost(due) \in 0..MaxTime
      <4> HIDE DEF due
      <4> QED  BY <3>1, AtMostTime
    <3>3. /\ UNCHANGED <<dbT, dbN>>
          /\ IF Transactional(inFlight)
             THEN tq' = Cons(inFlight, tq) /\ UNCHANGED nq
             ELSE nq' = Cons(inFlight, nq) /\ UNCHANGED tq
      BY <2>4 DEF RetryKept, db
    <3>4. msgs' = UnderNewId(inFlight, AtMost(due))
      BY <2>4, Zenon DEF RetryKept, UnderNewId
    <3> HIDE DEF due
    <3> QED  BY <1>1, <1>3, <2>1, <3>2, <3>3, <3>4, RequeueInFlight DEF IndInv
  <2>5. CASE Kept(inFlight) /\ GiveUp(inFlight, answer)
    <3>1. dbT' = dbT \ {inFlight} /\ dbN' \subseteq dbN
      BY <2>2, <2>5 DEF GiveUp, IndInv, Core, QueueTypeOK
    <3>2. /\ UNCHANGED <<tq, nq>>
          /\ UpdateMessages([msgs EXCEPT ![inFlight].promise = answer])
      BY <2>5 DEF GiveUp
    <3> QED  BY <1>1, <1>3, <2>1, <3>1, <3>2, RemoveInFlight DEF IndInv
  <2>6. CASE ~Kept(inFlight) /\ RetryBoot(inFlight)
    <3> DEFINE due == msgs[inFlight].timestamp + BootInterval
    <3>1. AtMost(due) \in 0..MaxTime
      BY <2>3, NumbersAssumption, AtMostTime
    <3>2. UNCHANGED <<tq, dbT, dbN>> /\ nq' = Cons(inFlight, nq)
      BY <2>6 DEF RetryBoot, db
    <3>3. msgs' = UnderNewId(inFlight, AtMost(due))
      BY <2>6, Zenon DEF RetryBoot, UnderNewId
    <3>4. ~Transactional(inFlight)
      BY <2>6 DEF Kept
    <3> HIDE DEF due
    <3> QED  BY <1>1, <1>3, <2>1, <3>1, <3>2, <3>3, <3>4, RequeueInFlight DEF IndInv
  <2>7. CASE ~Kept(inFlight) /\ DropUnkept(inFlight, answer)
    <3>1. inFlight \notin dbT
      BY <2>7 DEF Kept, IndInv, Core, QueueTypeOK
    <3>2. /\ UNCHANGED <<tq, nq, dbT, dbN>>
          /\ UpdateMessages([msgs EXCEPT ![inFlight].promise = answer])
      BY <2>7 DEF DropUnkept, db
    <3> QED  BY <1>1, <1>3, <2>1, <3>1, <3>2, RemoveInFlight DEF IndInv
  <2> QED  BY <2>1, <2>4, <2>5, <2>6, <2>7
<1> QED  BY <1>2, <1>3

LEMMA HandleCallResultCore == ASSUME Core, HandleCallResult PROVE Core'
<1>1. /\ up /\ worker # "sending" /\ inFlight # None
      /\ inFlight' = None /\ UNCHANGED <<pushed, tq, nq, selected>>
      /\ worker' # "sending"
      /\ dbT' = dbT \ {inFlight} /\ dbN' \subseteq dbN
  BY DEF HandleCallResult, LockFree, Matches, ResetInFlight, Notified
<1>2. UpdateMessages([msgs EXCEPT ![inFlight].promise = "answered"])
  BY DEF HandleCallResult
<1> QED  BY <1>1, <1>2, RemoveInFlight


-----------------------------------------------------------------------------
(* A restart.                                                              *)

\* The queues read back hold exactly the messages with a row, in push order.
LEMMA RestartCore == ASSUME Core, Restart PROVE Core'
<1> DEFINE ignored == IF IgnoreSecurityEvents
                      THEN {m \in dbT : Kind(m) \in SecurityKinds} ELSE {}
           T == dbT \ ignored
<1>1. /\ dbT' = T /\ dbN' \subseteq dbN
      /\ tq' \in InPushOrder(T) /\ nq' \in InPushOrder(dbN)
      /\ msgs' = [m \in T \cup dbN |-> FromRow(msgs[m])]
      /\ inFlight' = None /\ worker' = "loop" /\ selected' = None
      /\ pushed' = pushed
  BY DEF Restart
<1>2. /\ pushed \in Nat /\ T \in SUBSET (1..pushed) /\ dbN \in SUBSET (1..pushed)
      /\ T \subseteq Live /\ dbN \subseteq Live
  BY DEF Core, QueueTypeOK, Live, Msgs
<1> HIDE DEF T
<1>3. /\ tq' \in Seq(T) /\ ToSet(tq') = T
      /\ \A i, j \in DOMAIN tq' : i < j => tq'[i] < tq'[j]
  BY <1>1, <1>2, PushOrder
<1>4. nq' \in Seq(dbN) /\ ToSet(nq') = dbN
  BY <1>1, <1>2, PushOrder
<1>5. Live' = T \cup dbN
  BY <1>1, <1>3, <1>4 DEF Live, Pending
<1>6. /\ msgs' \in [Live' -> ControlMessages]
      /\ \A x \in Live' : msgs'[x].kind = msgs[x].kind
  <2>1. \A x \in T \cup dbN : msgs[x] \in ControlMessages
    BY <1>2 DEF Core, QueueTypeOK
  <2>2. \A x \in T \cup dbN :
           FromRow(msgs[x]) \in ControlMessages /\ FromRow(msgs[x]).kind = msgs[x].kind
    BY <2>1, ReadBack
  <2> QED  BY <1>1, <1>5, <2>2
<1>7. tq' \in Seq(Msgs') /\ nq' \in Seq(Msgs') /\ Live' \subseteq Msgs'
  BY <1>1, <1>2, <1>3, <1>4, <1>5, SeqMonotonic DEF Msgs
<1>8. /\ \A m \in T : msgs[m].kind \in TransactionKinds
      /\ \A m \in dbN : msgs[m].kind \notin TransactionKinds
  BY DEF Core, QueueTypeOK, Transactional, Kind, T
<1>9. QueueTypeOK'
  BY <1>1, <1>3, <1>4, <1>5, <1>6, <1>7, <1>8
  DEF Core, QueueTypeOK, Transactional, Kind
<1>10. SelectionStands'
  BY <1>1 DEF SelectionStands
<1>11. PendingTransactions' = T
  BY <1>1, <1>3 DEF PendingTransactions
<1>12. TransactionsPersisted'
  BY <1>1, <1>11 DEF TransactionsPersisted
<1>13. TransactionsInOrder'
  <2>1. 1..pushed \subseteq Int
    BY <1>2
  <2>2. None \notin T
    BY <1>2, <2>1, NoneAssumption
  <2> QED  BY <1>1, <1>3, <1>11, <2>2 DEF TransactionsInOrder
<1> QED  BY <1>9, <1>10, <1>12, <1>13 DEF Core

-----------------------------------------------------------------------------
(* The types of the flags, timers and counters.                            *)

USE DEF queue, db, control, timers, receiver, process, env

LEMMA EnvFrame ==
    ASSUME EnvTypeOK, UNCHANGED <<timers, receiver, env>>
    PROVE  EnvTypeOK'
BY DEF EnvTypeOK

LEMMA ControlFrame ==
    ASSUME ControlTypeOK, UNCHANGED <<newMessage, control, process>>,
           worker' \in {worker, Notified}
    PROVE  ControlTypeOK'
BY DEF ControlTypeOK, Notified

LEMMA WorkerTypes ==
    ASSUME IndInv, WorkerNext
    PROVE  ControlTypeOK' /\ EnvTypeOK'
<1>1. CASE WorkerSleeps
  BY <1>1 DEF WorkerSleeps, WorkerExits, WorkerWaits, SpuriousWakeup, IndInv,
              ControlTypeOK, EnvTypeOK
<1>2. CASE WorkerSelect
  <2>1. EnvTypeOK'
    BY <1>2, EnvFrame DEF WorkerSelect, IndInv
  <2>2. newMessage' \in BOOLEAN /\ worker' \in {"loop", "sending"}
    BY <1>2 DEF WorkerSelect, IndInv, ControlTypeOK
  <2>3. UNCHANGED <<control, process>>
    BY <1>2 DEF WorkerSelect
  <2> QED  BY <2>1, <2>2, <2>3 DEF IndInv, ControlTypeOK
<1>3. /\ worker = "sending" =>
            /\ selected \in Live /\ UniqueId(selected) \in Ids
            /\ msgs[selected].attempts \in Nat
      /\ config.interval \in Nat /\ config.timeout \in Nat /\ now \in Nat
  <2>1. CASE worker = "sending"
    <3>1. selected \in ToSet(tq) \cup ToSet(nq)
      BY <2>1 DEF IndInv, Core, SelectionStands
    <3>2. selected \in Live /\ selected \in 1..pushed /\ pushed \in 0..MaxMsgs
      BY <3>1 DEF IndInv, Core, QueueTypeOK, Live, Pending, Msgs
    <3>3. msgs[selected].attempts \in Nat /\ msgs[selected].gen \in Nat
      BY <3>2 DEF IndInv, Core, QueueTypeOK, ControlMessages
    <3>4. selected \in 1..MaxMsgs
      BY <3>2, NumbersAssumption
    <3> QED  BY <3>2, <3>3, <3>4, NumbersAssumption
             DEF UniqueId, Ids, IndInv, ControlTypeOK, EnvTypeOK
  <2>2. CASE worker # "sending"
    BY <2>2, NumbersAssumption DEF IndInv, ControlTypeOK, EnvTypeOK
  <2> QED  BY <2>1, <2>2
<1>4. CASE WorkerSend
  <2>1. msgTimer' \in 0..MaxTime
    <3> DEFINE t == now + config.timeout + config.interval * (msgs[selected].attempts + 1)
    <3>1. msgTimer' = AtMost(t)
      BY <1>4 DEF WorkerSend
    <3>2. config.interval * (msgs[selected].attempts + 1) \in Nat
      BY <1>3, <1>4 DEF WorkerSend
    <3>3. t \in Nat
      BY <1>3, <3>2
    <3> HIDE DEF t
    <3> QED  BY <3>1, <3>3, AtMostTime
  <2>2. newMessage' \in BOOLEAN
    BY <1>4 DEF WorkerSend, IndInv, ControlTypeOK
  <2>3. outstanding' \subseteq Ids
    BY <1>3, <1>4 DEF WorkerSend, IndInv, EnvTypeOK
  <2>4. ControlTypeOK'
    BY <1>4, <2>2 DEF WorkerSend, IndInv, ControlTypeOK
  <2> QED  BY <1>4, <2>1, <2>3, <2>4 DEF WorkerSend, IndInv, EnvTypeOK
<1>5. CASE WorkerSendFails
  <2>1. newMessage' \in BOOLEAN /\ up' \in BOOLEAN
    BY <1>5 DEF WorkerSendFails, IndInv, ControlTypeOK
  <2>2. outstanding' \subseteq Ids
    BY <1>3, <1>5 DEF WorkerSendFails, IndInv, EnvTypeOK
  <2>3. failures' \in 0..MaxFailures
    BY <1>5, NumbersAssumption DEF WorkerSendFails, CountFailure, IndInv, EnvTypeOK
  <2>4. ControlTypeOK'
    BY <1>5, <2>1 DEF WorkerSendFails, IndInv, ControlTypeOK
  <2> QED  BY <1>5, <2>2, <2>3, <2>4 DEF WorkerSendFails, IndInv, EnvTypeOK
<1> QED  BY <1>1, <1>2, <1>4, <1>5 DEF WorkerNext


\* The types of rx, its steps and the id it handles.
LEMMA RxTypes ==
    ASSUME EnvTypeOK
    PROVE  /\ rx[1] \in {"result", "error", "callerror"} => rx[2] \in Ids
           /\ rx[1] = "call" => rx[2] \in CsmsCalls
BY DEF EnvTypeOK, Idle

LEMMA InFlightId ==
    ASSUME IndInv, inFlight # None
    PROVE  /\ inFlight \in Live /\ UniqueId(inFlight) \in Ids
           /\ msgs[inFlight] \in ControlMessages
<1>1. inFlight \in Live /\ inFlight \in 1..pushed /\ pushed \in 0..MaxMsgs
  BY DEF IndInv, Core, QueueTypeOK, Live, Pending, Msgs
<1>2. msgs[inFlight] \in ControlMessages
  BY <1>1 DEF IndInv, Core, QueueTypeOK
<1>3. msgs[inFlight].gen \in Nat
  BY <1>2 DEF ControlMessages
<1>4. inFlight \in 1..MaxMsgs
  BY <1>1, NumbersAssumption
<1> QED  BY <1>1, <1>2, <1>3, <1>4 DEF UniqueId, Ids

\* handle_timeout_or_callerror leaves every flag and timer well typed.
LEMMA HandleTimeoutTypes ==
    ASSUME IndInv, NEW answer, NEW fired \in Ids \cup {None},
           HandleTimeoutOrCallError(answer, fired),
           UNCHANGED <<control, running, accepted, registered, config, env, nextToSend>>,
           rx' \in {rx, Idle}
    PROVE  ControlTypeOK' /\ EnvTypeOK'
<1>1. /\ msgFired' = fired
      /\ newMessage' = newMessage
      /\ worker' \in {worker, Notified}
      /\ msgTimer' \in {msgTimer, None}
  BY DEF HandleTimeoutOrCallError
<1>2. up' \in BOOLEAN
  BY DEF HandleTimeoutOrCallError, RetryKept, GiveUp, RetryBoot, DropUnkept,
         IndInv, ControlTypeOK
<1>3. wakeTimer' \in 0..MaxTime \cup {None}
  <2>1. CASE wakeTimer' = wakeTimer
    BY <2>1 DEF IndInv, EnvTypeOK
  <2>2. CASE wakeTimer' # wakeTimer
    <3>1. /\ inFlight # None
          /\ RetryKept(inFlight) \/ RetryBoot(inFlight)
      BY <2>2 DEF HandleTimeoutOrCallError, GiveUp, DropUnkept
    <3>2. msgs[inFlight] \in ControlMessages
      BY <3>1, InFlightId
    <3>3. /\ msgs[inFlight].timestamp \in Nat /\ msgs[inFlight].attempts \in Nat
          /\ config.interval \in Nat /\ now \in Nat
      BY <3>2, NumbersAssumption DEF IndInv, ControlTypeOK, EnvTypeOK, ControlMessages
    <3>4. config.interval * msgs[inFlight].attempts \in Nat
      BY <3>3
    <3>5. PICK due \in Nat : wakeTimer' = AtMost(due)
      <4>1. CASE RetryKept(inFlight)
        <5> DEFINE due == IF config.interval > 0
                          THEN msgs[inFlight].timestamp
                                  + config.interval * msgs[inFlight].attempts
                          ELSE now
        <5>1. due \in Nat
          BY <3>3, <3>4
        <5>2. wakeTimer' = AtMost(due)
          BY <4>1 DEF RetryKept
        <5> QED  BY <5>1, <5>2
      <4>2. CASE RetryBoot(inFlight)
        BY <3>3, <4>2, NumbersAssumption DEF RetryBoot
      <4> QED  BY <3>1, <4>1, <4>2
    <3> QED  BY <3>5, AtMostTime
  <2> QED  BY <2>1, <2>2
<1>4. ControlTypeOK'
  BY <1>1, <1>2 DEF IndInv, ControlTypeOK, Notified
<1> QED  BY <1>1, <1>3, <1>4 DEF IndInv, EnvTypeOK

LEMMA ReceiveTypes ==
    ASSUME IndInv, ReceiveNext
    PROVE  ControlTypeOK' /\ EnvTypeOK'
<1> USE DEF IndInv
<1>1. ASSUME NEW c \in CsmsCalls, ReceiveCall(c)
      PROVE  ControlTypeOK' /\ EnvTypeOK'
  BY <1>1, ControlFrame DEF ReceiveCall, EnvTypeOK
<1>2. CASE AnswerCall
  <2>1. ControlTypeOK'
    BY <1>2, ControlFrame DEF AnswerCall
  <2> QED  BY <1>2, <2>1 DEF AnswerCall, EnvTypeOK
<1>3. ASSUME NEW id \in outstanding, NEW type \in {"result", "error"},
             ReceiveAnswer(id, type)
      PROVE  ControlTypeOK' /\ EnvTypeOK'
  <2>1. failures' \in 0..MaxFailures
    BY <1>3, NumbersAssumption DEF ReceiveAnswer, CountFailure, EnvTypeOK
  <2>2. rx' \in {"result", "error", "callerror"} \X Ids
    BY <1>3 DEF ReceiveAnswer, EnvTypeOK
  <2>3. ControlTypeOK'
    BY <1>3, ControlFrame DEF ReceiveAnswer
  <2> QED  BY <1>3, <2>1, <2>2, <2>3 DEF ReceiveAnswer, EnvTypeOK
<1>4. CASE IgnoreAnswer
  <2>1. ControlTypeOK'
    BY <1>4, ControlFrame DEF IgnoreAnswer
  <2> QED  BY <1>4, <2>1 DEF IgnoreAnswer, EnvTypeOK
<1>5. CASE HandleCallResult
  <2>1. ControlTypeOK'
    BY <1>5, ControlFrame DEF HandleCallResult, Notified
  <2>2. rx' \in {Idle, <<"boot">>, <<"notify">>}
    BY <1>5 DEF HandleCallResult, AfterResult
  <2>3. msgTimer' = None /\ msgFired' \in Ids \cup {None}
    BY <1>5 DEF HandleCallResult, ResetInFlight, EnvTypeOK
  <2> QED  BY <1>5, <2>1, <2>2, <2>3 DEF HandleCallResult, EnvTypeOK
<1>6. CASE ResolveTwice
  <2>1. EnvTypeOK'
    BY <1>6, EnvFrame DEF ResolveTwice
  <2> QED  BY <1>6, <2>1 DEF ResolveTwice, ControlTypeOK
<1>7. CASE HandleBootResponse
  <2>1. EnvTypeOK'
    BY <1>7 DEF HandleBootResponse, EnvTypeOK
  <2>2. /\ accepted' \in BOOLEAN /\ registered' \in BOOLEAN
        /\ worker' \in {worker, Notified}
    BY <1>7 DEF HandleBootResponse, ControlTypeOK
  <2> QED  BY <1>7, <2>1, <2>2 DEF HandleBootResponse, ControlTypeOK, Notified
<1>8. CASE NotifyStartTransactionHandled
  <2>1. ControlTypeOK'
    BY <1>8, ControlFrame DEF NotifyStartTransactionHandled
  <2> QED  BY <1>8, <2>1 DEF NotifyStartTransactionHandled, EnvTypeOK
<1>9. CASE CheckCallError
  <2>1. ControlTypeOK'
    BY <1>9, ControlFrame DEF CheckCallError
  <2>2. rx' \in {"result", "error", "callerror"} \X Ids
    BY <1>9, RxTypes DEF CheckCallError
  <2> QED  BY <1>9, <2>1, <2>2 DEF CheckCallError, EnvTypeOK
<1>10. CASE HandleCallError
  <2>1. (IF TimerRace THEN msgFired ELSE None) \in Ids \cup {None}
    BY DEF EnvTypeOK
  <2> QED  BY <1>10, <2>1, HandleTimeoutTypes DEF HandleCallError
<1> QED  BY <1>1, <1>2, <1>3, <1>4, <1>5, <1>6, <1>7, <1>8, <1>9, <1>10
         DEF ReceiveNext

LEMMA TimerTypes ==
    ASSUME IndInv, TimerNext
    PROVE  ControlTypeOK' /\ EnvTypeOK'
<1> USE DEF IndInv
<1>1. CASE TimeoutExpires
  <2>1. ControlTypeOK'
    BY <1>1, ControlFrame DEF TimeoutExpires
  <2>2. msgFired' \in Ids
    BY <1>1, InFlightId DEF TimeoutExpires
  <2>3. failures' \in 0..MaxFailures
    BY <1>1, NumbersAssumption DEF TimeoutExpires, CountFailure, EnvTypeOK
  <2> QED  BY <1>1, <2>1, <2>2, <2>3 DEF TimeoutExpires, EnvTypeOK
<1>2. CASE TimeoutCallback
  BY <1>2, HandleTimeoutTypes DEF TimeoutCallback
<1>3. CASE WakeTimerExpires
  <2>1. EnvTypeOK'
    BY <1>3 DEF WakeTimerExpires, EnvTypeOK
  <2> QED  BY <1>3, <2>1 DEF WakeTimerExpires, ControlTypeOK, Notified
<1>4. CASE ResumeTimerExpires
  <2>1. EnvTypeOK'
    BY <1>4, EnvFrame DEF ResumeTimerExpires
  <2> QED  BY <1>4, <2>1 DEF ResumeTimerExpires, ControlTypeOK
<1>5. ASSUME NEW e \in resumeFired, ResumeNow(e)
      PROVE  ControlTypeOK' /\ EnvTypeOK'
  <2>1. EnvTypeOK'
    BY <1>5, EnvFrame DEF ResumeNow
  <2> QED  BY <1>5, <2>1 DEF ResumeNow, ControlTypeOK, Notified
<1> QED  BY <1>1, <1>2, <1>3, <1>4, <1>5 DEF TimerNext

LEMMA ControlTypes ==
    ASSUME IndInv, ControlNext \/ Tick
    PROVE  ControlTypeOK' /\ EnvTypeOK'
<1> USE DEF IndInv
<1>1. ASSUME NEW kind, NEW triggered, DispatchCall(kind, triggered)
      PROVE  ControlTypeOK' /\ EnvTypeOK'
  <2>1. PICK stall : PushCall(kind, stall)
    BY <1>1 DEF DispatchCall
  <2>2. EnvTypeOK'
    BY <2>1, EnvFrame DEF PushCall
  <2> QED  BY <2>1, <2>2 DEF PushCall, ControlTypeOK, Notified
<1>2. CASE Pause
  <2>1. /\ ctr' \in Nat /\ resumeTimer' \in Nat \cup {None}
        /\ worker' \in {worker, "check"}
        /\ lastRequest' \in {"pause", "resume"}
    BY <1>2 DEF Pause, ControlTypeOK, Notified
  <2>2. paused' \in BOOLEAN /\ resuming' \in BOOLEAN
    BY <1>2 DEF Pause
  <2>3. ControlTypeOK'
    BY <1>2, <2>1, <2>2 DEF Pause, ControlTypeOK
  <2> QED  BY <1>2, <2>3 DEF Pause, EnvTypeOK
<1>3. CASE Resume
  <2>1. EnvTypeOK'
    BY <1>3, EnvFrame DEF Resume
  <2>2. /\ ctr' \in Nat /\ resumeTimer' \in Nat \cup {None}
        /\ worker' \in {worker, "check"}
        /\ lastRequest' \in {"pause", "resume"}
    <3>1. /\ ctr' = ctr + 1 /\ lastRequest' = "resume"
          /\ resumeTimer' = ctr + 1 \/ resumeTimer' = resumeTimer
          /\ worker' = worker \/ worker' = Notified
      BY <1>3, Zenon DEF Resume
    <3> QED  BY <3>1 DEF ControlTypeOK, Notified
  <2>3. paused' \in BOOLEAN /\ resuming' \in BOOLEAN
    <3>1. /\ resuming' = TRUE \/ resuming' = FALSE
          /\ paused' = paused \/ paused' = FALSE
      BY <1>3 DEF Resume
    <3> QED  BY <3>1, Zenon DEF ControlTypeOK
  <2>4. ControlTypeOK'
    BY <1>3, <2>2, <2>3 DEF Resume, ControlTypeOK
  <2> QED  BY <2>1, <2>4
<1>4. CASE Stop
  <2>1. EnvTypeOK'
    BY <1>4, EnvFrame DEF Stop
  <2> QED  BY <1>4, <2>1 DEF Stop, ControlTypeOK, Notified
<1>5. ASSUME NEW c \in Configs, UpdateConfig(c)
      PROVE  ControlTypeOK' /\ EnvTypeOK'
  <2>1. EnvTypeOK'
    BY <1>5, EnvFrame DEF UpdateConfig
  <2> QED  BY <1>5, <2>1 DEF UpdateConfig, ControlTypeOK
<1>6. CASE Restart
  <2>1. registered' \in BOOLEAN /\ newMessage' \in BOOLEAN
    BY <1>6 DEF Restart, ControlTypeOK
  <2>2. ControlTypeOK'
    BY <1>6, <2>1 DEF Restart, ControlTypeOK
  <2>3. restarts' \in 0..MaxRestarts
    BY <1>6, NumbersAssumption DEF Restart, EnvTypeOK
  <2> QED  BY <1>6, <2>2, <2>3 DEF Restart, EnvTypeOK
<1>7. CASE Tick
  <2>1. ControlTypeOK'
    BY <1>7, ControlFrame DEF Tick
  <2>2. now' \in 0..MaxTime
    BY <1>7, NumbersAssumption DEF Tick, EnvTypeOK
  <2> QED  BY <1>7, <2>1, <2>2 DEF Tick, EnvTypeOK
<1> QED  BY <1>1, <1>2, <1>3, <1>4, <1>5, <1>6, <1>7 DEF ControlNext

-----------------------------------------------------------------------------
(* Every step preserves the inductive invariant.                           *)

\* The worker reads the queue while it chooses, and moves a message only when it
\* sends it.
LEMMA WorkerCore == ASSUME IndInv, WorkerNext PROVE Core'
<1>1. CASE WorkerSleeps
  <2>1. worker # "sending" /\ worker' # "sending"
    BY <1>1 DEF WorkerSleeps, WorkerExits, WorkerWaits, SpuriousWakeup
  <2> QED  BY <1>1, <2>1, CoreFrame DEF WorkerSleeps, IndInv
<1> QED  BY <1>1, WorkerSelectCore, WorkerSendCore, WorkerSendFailsCore
         DEF WorkerNext, IndInv

\* The receive thread touches the queue in two handlers only, both of them under
\* the mutex.
LEMMA ReceiveCore == ASSUME IndInv, ReceiveNext PROVE Core'
<1> USE DEF IndInv
<1>1. ASSUME NEW c \in CsmsCalls, ReceiveCall(c) PROVE Core'
  BY <1>1, CoreFrame DEF ReceiveCall
<1>2. CASE AnswerCall
  BY <1>2, CoreFrame DEF AnswerCall, Notified
<1>3. ASSUME NEW id, NEW type, ReceiveAnswer(id, type) PROVE Core'
  BY <1>3, CoreFrame DEF ReceiveAnswer
<1>4. CASE IgnoreAnswer
  BY <1>4, CoreFrame DEF IgnoreAnswer
<1>5. CASE HandleCallResult
  BY <1>5, HandleCallResultCore
<1>6. CASE ResolveTwice
  BY <1>6, CoreFrame DEF ResolveTwice
<1>7. CASE HandleBootResponse
  <2>1. worker' \in {worker, Notified}
    BY <1>7 DEF HandleBootResponse
  <2> QED  BY <1>7, <2>1, CoreFrame DEF HandleBootResponse, Notified
<1>8. CASE NotifyStartTransactionHandled
  BY <1>8, CoreFrame DEF NotifyStartTransactionHandled, Notified
<1>9. CASE CheckCallError
  BY <1>9, CoreFrame DEF CheckCallError
<1>10. CASE HandleCallError
  BY <1>10, HandleTimeoutCore DEF HandleCallError
<1> QED  BY <1>1, <1>2, <1>3, <1>4, <1>5, <1>6, <1>7, <1>8, <1>9, <1>10
         DEF ReceiveNext

LEMMA TimerCore == ASSUME IndInv, TimerNext PROVE Core'
<1> USE DEF IndInv
<1>1. CASE TimeoutExpires
  BY <1>1, CoreFrame DEF TimeoutExpires
<1>2. CASE TimeoutCallback
  BY <1>2, HandleTimeoutCore DEF TimeoutCallback
<1>3. CASE WakeTimerExpires
  BY <1>3, CoreFrame DEF WakeTimerExpires, Notified
<1>4. CASE ResumeTimerExpires
  BY <1>4, CoreFrame DEF ResumeTimerExpires
<1>5. ASSUME NEW e \in resumeFired, ResumeNow(e) PROVE Core'
  <2>1. worker' \in {worker, Notified}
    BY <1>5 DEF ResumeNow
  <2> QED  BY <1>5, <2>1, CoreFrame DEF ResumeNow, Notified
<1> QED  BY <1>1, <1>2, <1>3, <1>4, <1>5 DEF TimerNext

LEMMA ControlCore == ASSUME IndInv, ControlNext \/ Tick PROVE Core'
<1> USE DEF IndInv
<1>1. ASSUME NEW kind \in Kinds, NEW triggered, DispatchCall(kind, triggered)
      PROVE  Core'
  <2>1. PICK stall \in BOOLEAN : PushCall(kind, stall)
    BY <1>1 DEF DispatchCall
  <2> QED  BY <2>1, PushCallCore
<1>2. CASE Pause
  BY <1>2, CoreFrame DEF Pause, Notified
<1>3. CASE Resume
  <2>1. worker' \in {worker, Notified}
    BY <1>3 DEF Resume
  <2> QED  BY <1>3, <2>1, CoreFrame DEF Resume, Notified
<1>4. CASE Stop
  BY <1>4, CoreFrame DEF Stop, Notified
<1>5. ASSUME NEW c, UpdateConfig(c) PROVE Core'
  BY <1>5, CoreFrame DEF UpdateConfig
<1>6. CASE Restart
  BY <1>6, RestartCore
<1>7. CASE Tick
  BY <1>7, CoreFrame DEF Tick
<1> QED  BY <1>1, <1>2, <1>3, <1>4, <1>5, <1>6, <1>7 DEF ControlNext, Kinds

LEMMA NextIndInv == ASSUME IndInv, [Next]_vars PROVE IndInv'
<1>1. CASE Next
  <2>1. Core'
    BY <1>1, WorkerCore, ReceiveCore, TimerCore, ControlCore DEF Next
  <2>2. ControlTypeOK' /\ EnvTypeOK'
    BY <1>1, WorkerTypes, ReceiveTypes, TimerTypes, ControlTypes DEF Next
  <2> QED  BY <2>1, <2>2 DEF IndInv
<1>2. CASE UNCHANGED vars
  <2>1. Core'
    BY <1>2, CoreFrame DEF vars, IndInv
  <2>2. ControlTypeOK'
    BY <1>2 DEF vars, IndInv, ControlTypeOK
  <2>3. EnvTypeOK'
    BY <1>2 DEF vars, IndInv, EnvTypeOK
  <2> QED  BY <2>1, <2>2, <2>3 DEF IndInv
<1> QED  BY <1>1, <1>2

\* The inductive invariant holds in every reachable state.
THEOREM Inductive == Spec => []IndInv
<1>1. IndInv /\ [Next]_vars => IndInv'
  BY NextIndInv
<1> QED  BY InitIndInv, <1>1, PTL DEF Spec

\* Every variable of the queue keeps its type, and every message is in the queue
\* and in the table of its kind, whatever the threads, the timers, the
\* connection and the CSMS do.
THEOREM TypeCorrect == Spec => []TypeOK
<1>1. IndInv => TypeOK
  BY DEF IndInv, Core, TypeOK
<1> QED  BY Inductive, <1>1, PTL

\* The iterators the worker keeps from its choice to the end of send_callback stay
\* valid: message_mutex keeps every other thread from the queues.
THEOREM IteratorsAreSafe == Spec => IteratorsStand
<1>1. ASSUME [Next]_vars, worker = "sending", worker' = "sending"
      PROVE  UNCHANGED <<tq, nq>>
  <2>1. ~LockFree
    BY <1>1 DEF LockFree
  <2>2. CASE WorkerNext
    BY <1>1, <2>2 DEF WorkerNext, WorkerSleeps, WorkerExits, WorkerWaits,
       SpuriousWakeup, WorkerSelect, WorkerSend, WorkerSendFails
  <2>3. CASE ReceiveNext
    BY <2>1, <2>3 DEF ReceiveNext, ReceiveCall, AnswerCall, ReceiveAnswer,
       IgnoreAnswer, HandleCallResult, ResolveTwice, HandleBootResponse,
       NotifyStartTransactionHandled, CheckCallError, HandleCallError
  <2>4. CASE TimerNext
    BY <2>1, <2>4 DEF TimerNext, TimeoutExpires, TimeoutCallback,
       WakeTimerExpires, ResumeTimerExpires, ResumeNow
  <2>5. CASE ControlNext
    <3>1. ~Restart
      BY <1>1 DEF Restart
    <3> QED  BY <2>1, <2>5, <3>1 DEF ControlNext, DispatchCall, PushCall, Pause,
                Resume, Stop, UpdateConfig
  <2> QED  BY <1>1, <2>2, <2>3, <2>4, <2>5 DEF Next, Tick, vars
<1> QED  BY <1>1, PTL DEF Spec, IteratorsStand

\* At every step, and so at every crash, the table of transaction messages holds
\* exactly the messages whose delivery the queue owes: one that is queued or in
\* flight is never lost, and one that is done is never sent again.
THEOREM NoTransactionLost == Spec => []TransactionsPersisted
<1>1. IndInv => TransactionsPersisted
  BY DEF IndInv, Core
<1> QED  BY Inductive, <1>1, PTL

\* Transaction messages are sent in the order in which they were pushed, over
\* retries, failed sends, overflow and restarts.
THEOREM ChronologicalOrder == Spec => []TransactionsInOrder
<1>1. IndInv => TransactionsInOrder
  BY DEF IndInv, Core
<1> QED  BY Inductive, <1>1, PTL

-----------------------------------------------------------------------------
(* pause() and resume().                                                   *)

\* A callback of the resume timer that has been dispatched, or is to come, carries
\* the counter of the resume() that set the timer: it has the current value only
\* as long as neither pause() nor resume() has been called since.
ResumeCounters ==
    \A e \in resumeFired \cup ({resumeTimer} \ {None}) :
        e <= ctr /\ (e = ctr => lastRequest = "resume")

ResumeInv == ResumeCounters /\ LatestRequestCounts

\* The steps of the other threads leave pause and resume alone, or pause.
LEMMA ResumeFrame ==
    ASSUME ResumeInv, up' => up, paused' = paused \/ paused',
           UNCHANGED <<ctr, resumeTimer, resumeFired, lastRequest>>
    PROVE  ResumeInv'
BY DEF ResumeInv, ResumeCounters, LatestRequestCounts

LEMMA NextResumeInv == ASSUME IndInv, ResumeInv, [Next]_vars PROVE ResumeInv'
<1>1. ctr \in Nat /\ resumeFired \subseteq Nat /\ resumeTimer \in Nat \cup {None}
  BY DEF IndInv, ControlTypeOK
<1>2. CASE WorkerNext
  <2>1. /\ up /\ (paused' = paused \/ paused')
        /\ UNCHANGED <<ctr, resumeTimer, resumeFired, lastRequest>>
    BY <1>2 DEF WorkerNext, WorkerSleeps, WorkerSelect, WorkerSend, WorkerSendFails
  <2> QED  BY <2>1, ResumeFrame
<1>3. CASE ReceiveNext
  <2>1. up /\ UNCHANGED control
    BY <1>3 DEF ReceiveNext, ReceiveCall, AnswerCall, ReceiveAnswer, IgnoreAnswer,
       HandleCallResult, ResolveTwice, HandleBootResponse, CheckCallError,
       NotifyStartTransactionHandled, HandleCallError, LockFree
  <2> QED  BY <2>1, ResumeFrame
<1>4. CASE TimeoutExpires \/ TimeoutCallback \/ WakeTimerExpires
  <2>1. up /\ UNCHANGED control
    BY <1>4 DEF TimeoutExpires, TimeoutCallback, WakeTimerExpires, LockFree
  <2> QED  BY <2>1, ResumeFrame
<1>5. CASE ResumeTimerExpires
  BY <1>5 DEF ResumeTimerExpires, ResumeInv, ResumeCounters, LatestRequestCounts
<1>6. ASSUME NEW e \in resumeFired, ResumeNow(e) PROVE ResumeInv'
  <2>1. /\ UNCHANGED <<ctr, resumeTimer, lastRequest, up>>
        /\ resumeFired' = resumeFired \ {e}
        /\ ctr = e \/ paused' = paused
    BY <1>6 DEF ResumeNow
  <2>2. ResumeCounters'
    BY <2>1 DEF ResumeInv, ResumeCounters
  <2>3. LatestRequestCounts'
    BY <2>1 DEF ResumeInv, ResumeCounters, LatestRequestCounts
  <2> QED  BY <2>2, <2>3 DEF ResumeInv
<1>7. CASE Pause
  <2>1. /\ ctr' = ctr + 1 /\ paused' /\ resumeTimer' = None
        /\ resumeFired' = resumeFired
    BY <1>7 DEF Pause
  <2> QED  BY <1>1, <2>1 DEF ResumeInv, ResumeCounters, LatestRequestCounts
<1>8. CASE Resume
  <2>1. /\ ctr' = ctr + 1 /\ lastRequest' = "resume" /\ resumeFired' = resumeFired
        /\ resumeTimer' \in {ctr + 1, resumeTimer}
    BY <1>8 DEF Resume
  <2>2. ResumeCounters'
    BY <1>1, <2>1 DEF ResumeInv, ResumeCounters
  <2> QED  BY <2>1, <2>2 DEF ResumeInv, LatestRequestCounts
<1>9. ASSUME NEW kind, NEW triggered, DispatchCall(kind, triggered) PROVE ResumeInv'
  <2>1. up' = up /\ UNCHANGED control
    BY <1>9 DEF DispatchCall, PushCall
  <2> QED  BY <2>1, ResumeFrame
<1>10. CASE Restart
  BY <1>10 DEF Restart, ResumeInv, ResumeCounters, LatestRequestCounts
<1>11. CASE Stop \/ (\E c \in Configs : UpdateConfig(c)) \/ Tick \/ UNCHANGED vars
  <2>1. up' = up /\ UNCHANGED control
    BY <1>11 DEF Stop, UpdateConfig, Tick, vars
  <2> QED  BY <2>1, ResumeFrame
<1> QED  BY <1>2, <1>3, <1>4, <1>5, <1>6, <1>7, <1>8, <1>9, <1>10, <1>11
         DEF Next, TimerNext, ControlNext

\* Only the latest of pause() and resume() counts: the queue sends only after a
\* resume() that no pause() has followed, although a timer that is cancelled may
\* have expired already and its callback waits for the mutex.
THEOREM LatestRequestWins == Spec => []LatestRequestCounts
<1>1. Init => ResumeInv
  BY DEF Init, ResumeInv, ResumeCounters, LatestRequestCounts
<1>2. IndInv /\ ResumeInv /\ [Next]_vars => ResumeInv'
  BY NextResumeInv
<1>3. ResumeInv => LatestRequestCounts
  BY DEF ResumeInv
<1> QED  BY Inductive, <1>1, <1>2, <1>3, PTL DEF Spec

-----------------------------------------------------------------------------
(* What the queue delivers: it implements TransactionDelivery, every step  *)
(* being, for the transaction messages, a step of it or a stuttering step. *)

\* The state of TransactionDelivery that a state of the queue stands for.
Owed == [m \in dbT |-> Kind(m)]
Offered == IF up /\ inFlight # None /\ inFlight \in dbT THEN inFlight ELSE None

USE DEF queue, db, control, timers, receiver, process, env

\* What the inductive invariant says of the rows and the message on offer.
LEMMA Rows ==
    ASSUME IndInv
    PROVE  /\ pushed \in Nat /\ dbT \subseteq 1..pushed /\ dbT \subseteq Live
           /\ msgs \in [Live -> ControlMessages]
           /\ None \notin dbT
           /\ up /\ inFlight # None =>
                 inFlight \in Live /\ (inFlight \in dbT <=> Transactional(inFlight))
           /\ \A m \in dbT : Kind(m) \in TransactionKinds
<1>1. /\ pushed \in Nat /\ dbT \subseteq 1..pushed /\ dbT \subseteq Live
      /\ msgs \in [Live -> ControlMessages]
      /\ \A m \in dbT : Kind(m) \in TransactionKinds
  BY NumbersAssumption DEF IndInv, Core, QueueTypeOK, Live, Msgs, Transactional
<1>2. None \notin dbT
  <2>1. 1..pushed \subseteq Int
    BY <1>1
  <2> QED  BY <1>1, <2>1, NoneAssumption
<1>3. ASSUME up, inFlight # None
      PROVE  inFlight \in Live /\ (inFlight \in dbT <=> Transactional(inFlight))
  <2>1. inFlight \in Live
    BY <1>3 DEF Live, Pending
  <2>2. inFlight \notin ToSet(tq)
    BY <1>3, InFlightNotQueued DEF IndInv
  <2>3. dbT = PendingTransactions
    BY <1>3 DEF IndInv, Core, TransactionsPersisted
  <2> QED  BY <1>3, <2>1, <2>2, <2>3 DEF PendingTransactions
<1> QED  BY <1>1, <1>2, <1>3

\* A step that changes neither the rows and their kinds nor the message on offer
\* is not seen by TransactionDelivery.
LEMMA Unseen ==
    ASSUME IndInv, pushed' = pushed, dbT' = dbT, Offered' = Offered,
           \A m \in dbT : msgs'[m].kind = msgs[m].kind
    PROVE  UNCHANGED Delivery!vars
<1>1. Owed' = Owed
  BY DEF Owed, Kind
<1> QED  BY <1>1 DEF Delivery!vars, Owed, Offered

\* Most steps do not touch the queue at all.
LEMMA Frame ==
    ASSUME IndInv, UNCHANGED <<pushed, msgs, dbT, inFlight, up>>
    PROVE  UNCHANGED Delivery!vars
BY Unseen DEF Offered

LEMMA InitRefines == Init => Delivery!Init
<1>1. ASSUME Init PROVE Delivery!Init
  <2>1. Owed = <<>>
    BY <1>1 DEF Init, Owed
  <2> QED  BY <1>1, <2>1 DEF Init, Delivery!Init, Owed
<1> QED  BY <1>1

\* The worker sends the head of the transaction queue, which is the oldest row.
LEMMA WorkerSendRefines ==
    ASSUME IndInv, WorkerSend
    PROVE  [Delivery!Next]_(Delivery!vars)
<1> DEFINE m == selected
<1>1. /\ up /\ worker = "sending" /\ inFlight' = m /\ up' = up
      /\ UNCHANGED <<pushed, dbT>>
      /\ msgs' = [msgs EXCEPT ![m].attempts = msgs[m].attempts + 1]
  BY DEF WorkerSend
<1>2. /\ inFlight = None /\ m \in ToSet(tq) \cup ToSet(nq) /\ m \in Live
      /\ m \in ToSet(tq) => m = Head(tq)
  BY <1>1 DEF IndInv, Core, SelectionStands, Live, Pending
<1>3. m # None
  <2>1. Live \subseteq Int
    BY DEF IndInv, Core, QueueTypeOK, Msgs
  <2> QED  BY <1>2, <2>1, NoneAssumption
<1>4. \A x \in dbT : msgs'[x].kind = msgs[x].kind
  <2>1. msgs[m] \in ControlMessages
    BY <1>2 DEF IndInv, Core, QueueTypeOK
  <2>2. [msgs[m] EXCEPT !.attempts = msgs[m].attempts + 1].kind = msgs[m].kind
    BY <2>1, UpdatedAttempts
  <2> QED  BY <1>1, <1>2, <2>2, Rows
<1>5. Offered = None
  BY <1>2 DEF Offered
<1>6. Owed' = Owed
  BY <1>1, <1>4 DEF Owed, Kind
<1>7. dbT = ToSet(tq)
  BY <1>1, <1>2 DEF IndInv, Core, TransactionsPersisted, PendingTransactions
<1>8. CASE m \in dbT
  <2>1. Offered' = m
    BY <1>1, <1>3, <1>8 DEF Offered
  <2>2. \A other \in dbT : m <= other
    <3>1. tq \in Seq(Msgs) /\ DOMAIN tq = 1..Len(tq) /\ Len(tq) \in Nat
      BY LenProperties DEF IndInv, Core, QueueTypeOK
    <3>2. m = tq[1] /\ 1 \in DOMAIN tq
      <4>1. tq # <<>>
        BY <1>7, <1>8 DEF ToSet
      <4> QED  BY <1>2, <1>7, <1>8, <3>1, <4>1
    <3>3. \A i \in DOMAIN tq : i > 1 => tq[1] < tq[i]
      BY <1>1, <3>1, <3>2 DEF IndInv, Core, TransactionsInOrder
    <3>4. \A i \in DOMAIN tq : tq[i] \in Int
      BY <1>7, <3>1, Rows DEF ToSet
    <3> QED  BY <1>7, <3>1, <3>2, <3>3, <3>4 DEF ToSet
  <2>3. Delivery!Offer
    BY <1>1, <1>5, <1>6, <1>8, <2>1, <2>2 DEF Delivery!Offer, Owed, Offered
  <2> QED  BY <2>3 DEF Delivery!Next
<1>9. CASE m \notin dbT
  <2>1. Offered' = None
    BY <1>1, <1>9 DEF Offered
  <2> QED  BY <1>1, <1>4, <1>5, <2>1, Unseen
<1> QED  BY <1>8, <1>9

\* A send that fails leaves every row.
LEMMA WorkerSendFailsRefines ==
    ASSUME IndInv, WorkerSendFails
    PROVE  UNCHANGED Delivery!vars
<1> DEFINE m == selected
           f == [msgs EXCEPT ![m].attempts = msgs[m].attempts + 1,
                    ![m].promise = IF Kept(m) THEN msgs[m].promise ELSE "offline"]
<1>1. /\ up /\ worker = "sending" /\ UNCHANGED <<pushed, dbT, inFlight>>
      /\ msgs' = [x \in Live' |-> f[x]]
  BY Zenon DEF WorkerSendFails, UpdateMessages
<1>2. inFlight = None /\ m \in Live
  BY <1>1 DEF IndInv, Core, SelectionStands, Live, Pending
<1>3. \A x \in Live : f[x].kind = msgs[x].kind
  <2>1. msgs \in [Live -> ControlMessages]
    BY DEF IndInv, Core, QueueTypeOK
  <2> DEFINE p == IF Kept(m) THEN msgs[m].promise ELSE "offline"
  <2>2. /\ f = [[msgs EXCEPT ![m].attempts = msgs[m].attempts + 1]
                   EXCEPT ![m].promise = p]
    OBVIOUS
  <2> HIDE DEF p, f
  <2> DEFINE g == [msgs EXCEPT ![m].attempts = msgs[m].attempts + 1]
  <2>3. g \in [Live -> ControlMessages] /\ \A x \in Live : g[x].kind = msgs[x].kind
    <3>1. msgs[m] \in ControlMessages
      BY <1>2, <2>1
    <3> DEFINE r == [msgs[m] EXCEPT !.attempts = msgs[m].attempts + 1]
    <3>2. r \in ControlMessages /\ r.kind = msgs[m].kind
      BY <3>1, UpdatedAttempts
    <3>3. g = [msgs EXCEPT ![m] = r]
      BY <1>2, <2>1
    <3> HIDE DEF r, g
    <3> QED  BY <1>2, <2>1, <3>2, <3>3
  <2> HIDE DEF g
  <2>4. f = [g EXCEPT ![m].promise = p]
    BY <2>2 DEF g
  <2> QED  BY <1>2, <2>3, <2>4 DEF ControlMessages
<1> HIDE DEF f
<1>4. \A x \in dbT : msgs'[x].kind = msgs[x].kind
  <2>1. dbT \subseteq Live' /\ dbT \subseteq Live
    BY <1>1 DEF Live
  <2> QED  BY <1>1, <1>3, <2>1
<1>5. Offered' = Offered
  BY <1>1, <1>2 DEF Offered
<1> QED  BY <1>1, <1>4, <1>5, Unseen

-----------------------------------------------------------------------------
(* The message in flight is settled or withdrawn.                          *)

\* The message in flight is done: it is settled if it is a transaction message,
\* and nothing of it is seen otherwise.
LEMMA DoneRefines ==
    ASSUME IndInv, up, inFlight # None, inFlight' = None, pushed' = pushed,
           dbT' = dbT \ {inFlight},
           NEW p, UpdateMessages([msgs EXCEPT ![inFlight].promise = p])
    PROVE  [Delivery!Next]_(Delivery!vars)
<1> DEFINE f == [msgs EXCEPT ![inFlight].promise = p]
<1>1. inFlight \in Live /\ msgs \in [Live -> ControlMessages] /\ dbT \subseteq Live
  BY Rows
<1>2. \A x \in Live : f[x].kind = msgs[x].kind
  BY <1>1 DEF ControlMessages
<1>3. msgs' = [x \in Live' |-> f[x]]
  BY Zenon DEF UpdateMessages
<1> HIDE DEF f
<1>4. \A x \in dbT' : msgs'[x].kind = msgs[x].kind
  <2>1. dbT' \subseteq Live'
    BY DEF Live
  <2> QED  BY <1>1, <1>2, <1>3, <2>1
<1>5. Offered' = None
  BY DEF Offered
<1>6. CASE inFlight \in dbT
  <2>1. Offered = inFlight
    BY <1>6 DEF Offered
  <2>2. Owed' = [m \in dbT \ {inFlight} |-> Kind(m)]
    BY <1>4 DEF Owed, Kind
  <2>3. Owed' = [m \in DOMAIN Owed \ {Offered} |-> Owed[m]]
    BY <2>1, <2>2 DEF Owed
  <2>4. Delivery!Settle
    BY <1>5, <2>1, <2>3 DEF Delivery!Settle, Delivery!Without, Owed, Offered
  <2> QED  BY <2>4 DEF Delivery!Next
<1>7. CASE inFlight \notin dbT
  <2>1. dbT' = dbT /\ Offered = None
    BY <1>7 DEF Offered
  <2> QED  BY <1>4, <1>5, <2>1, Unseen
<1> QED  BY <1>6, <1>7

\* The message on offer is taken back, or there was none; the rows stay.
LEMMA WithdrawRefines ==
    ASSUME IndInv, pushed' = pushed, dbT' = dbT, Offered' = None,
           \A m \in dbT : msgs'[m].kind = msgs[m].kind
    PROVE  [Delivery!Next]_(Delivery!vars)
<1>1. CASE Offered = None
  BY <1>1, Unseen
<1>2. CASE Offered # None
  <2>1. Owed' = Owed
    BY DEF Owed, Kind
  <2>2. Delivery!Withdraw
    BY <1>2, <2>1 DEF Delivery!Withdraw, Owed, Offered
  <2> QED  BY <2>2 DEF Delivery!Next
<1> QED  BY <1>1, <1>2

LEMMA HandleCallResultRefines ==
    ASSUME IndInv, HandleCallResult
    PROVE  [Delivery!Next]_(Delivery!vars)
<1>1. /\ up /\ inFlight # None /\ inFlight' = None /\ pushed' = pushed
      /\ dbT' = dbT \ {inFlight}
  BY DEF HandleCallResult, LockFree, Matches, ResetInFlight
<1>2. UpdateMessages([msgs EXCEPT ![inFlight].promise = "answered"])
  BY DEF HandleCallResult
<1> QED  BY <1>1, <1>2, DoneRefines

\* A message is sent again, given up or dropped after a timeout or a CALLERROR.
LEMMA HandleTimeoutRefines ==
    ASSUME IndInv, LockFree, NEW answer, NEW fired,
           HandleTimeoutOrCallError(answer, fired)
    PROVE  [Delivery!Next]_(Delivery!vars)
<1>1. up
  BY DEF LockFree
<1>2. CASE inFlight = None
  <2>1. UNCHANGED <<pushed, msgs, inFlight, dbT>>
    BY <1>2 DEF HandleTimeoutOrCallError
  <2>2. Offered' = None
    BY <1>2, <2>1 DEF Offered
  <2> QED  BY <2>1, <2>2, WithdrawRefines
<1>3. CASE inFlight # None
  <2>1. /\ inFlight' = None /\ pushed' = pushed
        /\ \/ RetryKept(inFlight)
           \/ Kept(inFlight) /\ GiveUp(inFlight, answer)
           \/ RetryBoot(inFlight)
           \/ ~Kept(inFlight) /\ DropUnkept(inFlight, answer)
    BY <1>3 DEF HandleTimeoutOrCallError
  <2>2. /\ inFlight \in Live /\ msgs \in [Live -> ControlMessages] /\ dbT \subseteq Live
        /\ inFlight \in dbT <=> Transactional(inFlight)
    BY <1>1, <1>3, Rows
  <2>3. ASSUME NEW t, msgs' = UnderNewId(inFlight, t), dbT' = dbT
        PROVE  [Delivery!Next]_(Delivery!vars)
    <3>1. \A m \in dbT : msgs'[m].kind = msgs[m].kind
      BY <2>2, <2>3 DEF UnderNewId, ControlMessages
    <3>2. Offered' = None
      BY <2>1 DEF Offered
    <3> QED  BY <2>1, <2>3, <3>1, <3>2, WithdrawRefines
  <2>4. CASE RetryKept(inFlight)
    <3> DEFINE due == IF config.interval > 0
                      THEN msgs[inFlight].timestamp
                              + config.interval * msgs[inFlight].attempts
                      ELSE now
    <3>1. msgs' = UnderNewId(inFlight, AtMost(due))
      BY <2>4, Zenon DEF RetryKept, UnderNewId
    <3>2. dbT' = dbT
      BY <2>4 DEF RetryKept
    <3> HIDE DEF due
    <3> QED  BY <2>3, <3>1, <3>2
  <2>5. CASE Kept(inFlight) /\ GiveUp(inFlight, answer)
    <3>1. dbT' = dbT \ {inFlight}
      BY <2>2, <2>5 DEF GiveUp
    <3>2. UpdateMessages([msgs EXCEPT ![inFlight].promise = answer])
      BY <2>5 DEF GiveUp
    <3> QED  BY <1>1, <1>3, <2>1, <3>1, <3>2, DoneRefines
  <2>6. CASE RetryBoot(inFlight)
    <3> DEFINE due == AtMost(msgs[inFlight].timestamp + BootInterval)
    <3>1. msgs' = UnderNewId(inFlight, due)
      BY <2>6, Zenon DEF RetryBoot, UnderNewId
    <3>2. dbT' = dbT
      BY <2>6 DEF RetryBoot
    <3> HIDE DEF due
    <3> QED  BY <2>3, <3>1, <3>2
  <2>7. CASE ~Kept(inFlight) /\ DropUnkept(inFlight, answer)
    <3>1. dbT' = dbT \ {inFlight}
      BY <2>2, <2>7 DEF DropUnkept, Kept
    <3>2. UpdateMessages([msgs EXCEPT ![inFlight].promise = answer])
      BY <2>7 DEF DropUnkept
    <3> QED  BY <1>1, <1>3, <2>1, <3>1, <3>2, DoneRefines
  <2> QED  BY <2>1, <2>4, <2>5, <2>6, <2>7
<1> QED  BY <1>2, <1>3

-----------------------------------------------------------------------------
(* Messages are taken, and the process restarts.                           *)

\* A push is accepted: the new message is owed if it is a transaction message, and
\* what the full queue drops are updates that are not on offer.
LEMMA PushCallRefines ==
    ASSUME IndInv, NEW kind \in Kinds, NEW stall \in BOOLEAN, PushCall(kind, stall)
    PROVE  Delivery!Accept
<1> DEFINE k == pushed + 1
           NT == NewTransactions(kind)
           dropped == (ToSet(tq) \cup NT) \ ToSet(tq')
           f == [x \in DOMAIN msgs \cup {k} |->
                    IF x = k THEN NewControlMessage(kind, stall) ELSE msgs[x]]
<1>1. /\ up /\ pushed' = k /\ inFlight' = inFlight /\ up' = up
      /\ msgs' = [x \in Live' |-> f[x]]
  BY DEF PushCall, LockFree, UpdateMessages
<1>2. /\ dbT' = (dbT \cup NT) \ dropped /\ ToSet(tq') \subseteq ToSet(tq) \cup NT
      /\ \A m \in dropped : Kind(m) \in UpdateKinds /\ m # k
  BY PushCallQueues
<1>3. /\ pushed \in Nat /\ k \notin dbT /\ dbT \subseteq Live /\ k \notin Live
      /\ msgs \in [Live -> ControlMessages] /\ NT \subseteq {k}
  BY Rows DEF IndInv, Core, QueueTypeOK, Msgs, NewTransactions
<1>4. dbT = PendingTransactions
  BY <1>1 DEF IndInv, Core, TransactionsPersisted
<1>5. dropped \subseteq dbT
  BY <1>2, <1>3, <1>4 DEF PendingTransactions
<1>6. inFlight # None => inFlight \notin dropped
  BY <1>1, <1>2, <1>3, <1>5, InFlightNotQueued DEF IndInv
<1>7. Offered' = Offered /\ Offered \notin dropped
  <2>1. inFlight # None => inFlight # k
    BY <1>1, <1>3, Rows
  <2>2. inFlight # None => (inFlight \in dbT' <=> inFlight \in dbT)
    BY <1>2, <1>3, <1>6, <2>1
  <2>3. None \notin dropped
    BY <1>5, Rows
  <2> QED  BY <1>1, <1>6, <2>2, <2>3 DEF Offered
<1>8. /\ \A m \in dbT' : m # k => m \in dbT /\ msgs'[m].kind = msgs[m].kind
      /\ k \in dbT' => msgs'[k].kind = kind
  <2>1. dbT' \subseteq Live'
    BY DEF Live
  <2>2. ASSUME NEW m \in dbT' PROVE msgs'[m] = f[m] /\ (m # k => m \in dbT)
    <3>1. msgs'[m] = f[m]
      <4> HIDE DEF f
      <4> QED  BY <1>1, <2>1
    <3> QED  BY <1>2, <1>3, <3>1
  <2>3. NewControlMessage(kind, stall).kind = kind
    BY DEF NewControlMessage
  <2> HIDE DEF k
  <2> QED  BY <1>3, <2>2, <2>3
<1>9. dropped \in SUBSET {m \in DOMAIN Owed \ {Offered} : Owed[m] \in UpdateKinds}
  BY <1>2, <1>5, <1>7 DEF Owed
<1>10. CASE NT = {}
  <2>1. dbT' = dbT \ dropped
    BY <1>2, <1>10
  <2>2. Owed' = [m \in DOMAIN Owed \ dropped |-> Owed[m]]
    <3> HIDE DEF dropped, k
    <3> QED  BY <1>3, <1>8, <2>1 DEF Owed, Kind
  <2> HIDE DEF dropped
  <2> QED  BY <1>1, <1>7, <1>9, <2>2
           DEF Delivery!Accept, Delivery!Without, Owed, Offered
<1>11. CASE NT # {}
  <2>1. NT = {k} /\ kind \in TransactionKinds
    BY <1>11 DEF NewTransactions
  <2>2. dbT' = (dbT \ dropped) \cup {k}
    BY <1>2, <1>3, <2>1
  <2>3. Owed' = [m \in (DOMAIN Owed \ dropped) \cup {k} |-> IF m = k THEN kind ELSE Owed[m]]
    <3> HIDE DEF dropped, k
    <3> QED  BY <1>3, <1>8, <2>2 DEF Owed, Kind
  <2>4. \E d \in SUBSET {m \in DOMAIN Owed \ {Offered} : Owed[m] \in UpdateKinds} :
           \E c \in TransactionKinds :
              Owed' = [m \in DOMAIN [x \in DOMAIN Owed \ d |-> Owed[x]] \cup {k} |->
                          IF m = k THEN c ELSE Owed[m]]
    <3> HIDE DEF dropped, k
    <3> QED  BY <1>9, <2>1, <2>3
  <2> HIDE DEF dropped
  <2> QED  BY <1>1, <1>7, <2>4
           DEF Delivery!Accept, Delivery!Without, Owed, Offered
<1> QED  BY <1>10, <1>11

\* A restart keeps every row but the security events it is told to ignore.
LEMMA RestartRefines ==
    ASSUME IndInv, Restart
    PROVE  Delivery!Restart
<1> DEFINE ignored == IF IgnoreSecurityEvents
                      THEN {m \in dbT : Kind(m) \in SecurityKinds} ELSE {}
           skip == {m \in DOMAIN Owed :
                       Owed[m] \in IF IgnoreSecurityEvents THEN SecurityKinds ELSE {}}
<1>1. /\ dbT' = dbT \ ignored /\ inFlight' = None /\ pushed' = pushed
      /\ msgs' = [m \in (dbT \ ignored) \cup dbN |-> FromRow(msgs[m])]
  BY DEF Restart
<1>2. skip = ignored
  BY DEF Owed
<1>3. \A m \in dbT : FromRow(msgs[m]).kind = msgs[m].kind
  BY Rows, ReadBack
<1>4. Owed' = [m \in DOMAIN Owed \ skip |-> Owed[m]]
  <2> HIDE DEF ignored, skip
  <2> QED  BY <1>1, <1>2, <1>3 DEF Owed, Kind
<1>5. Offered' = None
  BY <1>1 DEF Offered
<1> QED  BY <1>1, <1>4, <1>5 DEF Delivery!Restart, Delivery!Without, Owed, Offered

-----------------------------------------------------------------------------
(* Every step is a step of TransactionDelivery.                            *)

LEMMA WorkerRefines ==
    ASSUME IndInv, WorkerNext
    PROVE  [Delivery!Next]_(Delivery!vars)
<1>1. CASE WorkerSleeps
  BY <1>1, Frame DEF WorkerSleeps
<1>2. CASE WorkerSelect
  BY <1>2, Frame DEF WorkerSelect
<1> QED  BY <1>1, <1>2, WorkerSendRefines, WorkerSendFailsRefines DEF WorkerNext

LEMMA ReceiveRefines ==
    ASSUME IndInv, ReceiveNext
    PROVE  [Delivery!Next]_(Delivery!vars)
<1>1. ASSUME NEW c \in CsmsCalls, ReceiveCall(c) PROVE UNCHANGED Delivery!vars
  BY <1>1, Frame DEF ReceiveCall
<1>2. CASE AnswerCall
  BY <1>2, Frame DEF AnswerCall
<1>3. ASSUME NEW id, NEW type, ReceiveAnswer(id, type) PROVE UNCHANGED Delivery!vars
  BY <1>3, Frame DEF ReceiveAnswer
<1>4. CASE IgnoreAnswer
  BY <1>4, Frame DEF IgnoreAnswer
<1>5. CASE ResolveTwice
  <2>1. UNCHANGED <<pushed, msgs, dbT, inFlight>> /\ ~up'
    BY <1>5 DEF ResolveTwice
  <2>2. Offered' = None
    BY <2>1 DEF Offered
  <2> QED  BY <2>1, <2>2, WithdrawRefines
<1>6. CASE HandleBootResponse
  BY <1>6, Frame DEF HandleBootResponse
<1>7. CASE NotifyStartTransactionHandled
  BY <1>7, Frame DEF NotifyStartTransactionHandled
<1>8. CASE CheckCallError
  BY <1>8, Frame DEF CheckCallError
<1>9. CASE HandleCallError
  BY <1>9, HandleTimeoutRefines DEF HandleCallError
<1> QED  BY <1>1, <1>2, <1>3, <1>4, <1>5, <1>6, <1>7, <1>8, <1>9,
            HandleCallResultRefines DEF ReceiveNext

LEMMA TimerRefines ==
    ASSUME IndInv, TimerNext
    PROVE  [Delivery!Next]_(Delivery!vars)
<1>1. CASE TimeoutExpires
  BY <1>1, Frame DEF TimeoutExpires
<1>2. CASE TimeoutCallback
  BY <1>2, HandleTimeoutRefines DEF TimeoutCallback
<1>3. CASE WakeTimerExpires
  BY <1>3, Frame DEF WakeTimerExpires
<1>4. CASE ResumeTimerExpires
  BY <1>4, Frame DEF ResumeTimerExpires
<1>5. ASSUME NEW e \in resumeFired, ResumeNow(e) PROVE UNCHANGED Delivery!vars
  BY <1>5, Frame DEF ResumeNow
<1> QED  BY <1>1, <1>2, <1>3, <1>4, <1>5 DEF TimerNext

LEMMA ControlRefines ==
    ASSUME IndInv, ControlNext \/ Tick
    PROVE  [Delivery!Next]_(Delivery!vars)
<1>1. ASSUME NEW kind \in Kinds, NEW triggered, DispatchCall(kind, triggered)
      PROVE  Delivery!Accept
  <2>1. PICK stall \in BOOLEAN : PushCall(kind, stall)
    BY <1>1 DEF DispatchCall
  <2> QED  BY <2>1, PushCallRefines
<1>2. CASE Pause
  BY <1>2, Frame DEF Pause
<1>3. CASE Resume
  BY <1>3, Frame DEF Resume
<1>4. CASE Stop
  BY <1>4, Frame DEF Stop
<1>5. ASSUME NEW c, UpdateConfig(c) PROVE UNCHANGED Delivery!vars
  BY <1>5, Frame DEF UpdateConfig
<1>6. CASE Restart
  BY <1>6, RestartRefines DEF Delivery!Next
<1>7. CASE Tick
  BY <1>7, Frame DEF Tick
<1> QED  BY <1>1, <1>2, <1>3, <1>4, <1>5, <1>6, <1>7
         DEF ControlNext, Kinds, Delivery!Next

\* The queue implements TransactionDelivery: whatever its threads, timers and
\* restarts do, only the oldest transaction message is sent, every one is owed until
\* it is answered or its attempts are used up, and none is forgotten unsent but
\* updates at a full queue and security events at a restart that ignores them.
THEOREM ImplementsDelivery == Spec => DeliversTransactions
<1>1. ASSUME IndInv, [Next]_vars PROVE [Delivery!Next]_(Delivery!vars)
  <2>1. CASE UNCHANGED vars
    BY <1>1, <2>1, Frame DEF vars
  <2> QED  BY <1>1, <2>1, WorkerRefines, ReceiveRefines, TimerRefines, ControlRefines
           DEF Next
<1> QED  BY InitRefines, Inductive, <1>1, PTL DEF Spec, DeliversTransactions, Delivery!Spec

-----------------------------------------------------------------------------
(* Normal messages.                                                        *)

\* QueueAllMessages is set and no kind of normal message is exempt from it.
EverythingKept == QueueAll /\ Discard \subseteq TransactionKinds

\* A queue without duplicates stays so when a new message is added to an end.
LEMMA InjectiveEnds ==
    ASSUME NEW S, NEW s \in Seq(S), IsInjective(s), NEW e \in S, e \notin ToSet(s)
    PROVE  IsInjective(Append(s, e)) /\ IsInjective(Cons(e, s))
<1>1. DOMAIN s = 1..Len(s) /\ Len(s) \in Nat
  BY LenProperties
<1>2. \A i \in 1..Len(s) : s[i] # e
  BY <1>1 DEF ToSet
<1>3. \A i, j \in 1..Len(s) : s[i] = s[j] => i = j
  BY <1>1 DEF IsInjective
<1>4. IsInjective(Append(s, e))
  <2> DEFINE a == Append(s, e)
  <2>1. /\ a \in Seq(S) /\ Len(a) = Len(s) + 1
        /\ \A i \in 1..Len(s) : a[i] = s[i]
        /\ a[Len(s) + 1] = e
    BY AppendProperties
  <2>2. DOMAIN a = 1..Len(s) + 1
    BY <2>1, LenProperties
  <2>3. \A i \in 1..Len(s) + 1 : i \in 1..Len(s) \/ i = Len(s) + 1
    BY <1>1
  <2> HIDE DEF a
  <2> QED  BY <1>2, <1>3, <2>1, <2>2, <2>3 DEF IsInjective, a
<1>5. IsInjective(Cons(e, s))
  <2> DEFINE c == Cons(e, s)
  <2>1. /\ c \in Seq(S) /\ Len(c) = Len(s) + 1 /\ c[1] = e
        /\ \A i \in 1..Len(s) : c[i + 1] = s[i]
    BY ToSetCons
  <2>2. DOMAIN c = 1..Len(s) + 1
    BY <2>1, LenProperties
  <2>3. ASSUME NEW i \in 1..Len(s) + 1, i # 1
        PROVE  i - 1 \in 1..Len(s) /\ c[i] = s[i - 1]
    <3>1. i - 1 \in 1..Len(s) /\ (i - 1) + 1 = i
      BY <1>1, <2>3
    <3>2. c[(i - 1) + 1] = s[i - 1]
      BY <2>1, <3>1
    <3> QED  BY <3>1, <3>2
  <2> HIDE DEF c
  <2>4. ASSUME NEW i \in 1..Len(s) + 1, NEW j \in 1..Len(s) + 1, c[i] = c[j]
        PROVE  i = j
    <3>1. CASE i = 1 \/ j = 1
      BY <1>2, <2>1, <2>3, <2>4, <3>1
    <3>2. CASE i # 1 /\ j # 1
      <4>1. i - 1 = j - 1
        BY <1>3, <2>3, <2>4, <3>2
      <4> QED  BY <1>1, <4>1
    <3> QED  BY <3>1, <3>2
  <2> QED  BY <2>2, <2>4 DEF IsInjective, c
<1> QED  BY <1>4, <1>5

\* Cutting off the front of a queue without duplicates leaves what was not in it.
LEMMA InjectiveSuffix ==
    ASSUME NEW S, NEW s \in Seq(S), IsInjective(s), NEW k \in 0..Len(s)
    PROVE  /\ IsInjective(SubSeq(s, k + 1, Len(s)))
           /\ ToSet(SubSeq(s, k + 1, Len(s))) = ToSet(s) \ ToSet(SubSeq(s, 1, k))
<1> DEFINE p == SubSeq(s, 1, k)
           t == SubSeq(s, k + 1, Len(s))
<1>1. /\ Len(s) \in Nat /\ k \in Nat /\ k <= Len(s) /\ DOMAIN s = 1..Len(s)
      /\ \A i \in 1..Len(s) : s[i] \in S
  BY LenProperties, ElementOfSeq
<1>2. DOMAIN p = 1..k /\ \A i \in 1..k : p[i] = s[i]
  <2>1. \A i \in 1..k : s[i] \in S
    BY <1>1
  <2>2. /\ p \in Seq(S) /\ Len(p) = IF 1 <= k THEN k - 1 + 1 ELSE 0
        /\ \A i \in 1..k - 1 + 1 : p[i] = s[1 + i - 1]
    BY <1>1, <2>1, SubSeqProperties
  <2>3. Len(p) = k
    BY <1>1, <2>2
  <2>4. DOMAIN p = 1..k
    BY <2>2, <2>3, LenProperties
  <2> HIDE DEF p
  <2> QED  BY <1>1, <2>2, <2>4
<1>3. DOMAIN t = 1..Len(s) - k /\ \A i \in 1..Len(s) - k : t[i] = s[k + i]
  <2>1. \A i \in k + 1..Len(s) : s[i] \in S
    BY <1>1
  <2>2. /\ t \in Seq(S)
        /\ Len(t) = IF k + 1 <= Len(s) THEN Len(s) - (k + 1) + 1 ELSE 0
        /\ \A i \in 1..Len(s) - (k + 1) + 1 : t[i] = s[k + 1 + i - 1]
    BY <1>1, <2>1, SubSeqProperties
  <2> HIDE DEF t
  <2>3. Len(t) = Len(s) - k
    <3>1. CASE k + 1 <= Len(s)
      <4>1. Len(t) = Len(s) - (k + 1) + 1
        BY <2>2, <3>1
      <4> QED  BY <1>1, <4>1
    <3>2. CASE ~(k + 1 <= Len(s))
      <4>1. Len(t) = 0
        BY <2>2, <3>2
      <4>2. \A l \in Nat : k <= l /\ ~(k + 1 <= l) => 0 = l - k
        BY <1>1
      <4> QED  BY <1>1, <3>2, <4>1, <4>2
    <3> QED  BY <3>1, <3>2
  <2>4. DOMAIN t = 1..Len(s) - k
    BY <2>2, <2>3, LenProperties
  <2>5. ASSUME NEW i \in 1..Len(s) - k PROVE t[i] = s[k + i]
    <3>1. i \in 1..Len(s) - (k + 1) + 1 /\ k + 1 + i - 1 = k + i
      BY <1>1
    <3>2. t[i] = s[k + 1 + i - 1]
      BY <2>2, <3>1
    <3> QED  BY <3>1, <3>2
  <2> QED  BY <2>4, <2>5
<1> HIDE DEF p, t
<1>4. \A i \in 1..Len(s) - k : k + i \in 1..Len(s) /\ k + i \notin 1..k
  BY <1>1
<1>5. \A i, j \in 1..Len(s) : s[i] = s[j] => i = j
  BY <1>1 DEF IsInjective
<1>6. IsInjective(t)
  <2>1. ASSUME NEW i \in 1..Len(s) - k, NEW j \in 1..Len(s) - k, t[i] = t[j]
        PROVE  i = j
    <3>1. k + i = k + j
      BY <1>3, <1>4, <1>5, <2>1
    <3> QED  BY <1>1, <3>1
  <2> QED  BY <1>3, <2>1 DEF IsInjective
<1>7. ToSet(t) \subseteq ToSet(s) \ ToSet(p)
  <2>1. ASSUME NEW i \in 1..Len(s) - k, NEW j \in 1..k, t[i] = p[j] PROVE FALSE
    <3>1. j \in 1..Len(s)
      BY <1>1
    <3> QED  BY <1>2, <1>3, <1>4, <1>5, <2>1, <3>1
  <2>2. ToSet(t) \subseteq ToSet(s)
    BY <1>1, <1>3, <1>4 DEF ToSet
  <2>3. ToSet(t) \cap ToSet(p) = {}
    BY <1>2, <1>3, <2>1 DEF ToSet
  <2> QED  BY <2>2, <2>3
<1>8. ToSet(s) \ ToSet(p) \subseteq ToSet(t)
  <2>1. ASSUME NEW i \in 1..Len(s), i \notin 1..k PROVE s[i] \in ToSet(t)
    <3>1. i - k \in 1..Len(s) - k /\ k + (i - k) = i
      BY <1>1, <2>1
    <3> QED  BY <1>3, <3>1 DEF ToSet
  <2> QED  BY <1>1, <1>2, <2>1 DEF ToSet
<1> QED  BY <1>6, <1>7, <1>8 DEF p, t

\* Erasing a message from a queue without duplicates leaves the others.
LEMMA InjectiveRemoveAt ==
    ASSUME NEW S, NEW s \in Seq(S), IsInjective(s), NEW k \in DOMAIN s
    PROVE  /\ IsInjective(RemoveAt(s, k))
           /\ ToSet(RemoveAt(s, k)) = ToSet(s) \ {s[k]}
<1> DEFINE r == RemoveAt(s, k)
<1>1. Len(s) \in Nat /\ DOMAIN s = 1..Len(s) /\ k \in 1..Len(s)
  BY LenProperties
<1>2. /\ r \in Seq(S) /\ ToSet(r) \cup {s[k]} = ToSet(s) /\ Len(r) = Len(s) - 1
      /\ \A i \in 1..Len(s) - 1 : r[i] = IF i <= k - 1 THEN s[i] ELSE s[i + 1]
  BY ToSetRemoveAt
<1>3. DOMAIN r = 1..Len(s) - 1
  BY <1>2, LenProperties
<1> HIDE DEF r
<1> DEFINE at(i) == IF i <= k - 1 THEN i ELSE i + 1
<1>4. \A i \in 1..Len(s) - 1 : at(i) \in 1..Len(s) /\ at(i) # k /\ r[i] = s[at(i)]
  BY <1>1, <1>2
<1>5. \A i, j \in 1..Len(s) - 1 : at(i) = at(j) => i = j
  BY <1>1
<1>6. \A i, j \in 1..Len(s) : s[i] = s[j] => i = j
  BY <1>1 DEF IsInjective
<1> HIDE DEF at
<1>7. IsInjective(r)
  BY <1>3, <1>4, <1>5, <1>6 DEF IsInjective
<1>8. s[k] \notin ToSet(r)
  BY <1>1, <1>3, <1>4, <1>6 DEF ToSet
<1> QED  BY <1>2, <1>7, <1>8 DEF r

\* A normal message that is kept has its row exactly as long as it is queued or in
\* flight, is there once, and its promise is open.
NormalInv ==
    up => /\ dbN = PendingNormal
          /\ IsInjective(nq)
          /\ inFlight \notin ToSet(nq)
          /\ PendingUnresolved

\* The messages are of known kinds, and all of them are kept.
LEMMA AllKept ==
    ASSUME IndInv, EverythingKept
    PROVE  \A m \in Live : /\ Kind(m) \in Kinds /\ Kept(m)
                           /\ ~Transactional(m) => CheckQueue(Kind(m))
BY DEF IndInv, Core, QueueTypeOK, ControlMessages, EverythingKept, Kept, CheckQueue,
       Transactional, Kind

\* Steps that touch neither the queues nor the messages.
LEMMA NormalFrame ==
    ASSUME NormalInv, up' => up, UNCHANGED <<msgs, tq, nq, inFlight, dbN>>
    PROVE  NormalInv'
BY DEF NormalInv, PendingNormal, PendingUnresolved, Pending, Transactional, Kind

\* What the worker sends moves from its queue into flight.
LEMMA WorkerSendNormal == ASSUME IndInv, NormalInv, WorkerSend PROVE NormalInv'
<1> DEFINE m == selected
<1>1. /\ up /\ inFlight = None /\ m \in ToSet(tq) \cup ToSet(nq)
      /\ m \in ToSet(tq) => m = Head(tq)
  BY DEF WorkerSend, IndInv, Core, SelectionStands
<1>2. /\ m \in Live /\ msgs \in [Live -> ControlMessages] /\ Live \subseteq Int
      /\ \A x \in ToSet(tq) : Transactional(x) /\ x \in Live
      /\ \A x \in ToSet(nq) : ~Transactional(x) /\ x \in Live
      /\ tq \in Seq(Msgs) /\ nq \in Seq(Msgs)
  BY <1>1 DEF IndInv, Core, QueueTypeOK, Live, Pending, Msgs
<1>3. m # None
  BY <1>2, NoneAssumption
<1>4. /\ inFlight' = m /\ dbN' = dbN /\ up' = up
      /\ msgs' = [msgs EXCEPT ![m].attempts = msgs[m].attempts + 1]
      /\ IF Transactional(m)
         THEN tq' = Tail(tq) /\ nq' = nq
         ELSE nq' = RemoveAt(nq, CHOOSE i \in DOMAIN nq : nq[i] = m) /\ tq' = tq
  BY DEF WorkerSend
<1>5. \A x \in Live : msgs'[x].kind = msgs[x].kind /\ msgs'[x].promise = msgs[x].promise
  <2>1. msgs[m] \in ControlMessages
    BY <1>2
  <2> DEFINE r == [msgs[m] EXCEPT !.attempts = msgs[m].attempts + 1]
  <2>2. r.kind = msgs[m].kind /\ r.promise = msgs[m].promise
    BY <2>1 DEF ControlMessages
  <2>3. msgs' = [msgs EXCEPT ![m] = r]
    BY <1>2, <1>4
  <2> HIDE DEF r
  <2> QED  BY <1>2, <2>2, <2>3
<1>6. /\ dbN = ToSet(nq) /\ IsInjective(nq)
      /\ \A x \in ToSet(tq) \cup ToSet(nq) : msgs[x].promise = "open"
  BY <1>1 DEF NormalInv, PendingNormal, PendingUnresolved, Pending
<1>7. CASE Transactional(m)
  <2>1. ToSet(tq') \subseteq ToSet(tq) /\ nq' = nq
    <3>1. m \in ToSet(tq) /\ tq # <<>>
      BY <1>1, <1>2, <1>7 DEF ToSet
    <3> QED  BY <1>2, <1>4, <1>7, <3>1, ToSetTail
  <2>2. PendingNormal' = ToSet(nq)
    BY <1>2, <1>3, <1>4, <1>5, <1>7, <2>1 DEF PendingNormal, Transactional, Kind
  <2>3. PendingUnresolved'
    BY <1>1, <1>2, <1>4, <1>5, <1>6, <2>1 DEF PendingUnresolved, Pending
  <2>4. inFlight' \notin ToSet(nq')
    BY <1>2, <1>4, <1>7, <2>1
  <2> QED  BY <1>4, <1>6, <2>1, <2>2, <2>3, <2>4 DEF NormalInv
<1>8. CASE ~Transactional(m)
  <2> DEFINE k == CHOOSE i \in DOMAIN nq : nq[i] = m
  <2>1. k \in DOMAIN nq /\ nq[k] = m
    BY <1>1, <1>2, <1>8 DEF ToSet
  <2>2. nq' = RemoveAt(nq, k) /\ tq' = tq
    BY <1>4, <1>8
  <2> HIDE DEF k
  <2>3. IsInjective(nq') /\ ToSet(nq') = ToSet(nq) \ {m}
    BY <1>2, <1>6, <2>1, <2>2, InjectiveRemoveAt
  <2>4. PendingNormal' = ToSet(nq)
    <3>1. m \in ToSet(nq)
      BY <2>1 DEF ToSet
    <3> QED  BY <1>2, <1>3, <1>4, <1>5, <1>8, <2>3, <3>1
             DEF PendingNormal, Transactional, Kind
  <2>5. PendingUnresolved'
    BY <1>1, <1>2, <1>4, <1>5, <1>6, <2>2, <2>3 DEF PendingUnresolved, Pending
  <2> QED  BY <1>4, <1>6, <2>3, <2>4, <2>5 DEF NormalInv
<1> QED  BY <1>7, <1>8

\* A send that fails leaves a message that is kept in its queue, unresolved.
LEMMA WorkerSendFailsNormal ==
    ASSUME IndInv, NormalInv, EverythingKept, WorkerSendFails PROVE NormalInv'
<1> DEFINE m == selected
<1>1. up /\ inFlight = None /\ m \in Live
  BY DEF WorkerSendFails, IndInv, Core, SelectionStands, Live, Pending
<1>2. Kept(m)
  BY <1>1, AllKept
<1> DEFINE f == [msgs EXCEPT ![m].attempts = msgs[m].attempts + 1,
                    ![m].promise = IF Kept(m) THEN msgs[m].promise ELSE "offline"]
           g == [msgs EXCEPT ![m].attempts = msgs[m].attempts + 1]
<1>3. /\ UNCHANGED <<tq, inFlight, dbN>> /\ nq' = nq
      /\ msgs' = [x \in Live' |-> f[x]]
  <2>1. UNCHANGED <<tq, inFlight, dbN>> /\ msgs' = [x \in Live' |-> f[x]]
    BY Zenon DEF WorkerSendFails, UpdateMessages
  <2>2. nq' = nq
    BY <1>2 DEF WorkerSendFails, NormalAfterFailure
  <2> QED  BY <2>1, <2>2
<1>4. msgs \in [Live -> ControlMessages]
  BY DEF IndInv, Core, QueueTypeOK
<1>5. /\ g \in [Live -> ControlMessages]
      /\ \A x \in Live : g[x].kind = msgs[x].kind /\ g[x].promise = msgs[x].promise
  <2> DEFINE r == [msgs[m] EXCEPT !.attempts = msgs[m].attempts + 1]
  <2>1. r \in ControlMessages /\ r.kind = msgs[m].kind /\ r.promise = msgs[m].promise
    BY <1>1, <1>4, UpdatedAttempts DEF ControlMessages
  <2>2. g = [msgs EXCEPT ![m] = r]
    BY <1>1, <1>4
  <2> HIDE DEF r, g
  <2> QED  BY <1>1, <1>4, <2>1, <2>2
<1>6. \A x \in Live : f[x].kind = msgs[x].kind /\ f[x].promise = msgs[x].promise
  <2>1. f = [g EXCEPT ![m].promise = msgs[m].promise]
    BY <1>2
  <2> HIDE DEF f, g
  <2> QED  BY <1>1, <1>4, <1>5, <2>1 DEF ControlMessages
<1> HIDE DEF f, g
<1>7. Pending' = Pending /\ Pending \subseteq Live /\ Pending \subseteq Live'
  BY <1>3 DEF Pending, Live
<1>8. \A x \in Pending : /\ msgs'[x].kind = msgs[x].kind
                         /\ msgs'[x].promise = msgs[x].promise
  BY <1>3, <1>6, <1>7
<1>9. PendingNormal' = PendingNormal
  BY <1>1, <1>3 DEF PendingNormal
<1>10. PendingUnresolved'
  BY <1>1, <1>7, <1>8 DEF PendingUnresolved, NormalInv
<1> QED  BY <1>1, <1>3, <1>9, <1>10 DEF NormalInv

\* The message in flight is done, and its row goes.
LEMMA DoneNormal ==
    ASSUME IndInv, NormalInv, up, inFlight # None, inFlight' = None,
           UNCHANGED <<tq, nq>>, dbN' = dbN \ {inFlight},
           NEW p, UpdateMessages([msgs EXCEPT ![inFlight].promise = p])
    PROVE  NormalInv'
<1> DEFINE f == [msgs EXCEPT ![inFlight].promise = p]
<1>1. msgs' = [x \in Live' |-> f[x]]
  BY Zenon DEF UpdateMessages
<1>2. inFlight \notin ToSet(tq) /\ inFlight \notin ToSet(nq)
  BY InFlightNotQueued DEF IndInv, NormalInv
<1>3. \A x \in ToSet(tq) \cup ToSet(nq) : x \in Live' /\ x \in DOMAIN msgs /\ f[x] = msgs[x]
  <2>1. DOMAIN msgs = Live /\ ToSet(tq) \cup ToSet(nq) \subseteq Live
    BY DEF IndInv, Core, QueueTypeOK, Live, Pending
  <2>2. ToSet(tq) \cup ToSet(nq) \subseteq Live'
    BY DEF Live, Pending
  <2> QED  BY <1>2, <2>1, <2>2
<1> HIDE DEF f
<1>4. \A x \in ToSet(tq) \cup ToSet(nq) : msgs'[x] = msgs[x]
  BY <1>1, <1>3
<1>5. PendingUnresolved'
  <2>1. Pending' = ToSet(tq) \cup ToSet(nq) /\ Pending' \subseteq Pending
    BY DEF Pending
  <2> QED  BY <1>4, <2>1 DEF NormalInv, PendingUnresolved
<1>6. PendingNormal' = ToSet(nq) /\ dbN' = ToSet(nq)
  BY <1>2 DEF PendingNormal, NormalInv
<1>7. None \notin ToSet(nq)
  <2>1. ToSet(nq) \subseteq Int
    BY DEF IndInv, Core, QueueTypeOK, Live, Pending, Msgs
  <2> QED  BY <2>1, NoneAssumption
<1> QED  BY <1>5, <1>6, <1>7 DEF NormalInv

\* The message in flight is queued again, under a new id.
LEMMA RequeueNormal ==
    ASSUME IndInv, NormalInv, up, inFlight # None, inFlight' = None, dbN' = dbN,
           IF Transactional(inFlight) THEN tq' = Cons(inFlight, tq) /\ UNCHANGED nq
                                      ELSE nq' = Cons(inFlight, nq) /\ UNCHANGED tq,
           NEW t, msgs' = UnderNewId(inFlight, t)
    PROVE  NormalInv'
<1> DEFINE m == inFlight
<1>1. /\ m \in Live /\ m \in Msgs /\ m \notin ToSet(nq)
      /\ msgs \in [Live -> ControlMessages]
      /\ tq \in Seq(Msgs) /\ nq \in Seq(Msgs) /\ Msgs \subseteq Int
  BY DEF IndInv, Core, QueueTypeOK, Live, Pending, Msgs, NormalInv
<1>2. \A x \in Live : msgs'[x].kind = msgs[x].kind /\ msgs'[x].promise = msgs[x].promise
  BY <1>1 DEF UnderNewId, ControlMessages
<1>3. /\ ToSet(Cons(m, tq)) = ToSet(tq) \cup {m}
      /\ ToSet(Cons(m, nq)) = ToSet(nq) \cup {m}
      /\ IsInjective(Cons(m, nq))
  <2>1. IsInjective(nq)
    BY DEF NormalInv
  <2>2. IsInjective(Cons(m, nq))
    BY <1>1, <2>1, InjectiveEnds
  <2>3. ToSet(Cons(m, tq)) = ToSet(tq) \cup {m}
    BY <1>1, ToSetCons
  <2>4. ToSet(Cons(m, nq)) = ToSet(nq) \cup {m}
    BY <1>1, ToSetCons
  <2> QED  BY <2>2, <2>3, <2>4
<1>4. Pending' = Pending
  BY <1>3 DEF Pending
<1>5. PendingUnresolved'
  <2>1. Pending \subseteq Live
    BY DEF Live
  <2> QED  BY <1>2, <1>4, <2>1 DEF PendingUnresolved, NormalInv
<1>6. PendingNormal' = PendingNormal /\ PendingNormal' = ToSet(nq')
  BY <1>3 DEF PendingNormal
<1>7. IsInjective(nq')
  BY <1>3 DEF NormalInv
<1>8. None \notin ToSet(nq')
  <2>1. ToSet(nq) \cup {m} \subseteq Int
    BY <1>1 DEF IndInv, Core, QueueTypeOK, Live, Pending
  <2> QED  BY <1>3, <2>1, NoneAssumption
<1> QED  BY <1>5, <1>6, <1>7, <1>8 DEF NormalInv

LEMMA HandleTimeoutNormal ==
    ASSUME IndInv, NormalInv, EverythingKept, LockFree, NEW answer, NEW fired,
           HandleTimeoutOrCallError(answer, fired)
    PROVE  NormalInv'
<1>1. up
  BY DEF LockFree
<1>2. CASE inFlight = None
  BY <1>2 DEF HandleTimeoutOrCallError, NormalInv
<1>3. CASE inFlight # None
  <2>1. inFlight \in Live /\ Kept(inFlight)
    BY <1>1, <1>3, AllKept DEF Live, Pending
  <2>2. inFlight' = None /\ (RetryKept(inFlight) \/ GiveUp(inFlight, answer))
    BY <1>3, <2>1 DEF HandleTimeoutOrCallError
  <2>3. CASE RetryKept(inFlight)
    <3> DEFINE due == IF config.interval > 0
                      THEN msgs[inFlight].timestamp
                              + config.interval * msgs[inFlight].attempts
                      ELSE now
    <3>1. /\ dbN' = dbN
          /\ IF Transactional(inFlight)
             THEN tq' = Cons(inFlight, tq) /\ UNCHANGED nq
             ELSE nq' = Cons(inFlight, nq) /\ UNCHANGED tq
      BY <2>3 DEF RetryKept
    <3>2. msgs' = UnderNewId(inFlight, AtMost(due))
      BY <2>3, Zenon DEF RetryKept, UnderNewId
    <3> HIDE DEF due
    <3> QED  BY <1>1, <1>3, <2>2, <3>1, <3>2, RequeueNormal
  <2>4. CASE GiveUp(inFlight, answer)
    <3>1. /\ UNCHANGED <<tq, nq>>
          /\ UpdateMessages([msgs EXCEPT ![inFlight].promise = answer])
      BY <2>4 DEF GiveUp
    <3>2. dbN' = dbN \ {inFlight}
      BY <2>4 DEF GiveUp, IndInv, Core, QueueTypeOK
    <3> QED  BY <1>1, <1>3, <2>2, <3>1, <3>2, DoneNormal
  <2> QED  BY <2>2, <2>3, <2>4
<1> QED  BY <1>2, <1>3

LEMMA HandleCallResultNormal ==
    ASSUME IndInv, NormalInv, EverythingKept, HandleCallResult PROVE NormalInv'
<1>1. /\ up /\ inFlight # None /\ inFlight' = None /\ UNCHANGED <<tq, nq>>
      /\ dbN' = IF CheckQueue(Kind(inFlight)) THEN dbN \ {inFlight} ELSE dbN
  BY DEF HandleCallResult, LockFree, Matches, ResetInFlight
<1>2. UpdateMessages([msgs EXCEPT ![inFlight].promise = "answered"])
  BY DEF HandleCallResult
<1>3. dbN' = dbN \ {inFlight}
  <2>1. inFlight \in Live
    BY <1>1 DEF Live, Pending
  <2>2. inFlight \in dbN => CheckQueue(Kind(inFlight))
    BY <2>1, AllKept DEF IndInv, Core, QueueTypeOK
  <2> QED  BY <1>1, <2>2
<1> QED  BY <1>1, <1>2, <1>3, DoneNormal

\* A push keeps the new message or drops the oldest normal messages with their rows.
LEMMA PushCallNormal ==
    ASSUME IndInv, NormalInv, EverythingKept,
           NEW kind \in Kinds, NEW stall \in BOOLEAN, PushCall(kind, stall)
    PROVE  NormalInv'
<1> DEFINE k == pushed + 1
           NN == NewNormals(kind)
           n == IF kind \in TransactionKinds THEN nq
                ELSE IF kind \in BootKinds THEN Cons(k, nq) ELSE Append(nq, k)
           f == [x \in DOMAIN msgs \cup {k} |->
                    IF x = k THEN NewControlMessage(kind, stall) ELSE msgs[x]]
<1>1. /\ up /\ inFlight' = inFlight /\ up' = up /\ msgs' = [x \in Live' |-> f[x]]
  BY DEF PushCall, LockFree, UpdateMessages
<1>2. /\ pushed \in Nat /\ Live \subseteq 1..pushed /\ k \notin Live /\ k \in 1..k
      /\ nq \in Seq(1..k) /\ tq \in Seq(1..k)
      /\ ToSet(nq) \subseteq Live /\ ToSet(tq) \subseteq Live /\ DOMAIN msgs = Live
      /\ inFlight # None => inFlight \in Live
  <2>1. /\ pushed \in Nat /\ Live \subseteq 1..pushed /\ k \notin Live /\ k \in 1..k
        /\ 1..pushed \subseteq 1..k
    BY DEF IndInv, Core, QueueTypeOK, Msgs
  <2>2. nq \in Seq(1..k) /\ tq \in Seq(1..k)
    BY <2>1, SeqMonotonic DEF IndInv, Core, QueueTypeOK, Msgs
  <2> QED  BY <2>1, <2>2 DEF IndInv, Core, QueueTypeOK, Live, Pending
<1>3. n \in Seq(1..k) /\ ToSet(n) = ToSet(nq) \cup NN /\ IsInjective(n)
  <2>1. k \notin ToSet(nq) /\ IsInjective(nq)
    BY <1>1, <1>2 DEF NormalInv
  <2> HIDE DEF k
  <2>2. CASE kind \in TransactionKinds
    BY <1>2, <2>1, <2>2 DEF NewNormals
  <2>3. CASE kind \notin TransactionKinds
    <3>1. NN = {k}
      BY <2>3 DEF NewNormals, k
    <3> HIDE DEF NN
    <3>2. CASE kind \in BootKinds
      <4>1. n = Cons(k, nq) /\ IsInjective(Cons(k, nq))
        BY <1>2, <2>1, <2>3, <3>2, InjectiveEnds
      <4>2. k \in 1..k /\ nq \in Seq(1..k)
        BY <1>2
      <4>3. Cons(k, nq) \in Seq(1..k) /\ ToSet(Cons(k, nq)) = ToSet(nq) \cup {k}
        <5>1. ASSUME NEW X, nq \in Seq(X), NEW e \in X
              PROVE  Cons(e, nq) \in Seq(X) /\ ToSet(Cons(e, nq)) = ToSet(nq) \cup {e}
          BY <5>1, ToSetCons
        <5> QED  BY <4>2, <5>1
      <4> QED  BY <3>1, <4>1, <4>3
    <3>3. CASE kind \notin BootKinds
      BY <1>2, <2>1, <2>3, <3>1, <3>3, ToSetAppend, InjectiveEnds
    <3> QED  BY <3>2, <3>3
  <2> QED  BY <2>2, <2>3
<1>4. PICK t \in Seq(1..k) :
         \E rowsT : CheckQueueSizes(t, n, rowsT, dbN \cup NN)
  <2>1. CASE kind \in TransactionKinds
    <3>1. CheckQueueSizes(Append(tq, k), n, dbT \cup {k}, dbN \cup NN)
      BY <2>1 DEF PushCall, AddToTransactionQueue, NewNormals
    <3>2. Append(tq, k) \in Seq(1..k)
      BY <1>2, ToSetAppend
    <3> QED  BY <3>1, <3>2
  <2>2. CASE kind \notin TransactionKinds
    <3>1. CheckQueue(kind)
      BY <2>2 DEF EverythingKept, CheckQueue
    <3>2. CheckQueueSizes(tq, n, dbT, dbN \cup NN)
      BY <2>2, <3>1 DEF PushCall, AddToNormalQueue, NewNormals
    <3> QED  BY <1>2, <3>2
  <2> QED  BY <2>1, <2>2
<1> HIDE DEF n, NN
<1> DEFINE cut == NormalDrops(Len(n), Len(t))
<1>5. cut \in 0..Len(n)
  <2>1. Len(n) \in Nat /\ Len(t) \in Nat
    BY <1>3, LenProperties
  <2> QED  BY <2>1, NormalDropsNat
<1>6. /\ nq' = SubSeq(n, cut + 1, Len(n))
      /\ dbN' = (dbN \cup NN) \ ToSet(SubSeq(n, 1, cut))
  BY <1>4, Zenon DEF CheckQueueSizes, EverythingKept
<1> HIDE DEF cut
<1>7. IsInjective(nq') /\ ToSet(nq') = ToSet(n) \ ToSet(SubSeq(n, 1, cut))
  BY <1>3, <1>5, <1>6, InjectiveSuffix
<1>8. ToSet(SubSeq(n, 1, cut)) \subseteq ToSet(n)
  <2>1. /\ Len(n) \in Nat /\ DOMAIN n = 1..Len(n) /\ \A i \in 1..Len(n) : n[i] \in 1..k
        /\ cut \in Nat /\ cut <= Len(n)
    <3>1. Len(n) \in Nat /\ DOMAIN n = 1..Len(n)
      BY <1>3, LenProperties
    <3>2. \A i \in 1..Len(n) : n[i] \in 1..k
      BY <1>3, ElementOfSeq
    <3> QED  BY <1>5, <3>1, <3>2
  <2>2. \A i \in 1..cut : i \in 1..Len(n) /\ n[i] \in 1..k
    BY <2>1
  <2> DEFINE p == SubSeq(n, 1, cut)
  <2>3. /\ p \in Seq(1..k) /\ Len(p) = IF 1 <= cut THEN cut - 1 + 1 ELSE 0
        /\ \A i \in 1..cut - 1 + 1 : p[i] = n[1 + i - 1]
    BY <2>1, <2>2, SubSeqProperties
  <2>4. DOMAIN p = 1..cut
    BY <2>1, <2>3, LenProperties
  <2> HIDE DEF p
  <2>5. \A i \in 1..cut : p[i] = n[i]
    BY <2>1, <2>3
  <2> QED  BY <2>1, <2>2, <2>4, <2>5 DEF ToSet, p
<1>9. /\ ToSet(tq') \subseteq ToSet(tq) \cup {k} /\ NN \subseteq {k}
      /\ ToSet(nq') \subseteq ToSet(nq) \cup {k}
  <2>1. NewTransactions(kind) \subseteq {k} /\ NN \subseteq {k}
    BY DEF NewTransactions, NewNormals, NN
  <2> QED  BY <1>3, <1>7, <2>1, PushCallQueues
<1>10. /\ \A x \in Live' \ {k} : x \in Live => msgs'[x] = msgs[x]
       /\ k \in Live' => msgs'[k].promise = "open"
  <2>1. NewControlMessage(kind, stall).promise = "open"
    BY DEF NewControlMessage
  <2> HIDE DEF k
  <2> QED  BY <1>1, <1>2, <2>1
<1> HIDE DEF k, f
<1>11. PendingUnresolved'
  <2>1. Pending' \subseteq Pending \cup {k} /\ Pending' \subseteq Live' /\ Pending \subseteq Live
    BY <1>1, <1>9 DEF Pending, Live
  <2> QED  BY <1>1, <1>10, <2>1 DEF PendingUnresolved, NormalInv
<1>12. inFlight # None => inFlight # k /\ inFlight \in Live'
  BY <1>1, <1>2 DEF Live, Pending
<1>13. inFlight # None => msgs'[inFlight] = msgs[inFlight]
  BY <1>2, <1>10, <1>12
<1>14. inFlight \notin ToSet(n)
  <2>1. inFlight \notin ToSet(nq)
    BY <1>1 DEF NormalInv
  <2>2. inFlight = None => inFlight \notin {k}
    BY <1>2, NoneAssumption
  <2> QED  BY <1>3, <1>9, <1>12, <2>1, <2>2
<1>15. dbN' = PendingNormal'
  <2>1. PendingNormal' = ToSet(nq') \cup {x \in {inFlight} \ {None} : ~Transactional(x)}
    BY <1>1, <1>13 DEF PendingNormal, Transactional, Kind
  <2>2. dbN = ToSet(nq) \cup {x \in {inFlight} \ {None} : ~Transactional(x)}
    BY <1>1 DEF NormalInv, PendingNormal
  <2> QED  BY <1>3, <1>6, <1>7, <1>8, <1>14, <2>1, <2>2
<1> QED  BY <1>1, <1>7, <1>11, <1>14, <1>15 DEF NormalInv

\* A restart reads the normal messages back from their table.
LEMMA RestartNormal ==
    ASSUME IndInv, EverythingKept, Restart PROVE NormalInv'
<1> DEFINE ignored == IF IgnoreSecurityEvents
                      THEN {m \in dbT : Kind(m) \in SecurityKinds} ELSE {}
           T == dbT \ ignored
<1>1. /\ dbN' = dbN /\ tq' \in InPushOrder(T) /\ nq' \in InPushOrder(dbN)
      /\ msgs' = [m \in T \cup dbN |-> FromRow(msgs[m])] /\ inFlight' = None
  BY DEF Restart, EverythingKept
<1>2. /\ pushed \in Nat /\ T \in SUBSET (1..pushed) /\ dbN \in SUBSET (1..pushed)
      /\ T \subseteq Live /\ dbN \subseteq Live
  BY DEF IndInv, Core, QueueTypeOK, Live, Msgs
<1> HIDE DEF T
<1>3. ToSet(tq') = T
  BY <1>1, <1>2, PushOrder
<1>4. /\ nq' \in Seq(dbN) /\ ToSet(nq') = dbN
      /\ \A i, j \in DOMAIN nq' : i < j => nq'[i] < nq'[j]
  BY <1>1, <1>2, PushOrder
<1>5. IsInjective(nq')
  <2>1. DOMAIN nq' = 1..Len(nq') /\ Len(nq') \in Nat
    BY <1>4, LenProperties
  <2>2. \A i \in DOMAIN nq' : nq'[i] \in Int
    <3>1. \A i \in 1..Len(nq') : nq'[i] \in dbN
      BY <1>4, ElementOfSeq
    <3>2. dbN \subseteq Int
      BY <1>2
    <3> QED  BY <2>1, <3>1, <3>2
  <2> QED  BY <1>4, <2>1, <2>2 DEF IsInjective
<1>6. PendingNormal' = dbN'
  BY <1>1, <1>4 DEF PendingNormal
<1>7. PendingUnresolved'
  <2>1. \A m \in T \cup dbN : msgs'[m].promise = "open"
    <3>1. \A m \in T \cup dbN : msgs[m] \in ControlMessages
      BY <1>2 DEF IndInv, Core, QueueTypeOK
    <3>2. \A m \in T \cup dbN : FromRow(msgs[m]).promise = "open"
      BY <3>1 DEF FromRow, ControlMessages
    <3> QED  BY <1>1, <3>2
  <2>2. Pending' = T \cup dbN
    BY <1>1, <1>3, <1>4 DEF Pending
  <2> QED  BY <2>1, <2>2 DEF PendingUnresolved
<1>8. inFlight' \notin ToSet(nq')
  <2>1. dbN \subseteq Int
    BY <1>2
  <2> QED  BY <1>1, <1>4, <2>1, NoneAssumption
<1> QED  BY <1>5, <1>6, <1>7, <1>8 DEF NormalInv

LEMMA NextNormalInv ==
    ASSUME IndInv, NormalInv, EverythingKept, [Next]_vars PROVE NormalInv'
<1>1. CASE WorkerNext
  <2>1. CASE WorkerSleeps \/ WorkerSelect
    BY <2>1, NormalFrame DEF WorkerSleeps, WorkerSelect
  <2> QED  BY <1>1, <2>1, WorkerSendNormal, WorkerSendFailsNormal DEF WorkerNext
<1>2. CASE ReceiveNext
  <2>1. CASE HandleCallResult \/ HandleCallError
    BY <2>1, HandleCallResultNormal, HandleTimeoutNormal DEF HandleCallError
  <2>2. CASE ~(HandleCallResult \/ HandleCallError)
    <3>1. UNCHANGED <<msgs, tq, nq, inFlight, dbN>> /\ up
      BY <1>2, <2>2 DEF ReceiveNext, ReceiveCall, AnswerCall, ReceiveAnswer,
         IgnoreAnswer, ResolveTwice, HandleBootResponse, CheckCallError,
         NotifyStartTransactionHandled, LockFree
    <3> QED  BY <3>1, NormalFrame
  <2> QED  BY <2>1, <2>2
<1>3. CASE TimerNext
  <2>1. CASE TimeoutCallback
    BY <2>1, HandleTimeoutNormal DEF TimeoutCallback
  <2>2. CASE ~TimeoutCallback
    <3>1. UNCHANGED <<msgs, tq, nq, inFlight, dbN, up>>
      BY <1>3, <2>2 DEF TimerNext, TimeoutExpires, WakeTimerExpires,
         ResumeTimerExpires, ResumeNow
    <3> QED  BY <3>1, NormalFrame
  <2> QED  BY <2>1, <2>2
<1>4. CASE ControlNext
  <2>1. ASSUME NEW kind \in Kinds, NEW triggered, DispatchCall(kind, triggered)
        PROVE  NormalInv'
    <3>1. PICK stall \in BOOLEAN : PushCall(kind, stall)
      BY <2>1 DEF DispatchCall
    <3> QED  BY <3>1, PushCallNormal
  <2>2. CASE Pause \/ Resume \/ Stop \/ \E c \in Configs : UpdateConfig(c)
    <3>1. UNCHANGED <<msgs, tq, nq, inFlight, dbN, up>>
      BY <2>2 DEF Pause, Resume, Stop, UpdateConfig
    <3> QED  BY <3>1, NormalFrame
  <2> QED  BY <1>4, <2>1, <2>2, RestartNormal DEF ControlNext, Kinds
<1>5. CASE Tick \/ UNCHANGED vars
  BY <1>5, NormalFrame DEF Tick, vars
<1> QED  BY <1>1, <1>2, <1>3, <1>4, <1>5 DEF Next

\* When every message is to be kept, normal messages are delivered with the same
\* care as transaction messages: each has its row while it is queued or in flight,
\* is there once, and is not resolved while it waits.
THEOREM NormalDelivered ==
    ASSUME EverythingKept
    PROVE  Spec => []NormalDelivery
<1>1. Init => NormalInv
  <2>1. ToSet(<<>>) = {}
    BY DEF ToSet
  <2> QED  BY <2>1 DEF Init, NormalInv, PendingNormal, PendingUnresolved, Pending, IsInjective
<1>2. IndInv /\ NormalInv /\ [Next]_vars => NormalInv'
  BY NextNormalInv
<1>3. IndInv /\ NormalInv => NormalDelivery
  <2>1. ASSUME IndInv, NormalInv, up PROVE dbN = {m \in PendingNormal : CheckQueue(Kind(m))}
    <3>1. PendingNormal \subseteq Live /\ \A m \in PendingNormal : ~Transactional(m)
      BY <2>1 DEF PendingNormal, Live, Pending, IndInv, Core, QueueTypeOK
    <3>2. \A m \in PendingNormal : CheckQueue(Kind(m))
      BY <2>1, <3>1, AllKept
    <3> QED  BY <2>1, <3>2 DEF NormalInv
  <2> QED  BY <2>1 DEF NormalDelivery, NormalPersisted, NormalOnce, NormalInv, PendingUnresolved
<1> QED  BY Inductive, <1>1, <1>2, <1>3, PTL DEF Spec

=============================================================================
