------------------------ MODULE Connectivity_proofs ------------------------
(***************************************************************************)
(* Proofs about Connectivity, for every list of slots, every security      *)
(* profile of theirs and every number of calls and failures.               *)
(***************************************************************************)
EXTENDS Connectivity, SequenceTheorems, FiniteSetTheorems, TLAPS

-----------------------------------------------------------------------------
(* The slots that check_cache_for_invalid_security_profiles keeps.         *)

\* Ranks: every one up to the size of a set is taken by exactly one member.
LEMMA NthCovers ==
    ASSUME NEW I, NEW n \in Nat, I \subseteq 0..n
    PROVE  /\ Cardinality(I) \in Nat /\ Cardinality(I) <= Cardinality(0..n)
           /\ \A k \in 1..Cardinality(I) : Nth(I, k) \in I
           /\ \A i \in I : \E k \in 1..Cardinality(I) : Nth(I, k) = i
<1> DEFINE B(i) == {j \in I : j <= i}
           r == [i \in I |-> Cardinality(B(i))]
           K == Cardinality(I)
<1>1. IsFiniteSet(I) /\ K \in Nat /\ K <= Cardinality(0..n)
  <2>1. IsFiniteSet(0..n)
    BY FS_Interval
  <2>2. IsFiniteSet(I) /\ K <= Cardinality(0..n)
    BY <2>1, FS_Subset
  <2> QED  BY <2>2, FS_CardinalityType
<1>2. \A i \in I : i \in Nat
  OBVIOUS
<1>3. ASSUME NEW i \in I PROVE r[i] \in 1..K /\ IsFiniteSet(B(i))
  <2>1. B(i) \in SUBSET I /\ i \in B(i)
    BY <1>2
  <2> HIDE DEF B
  <2>2. IsFiniteSet(B(i)) /\ Cardinality(B(i)) \in Nat /\ Cardinality(B(i)) <= K
    BY <1>1, <2>1, FS_Subset, FS_CardinalityType
  <2>3. Cardinality(B(i)) # 0
    BY <2>1, <2>2, FS_EmptySet
  <2> QED  BY <1>1, <2>2, <2>3
<1>4. ASSUME NEW i \in I, NEW j \in I, i < j PROVE r[i] < r[j]
  <2>1. B(i) \in SUBSET B(j) /\ j \in B(j) /\ j \notin B(i)
    <3>1. \A x \in I : x <= i => x <= j
      BY <1>2, <1>4
    <3>2. j <= j /\ ~(j <= i)
      BY <1>2, <1>4
    <3> QED  BY <3>1, <3>2
  <2>2. r[i] = Cardinality(B(i)) /\ r[j] = Cardinality(B(j)) /\ r[i] \in 1..K /\ r[j] \in 1..K
    BY <1>3
  <2>3. IsFiniteSet(B(j))
    BY <1>3
  <2> HIDE DEF B, r
  <2>4. r[i] <= r[j] /\ (r[i] = r[j] => B(i) = B(j))
    BY <2>1, <2>2, <2>3, FS_Subset
  <2> QED  BY <1>1, <2>1, <2>2, <2>4
<1> HIDE DEF r, B, K
<1>5. r \in Injection(I, 1..K)
  <2>1. r \in [I -> 1..K]
    BY <1>3 DEF r
  <2>2. \A i, j \in I : r[i] = r[j] => i = j
    BY <1>1, <1>2, <1>3, <1>4
  <2> QED  BY <2>1, <2>2 DEF Injection, IsInjective
<1>6. IsFiniteSet(1..K) /\ Cardinality(1..K) = K
  BY <1>1, FS_Interval
<1>7. \A k \in 1..K : \E i \in I : r[i] = k
  <2>1. r \in Surjection(I, 1..K)
    BY <1>5, <1>6, FS_Injection DEF K
  <2> QED  BY <2>1 DEF Surjection
<1>8. \A k \in 1..K : Nth(I, k) \in I /\ r[Nth(I, k)] = k
  <2> SUFFICES ASSUME NEW k \in 1..K PROVE Nth(I, k) \in I /\ r[Nth(I, k)] = k
    OBVIOUS
  <2>1. \E i \in I : Cardinality({j \in I : j <= i}) = k
    BY <1>7 DEF r, B
  <2>2. Nth(I, k) \in I /\ Cardinality({j \in I : j <= Nth(I, k)}) = k
    BY <2>1 DEF Nth
  <2> QED  BY <2>2 DEF r, B
<1>9. \A i \in I : \E k \in 1..K : Nth(I, k) = i
  <2> SUFFICES ASSUME NEW i \in I PROVE Nth(I, r[i]) = i
    BY <1>3
  <2>1. r[i] \in 1..K
    BY <1>3
  <2>2. Nth(I, r[i]) \in I /\ r[Nth(I, r[i])] = r[i]
    BY <1>8, <2>1
  <2> QED  BY <1>5, <2>2 DEF Injection, IsInjective
<1> QED  BY <1>1, <1>8, <1>9 DEF K

\* The slots of a high enough profile are kept, and only those.
LEMMA AtLeastKeeps ==
    ASSUME NEW ss \in Seq(Slots), NEW lv \in 0..3
    PROVE  /\ AtLeast(ss, lv) \in Seq(Slots)
           /\ Len(AtLeast(ss, lv)) <= Len(ss)
           /\ ToSet(AtLeast(ss, lv)) = {s \in ToSet(ss) : Profile[s] >= lv}
<1> DEFINE I == {i \in DOMAIN ss : Profile[ss[i]] >= lv}
           K == Cardinality(I)
           f == AtLeast(ss, lv)
<1>1. /\ DOMAIN ss = 1..Len(ss) /\ Len(ss) \in Nat
      /\ \A i \in 1..Len(ss) : ss[i] \in Slots
  BY LenProperties, ElementOfSeq
<1>2. I \subseteq 1..Len(ss) /\ I \subseteq 0..Len(ss)
  BY <1>1
<1>3. {ss[i] : i \in I} = {s \in ToSet(ss) : Profile[s] >= lv}
  BY DEF ToSet
<1>4. f = ElementsAt(ss, I)
  BY DEF AtLeast
<1> HIDE DEF I
<1>5. /\ K \in Nat
      /\ \A k \in 1..K : Nth(I, k) \in I
      /\ \A i \in I : \E k \in 1..K : Nth(I, k) = i
  BY <1>1, <1>2, NthCovers
<1>6. K <= Len(ss)
  <2>1. IsFiniteSet(1..Len(ss)) /\ Cardinality(1..Len(ss)) = Len(ss)
    <3> DEFINE n == Len(ss)
    <3>1. n \in Nat
      BY <1>1
    <3> HIDE DEF n
    <3>2. IsFiniteSet(1..n) /\ Cardinality(1..n) = n
      BY <3>1, FS_Interval
    <3> QED  BY <3>2 DEF n
  <2> QED  BY <1>2, <2>1, FS_Subset
<1> HIDE DEF K
<1>7. f = [k \in 1..K |-> ss[Nth(I, k)]]
  BY <1>4 DEF ElementsAt, K
<1> HIDE DEF f
<1>8. \A k \in 1..K : f[k] = ss[Nth(I, k)] /\ f[k] \in Slots
  <2>1. \A k \in 1..K : Nth(I, k) \in 1..Len(ss)
    BY <1>2, <1>5
  <2> QED  BY <1>1, <1>7, <2>1
<1>9. f \in Seq(Slots) /\ Len(f) = K /\ DOMAIN f = 1..K
  <2>1. f \in [1..K -> Slots]
    BY <1>7, <1>8
  <2>2. f \in Seq(Slots)
    BY <1>5, <2>1, SeqDef
  <2> QED  BY <1>5, <2>1, <2>2, LenProperties
<1>10. ToSet(f) = {ss[i] : i \in I}
  <2>1. \A k \in 1..K : f[k] \in {ss[i] : i \in I}
    BY <1>5, <1>8
  <2>2. \A i \in I : \E k \in 1..K : f[k] = ss[i]
    BY <1>5, <1>8
  <2> QED  BY <1>9, <2>1, <2>2 DEF ToSet
<1> QED  BY <1>3, <1>6, <1>9, <1>10 DEF f

-----------------------------------------------------------------------------
(* The client thread and the two operations of the websocket.              *)

\* A thread that has not ended has the data of its connection.
HasData == client # "done" => conn # None

SocketInv == WebsocketTypeOK /\ HasData

\* What a thread changes of conn_data leaves it well formed.
LEMMA ConnectionUpdates ==
    ASSUME NEW c \in Connections
    PROVE  /\ \A st \in States : /\ [c EXCEPT !.state = st] \in Connections
                                 /\ [c EXCEPT !.state = st].state = st
                                 /\ [c EXCEPT !.state = st].stopRun = c.stopRun
           /\ \A st \in States, b \in BOOLEAN :
                 /\ [c EXCEPT !.state = st, !.heard = b] \in Connections
                 /\ [c EXCEPT !.state = st, !.heard = b].stopRun = c.stopRun
                 /\ [c EXCEPT !.state = st, !.stopRun = b] \in Connections
                 /\ [c EXCEPT !.state = st, !.stopRun = b].state = st
                 /\ [c EXCEPT !.state = st, !.stopRun = b].stopRun = b
           /\ \A b \in BOOLEAN : /\ [c EXCEPT !.running = b] \in Connections
                                 /\ [c EXCEPT !.running = b].state = c.state
                                 /\ [c EXCEPT !.running = b].stopRun = c.stopRun
           /\ c # None
           /\ c.state \in States /\ c.stopRun \in BOOLEAN
<1>1. c # None
  BY WebsocketAssumption
<1> QED  BY <1>1 DEF Connections

LEMMA NewConnectionType ==
    /\ NewConnection \in Connections
    /\ NewConnection # None
    /\ NewConnection.stopRun = FALSE
<1>1. PICK t \in BOOLEAN, f \in BOOLEAN : t = TRUE /\ f = FALSE
  OBVIOUS
<1>2. NewConnection = [state |-> "initialize", running |-> t, stopRun |-> f, heard |-> f]
  BY <1>1 DEF NewConnection
<1>3. NewConnection \in Connections
  BY <1>2 DEF Connections, States
<1>4. NewConnection.stopRun = f
  BY <1>2
<1> QED  BY <1>1, <1>3, <1>4, WebsocketAssumption

\* What the client thread defers is a callback.
LEMMA DeferredGrows ==
    ASSUME NEW d \in Seq(Callbacks), NEW k \in Callbacks
    PROVE  /\ Append(d, k) \in Seq(Callbacks)
           /\ Append(d, k) # <<>>
           /\ Len(d) \in Nat
           /\ Len(Append(d, k)) = Len(d) + 1
           /\ Append(d, k)[Len(Append(d, k))] = k
           /\ \A i \in 1..Len(d) : Append(d, k)[i] = d[i]
<1>1. /\ Append(d, k) \in Seq(Callbacks)
      /\ Len(Append(d, k)) = Len(d) + 1
      /\ \A i \in 1..Len(d) : Append(d, k)[i] = d[i]
      /\ Append(d, k)[Len(d) + 1] = k
  BY AppendProperties
<1>2. Len(d) \in Nat
  BY LenProperties
<1>3. Append(d, k) # <<>>
  BY <1>1, <1>2, EmptySeq
<1> QED  BY <1>1, <1>2, <1>3

\* The conjuncts of the type invariant that a step of the client thread or of
\* a caller can disturb, apart.
AttemptsOK ==
    /\ attempts \in Nat
    /\ MaxAttempts # -1 => attempts \in 1..(MaxAttempts + 1)

Places == {"done", "init", "service", "reset", "decide", "wait"}

\* The client thread keeps the data well formed: it counts an attempt only
\* while it may retry, and defers callbacks only.
LEMMA ClientKeepsType ==
    ASSUME SocketInv, ClientStep
    PROVE  SocketInv'
<1>1. /\ conn \in Connections \cup {None}
      /\ est \in BOOLEAN /\ connected \in BOOLEAN
      /\ AttemptsOK
      /\ deferred \in Seq(Callbacks)
      /\ failures \in 0..MaxFailures
      /\ options \in Slots \cup {None}
      /\ op \in [Callers -> {"idle", "close", "closing", "start", "starting"}]
  BY DEF SocketInv, WebsocketTypeOK, AttemptsOK
<1>2. conn \in Connections
  <2>1. client # "done"
    BY DEF ClientStep, ClientInit, ClientEstablished, ClientConnectionError, ClientPeerClose,
           ClientServiceEnds, ClientReset, ClientDecide, ClientWait
  <2> QED  BY <1>1, <2>1 DEF SocketInv, HasData
<1>3. /\ Append(deferred, "connected") \in Seq(Callbacks)
      /\ Append(deferred, "disconnected") \in Seq(Callbacks)
      /\ Append(deferred, "stopped") \in Seq(Callbacks)
  <2>1. {"connected", "disconnected", "stopped"} \subseteq Callbacks
    BY DEF Callbacks
  <2> QED  BY <1>1, <2>1, DeferredGrows
<1>4. /\ [conn EXCEPT !.state = "error"] \in Connections
      /\ [conn EXCEPT !.state = "reconnecting"] \in Connections
      /\ [conn EXCEPT !.state = "finalized"] \in Connections
      /\ [conn EXCEPT !.state = "connected", !.heard = TRUE] \in Connections
      /\ [conn EXCEPT !.state = "finalized", !.stopRun = TRUE] \in Connections
      /\ [conn EXCEPT !.state = "connecting", !.stopRun = FALSE] \in Connections
  <2>1. TRUE \in BOOLEAN /\ FALSE \in BOOLEAN  OBVIOUS
  <2>2. States = {"initialize", "connecting", "reconnecting", "connected", "error", "finalized"}
    BY DEF States
  <2> QED  BY <1>2, <2>1, <2>2, ConnectionUpdates
<1>6. 1 \in Nat /\ (MaxAttempts # -1 => 1 \in 1..(MaxAttempts + 1))
  BY WebsocketAssumption
<1>7. failures < MaxFailures => failures + 1 \in 0..MaxFailures
  BY <1>1, WebsocketAssumption
<1>8. options' = options /\ op' = op
  BY DEF ClientStep, ClientInit, ClientEstablished, ClientConnectionError, ClientPeerClose,
         ClientServiceEnds, ClientReset, ClientDecide, ClientWait, callerVars
<1>9. failures' \in 0..MaxFailures
  BY <1>1, <1>7 DEF ClientStep, ClientInit, ClientEstablished, ClientConnectionError,
     ClientPeerClose, ClientServiceEnds, ClientReset, ClientDecide, ClientWait, Failure
<1>10. client' \in Places /\ est' \in BOOLEAN
  BY <1>1 DEF ClientStep, ClientInit, ClientEstablished, ClientConnectionError,
     ClientPeerClose, ClientServiceEnds, ClientReset, ClientDecide, ClientWait, ClientExit, Places
<1>11. AttemptsOK'
  <2>1. CASE client = "decide" /\ ClientDecide
    <3>1. attempts' = attempts \/ (MayRetry /\ attempts' = attempts + 1)
      BY <2>1 DEF ClientDecide
    <3> QED  BY <1>1, <3>1, WebsocketAssumption DEF AttemptsOK, MayRetry
  <2>2. CASE ~ClientDecide
    <3>1. attempts' = attempts \/ attempts' = 1
      BY <2>2 DEF ClientStep, ClientInit, ClientEstablished, ClientConnectionError,
         ClientPeerClose, ClientServiceEnds, ClientReset, ClientWait, ClientClosed,
         OnConnConnected, OnConnFail, OnConnClose
    <3> QED  BY <1>1, <1>6, <3>1 DEF AttemptsOK
  <2> QED  BY <2>1, <2>2 DEF ClientDecide
<1>12. /\ connected' \in BOOLEAN
       /\ deferred' \in Seq(Callbacks)
       /\ conn' \in Connections
  <2>1. ASSUME ClientExit(conn) \/ ClientExit([conn EXCEPT !.state = "finalized"])
        PROVE  deferred' \in Seq(Callbacks) /\ conn' \in Connections
    BY <1>1, <1>2, <1>3, <1>4, <2>1 DEF ClientExit
  <2>2. ASSUME OnConnConnected \/ OnConnFail \/ OnConnClose
        PROVE  /\ connected' \in BOOLEAN
               /\ deferred' \in Seq(Callbacks)
               /\ conn' \in Connections
    BY <1>1, <1>2, <1>3, <1>4, <2>2 DEF OnConnConnected, OnConnFail, OnConnClose
  <2>3. CASE ClientInit
    BY <1>1, <1>2, <1>4, <2>2, <2>3 DEF ClientInit
  <2>4. CASE ClientEstablished  BY <2>2, <2>4 DEF ClientEstablished
  <2>5. CASE ClientConnectionError  BY <2>2, <2>5 DEF ClientConnectionError
  <2>6. CASE ClientPeerClose  BY <2>2, <2>6 DEF ClientPeerClose
  <2>7. CASE ClientServiceEnds
    BY <1>1, <1>2, <2>7 DEF ClientServiceEnds
  <2>8. CASE ClientReset
    BY <1>1, <1>2, <2>2, <2>8 DEF ClientReset, ClientClosed
  <2>9. CASE ClientDecide
    BY <1>1, <1>2, <1>4, <2>1, <2>9 DEF ClientDecide
  <2>10. CASE ClientWait
    BY <1>1, <1>2, <2>1, <2>10 DEF ClientWait
  <2> QED
    BY <2>3, <2>4, <2>5, <2>6, <2>7, <2>8, <2>9, <2>10 DEF ClientStep
<1> QED
  BY <1>1, <1>8, <1>9, <1>10, <1>11, <1>12, WebsocketAssumption
  DEF SocketInv, HasData, WebsocketTypeOK, AttemptsOK, Places

\* close() and start_connecting() do: a new connection comes with its data,
\* and data are reset only when the client thread has ended.
LEMMA CallerKeepsType ==
    ASSUME SocketInv, NEW c \in Callers, CallerStep(c)
    PROVE  SocketInv'
<1> DEFINE Ops == {"idle", "close", "closing", "start", "starting"}
<1>1. /\ conn \in Connections \cup {None}
      /\ client \in Places
      /\ est \in BOOLEAN /\ connected \in BOOLEAN
      /\ AttemptsOK
      /\ deferred \in Seq(Callbacks)
      /\ failures \in 0..MaxFailures
      /\ options \in Slots \cup {None}
      /\ op \in [Callers -> Ops]
  BY DEF SocketInv, WebsocketTypeOK, AttemptsOK, Places
<1>2. /\ est' = est /\ deferred' = deferred /\ failures' = failures /\ options' = options
      /\ connected' \in BOOLEAN
  BY <1>1 DEF CallerStep, Close, Closed, Start, Started, clientVars
<1>3. op' \in [Callers -> Ops]
  <2>1. PICK o \in Ops : op' = [op EXCEPT ![c] = o]
    BY DEF CallerStep, Close, Closed, Start, Started
  <2> QED  BY <1>1, <2>1
<1>4. /\ conn' \in Connections \cup {None} /\ client' \in Places
      /\ AttemptsOK' /\ HasData'
  <2>1. ASSUME Interrupt
        PROVE  /\ conn' \in Connections \cup {None}
               /\ conn # None => conn' # None
    <3>1. FALSE \in BOOLEAN  OBVIOUS
    <3>2. conn # None => [conn EXCEPT !.running = FALSE] \in Connections
      BY <1>1, <3>1, ConnectionUpdates
    <3> QED  BY <2>1, <3>2, WebsocketAssumption DEF Interrupt
  <2>2. CASE Close(c) \/ Start(c)
    <3>1. /\ conn' \in Connections \cup {None} /\ (conn # None => conn' # None)
          /\ client' = client /\ attempts' = attempts
      BY <1>1, <2>1, <2>2 DEF Close, Start, clientVars
    <3> QED  BY <1>1, <3>1 DEF SocketInv, HasData, AttemptsOK
  <2>3. CASE Closed(c)
    <3>1. conn' = None /\ client' = client /\ client = "done" /\ attempts' = attempts
      BY <2>3 DEF Closed, Joined, clientVars
    <3> QED  BY <1>1, <3>1 DEF HasData, AttemptsOK
  <2>4. CASE Started(c)
    <3>1. conn' = NewConnection /\ client' = "init" /\ attempts' = 1
      BY <2>4 DEF Started
    <3> QED  BY <3>1, NewConnectionType, WebsocketAssumption DEF HasData, AttemptsOK, Places
  <2> QED  BY <2>2, <2>3, <2>4 DEF CallerStep
<1> QED  BY <1>1, <1>2, <1>3, <1>4 DEF SocketInv, WebsocketTypeOK, AttemptsOK, Places

-----------------------------------------------------------------------------
(* Slots and priorities.                                                   *)

\* The next slot is one of the list, and a slot of the list has a priority.
LEMMA NextSlotOfList ==
    ASSUME NEW ss \in Seq(Slots), ss # <<>>, NEW s
    PROVE  NextSlot(ss, s) \in ToSet(ss) /\ NextSlot(ss, s) \in Slots
<1>1. /\ DOMAIN ss = 1..Len(ss) /\ Len(ss) \in Nat /\ Len(ss) # 0
      /\ \A i \in 1..Len(ss) : ss[i] \in Slots
  BY LenProperties, ElementOfSeq, EmptySeq
<1>2. PICK i \in 1..Len(ss) : NextSlot(ss, s) = ss[i]
  <2>1. CASE s \in ToSet(ss)
    <3>1. \E i \in DOMAIN ss : ss[i] = s
      BY <2>1 DEF ToSet
    <3>2. Priority(ss, s) \in 1..Len(ss)
      BY <1>1, <2>1, <3>1 DEF Priority
    <3> DEFINE p == Priority(ss, s)
               n == Len(ss)
    <3> HIDE DEF p, n
    <3>3. (p % n) + 1 \in 1..n
      BY <1>1, <3>2 DEF p, n
    <3> QED  BY <2>1, <3>3 DEF NextSlot, p, n
  <2>2. CASE s \notin ToSet(ss)
    BY <1>1, <2>2 DEF NextSlot
  <2> QED  BY <2>1, <2>2
<1> QED  BY <1>1, <1>2 DEF ToSet

LEMMA PriorityOfSlot ==
    ASSUME NEW ss \in Seq(Slots), NEW s
    PROVE  /\ Priority(ss, s) # None => s \in ToSet(ss)
           /\ s \in ToSet(ss) => /\ Priority(ss, s) \in DOMAIN ss
                                 /\ ss[Priority(ss, s)] = s
                                 /\ Priority(ss, s) # None
<1>1. ASSUME s \in ToSet(ss)
      PROVE  /\ Priority(ss, s) \in DOMAIN ss
             /\ ss[Priority(ss, s)] = s
  <2>1. \E i \in DOMAIN ss : ss[i] = s
    BY <1>1 DEF ToSet
  <2> QED  BY <1>1, <2>1 DEF Priority
<1>2. DOMAIN ss \subseteq Nat
  BY LenProperties
<1> QED  BY <1>1, <1>2, SlotsAssumption DEF Priority

\* A slot that the station's level allows is always left.
LevelHeld == \E s \in ToSet(slots) : Profile[s] >= level

SlotsOK ==
    /\ slots \in Seq(Slots)
    /\ Len(slots) <= Len(Priorities)
    /\ lastLevel \in 0..3
    /\ pending \in Slots \cup {None}

LEMMA ActiveIsSlot ==
    ASSUME NEW ss \in Seq(Slots), NEW i \in DOMAIN ss
    PROVE  ss[i] \in ToSet(ss) /\ ss[i] \in Slots
BY LenProperties, ElementOfSeq DEF ToSet

\* check_cache_for_invalid_security_profiles drops slots only when the level
\* has changed, and then keeps a slot of the list pending.
LEMMA CheckCacheResult ==
    ASSUME SlotsOK, NEW lv \in 0..3, NEW pend \in Slots \cup {None},
           ActiveInRange(slots), CheckCache(lv, pend),
           \E s \in ToSet(slots) : Profile[s] >= lv
    PROVE  /\ SlotsOK'
           /\ lastLevel' = lv
           /\ \E s \in ToSet(slots') : Profile[s] >= lv
           /\ lastLevel = lv => slots' = slots /\ pending' = pend
           /\ lastLevel # lv => /\ slots' = AtLeast(slots, lv)
                                /\ ToSet(slots') = {s \in ToSet(slots) : Profile[s] >= lv}
                                /\ pending' \in ToSet(slots')
<1>1. CASE lastLevel = lv
  BY <1>1 DEF SlotsOK, CheckCache
<1>2. CASE lastLevel # lv
  <2> DEFINE kept == AtLeast(slots, lv)
             before == IF pend # None THEN pend ELSE ActiveSlot
  <2>1. /\ lastLevel' = lv
        /\ slots' = kept
        /\ pending' = IF before \in ToSet(kept) THEN before ELSE NextSlot(kept, before)
    BY <1>2 DEF CheckCache
  <2>2. /\ kept \in Seq(Slots)
        /\ Len(kept) <= Len(slots)
        /\ ToSet(kept) = {s \in ToSet(slots) : Profile[s] >= lv}
    BY AtLeastKeeps DEF SlotsOK
  <2> HIDE DEF kept, before
  <2>3. PICK s \in ToSet(kept) : Profile[s] >= lv
    BY <2>2
  <2>4. kept # <<>>
    <3>1. PICK i \in DOMAIN kept : kept[i] = s
      BY DEF ToSet
    <3> QED  BY <2>2, <3>1, EmptySeq, LenProperties
  <2>5. NextSlot(kept, before) \in ToSet(kept)
    BY <2>2, <2>4, NextSlotOfList
  <2>6. pending' \in ToSet(kept)
    BY <2>1, <2>5
  <2>7. pending' \in Slots
    BY <2>2, <2>6, ElementOfSeq, LenProperties DEF ToSet
  <2>8. Len(kept) <= Len(Priorities)
    <3>1. Len(kept) \in Nat /\ Len(slots) \in Nat /\ Len(Priorities) \in Nat
      BY <2>2, SlotsAssumption, LenProperties DEF SlotsOK
    <3> QED  BY <2>2, <3>1 DEF SlotsOK
  <2> QED  BY <1>2, <2>1, <2>2, <2>3, <2>6, <2>7, <2>8 DEF SlotsOK, kept
<1> QED  BY <1>1, <1>2

\* The active slot was out of range, before or after slots were dropped ...
Threw(c, tm) ==
    /\ ~(ActiveInRange(slots) /\ ActiveInRange(slots'))
    /\ Throw(c) /\ timer' = tm /\ trying' = trying

\* ... or c waits for the configuration of a slot of the list ...
Began(c, tm) ==
    /\ dead' = dead /\ timer' = tm
    /\ \E p \in DOMAIN slots' :
          trying' = [trying EXCEPT ![c] = [slot |-> slots'[p], priority |-> p]]

\* ... or the slot asked for is not one of them, and the timer goes on.
Left(c, tm) ==
    /\ dead' = dead /\ trying' = trying
    /\ pending' \notin ToSet(slots') /\ pending' # None
    /\ timer' = IF wants' THEN pending' ELSE tm

\* try_connect_websocket, up to the callback of the application, throws when
\* the active slot is out of range, begins an attempt with a slot of the list,
\* or leaves it to the timer.
LEMMA TryConnectResult ==
    ASSUME SlotsOK, level \in 0..3, LevelHeld,
           NEW c, NEW pend \in Slots \cup {None}, NEW tm,
           TryConnect(c, pend, tm)
    PROVE  /\ SlotsOK'
           /\ \E s \in ToSet(slots') : Profile[s] >= level
           /\ Threw(c, tm) \/ Began(c, tm) \/ Left(c, tm)
           /\ ActiveInRange(slots) => /\ CheckCache(level, pend)
                                      /\ lastLevel' = level
<1>1. CASE ~ActiveInRange(slots)
  BY <1>1 DEF TryConnect, SlotsOK, LevelHeld, Threw
<1>2. CASE ActiveInRange(slots)
  <2>1. CheckCache(level, pend)
    BY <1>2 DEF TryConnect
  <2>2. /\ SlotsOK'
        /\ lastLevel' = level
        /\ \E s \in ToSet(slots') : Profile[s] >= level
    BY <1>2, <2>1, CheckCacheResult DEF LevelHeld
  <2>3. CASE ~ActiveInRange(slots')
    BY <1>2, <2>1, <2>2, <2>3 DEF TryConnect, Threw
  <2>4. CASE ActiveInRange(slots')
    <3> DEFINE slot == IF pending' # None THEN pending' ELSE slots'[active]
               p == Priority(slots', slot)
    <3>1. /\ IF p # None
             THEN /\ trying' = [trying EXCEPT ![c] = [slot |-> slot, priority |-> p]]
                  /\ timer' = tm
             ELSE /\ timer' = IF wants' THEN slot ELSE tm
                  /\ UNCHANGED trying
          /\ UNCHANGED dead
      BY <1>2, <2>4 DEF TryConnect
    <3>2. slots' \in Seq(Slots)
      BY <2>2 DEF SlotsOK
    <3>3. slots'[active] \in ToSet(slots')
      BY <2>4, <3>2, ActiveIsSlot DEF ActiveInRange
    <3>4. /\ p # None => slot \in ToSet(slots')
          /\ slot \in ToSet(slots') => p \in DOMAIN slots' /\ slots'[p] = slot /\ p # None
      BY <3>2, PriorityOfSlot
    <3>5. CASE p # None
      <4>1. p \in DOMAIN slots' /\ slots'[p] = slot
        BY <3>4, <3>5
      <4>2. trying' = [trying EXCEPT ![c] = [slot |-> slots'[p], priority |-> p]]
        BY <3>1, <3>5, <4>1
      <4> HIDE DEF p
      <4> QED  BY <1>2, <2>1, <2>2, <2>4, <3>1, <3>5, <4>1, <4>2 DEF Began
    <3>6. CASE p = None
      <4>1. slot \notin ToSet(slots')
        BY <3>4, <3>6
      <4>2. pending' # None /\ slot = pending'
        BY <3>3, <4>1
      <4> HIDE DEF p, slot
      <4> QED  BY <1>2, <2>1, <2>2, <2>4, <3>1, <3>6, <4>1, <4>2 DEF Left
    <3> QED  BY <3>5, <3>6
  <2> QED  BY <2>3, <2>4
<1> QED  BY <1>1, <1>2

-----------------------------------------------------------------------------
(* Type correctness.                                                       *)

ManagerOK ==
    /\ SlotsOK
    /\ LevelHeld
    /\ wants \in BOOLEAN
    /\ active \in 1..Len(Priorities)
    /\ level \in 0..3
    /\ timer \in Slots \cup {NextOfActive, None}
    /\ trying \in [Callers -> Attempts \cup {None}]
    /\ deferredPc \in {"idle", "disconnected"}
    /\ requested \in Slots \cup {None}
    /\ online \in BOOLEAN
    /\ registered \in BOOLEAN
    /\ dead \in BOOLEAN
    /\ calls \in 0..MaxCalls

TypeInv == SocketInv /\ ManagerOK

\* A slot that the level allows: the list is not empty.
LEMMA SlotsLeft ==
    ASSUME NEW ss \in Seq(Slots), NEW s \in ToSet(ss)
    PROVE  ss # <<>> /\ Len(ss) \in Nat /\ Len(ss) >= 1 /\ 1 \in DOMAIN ss
<1>1. PICK i \in DOMAIN ss : ss[i] = s
  BY DEF ToSet
<1>2. DOMAIN ss = 1..Len(ss) /\ Len(ss) \in Nat
  BY LenProperties
<1> QED  BY <1>1, <1>2, EmptySeq

LEMMA TypeInvImplies == TypeInv => TypeOK
<1> SUFFICES ASSUME TypeInv PROVE TypeOK  OBVIOUS
<1>1. PICK s \in ToSet(slots) : Profile[s] >= level
  BY DEF TypeInv, ManagerOK, LevelHeld
<1>2. slots # <<>>
  BY SlotsLeft DEF TypeInv, ManagerOK, SlotsOK
<1> QED  BY <1>2 DEF TypeInv, SocketInv, ManagerOK, SlotsOK, TypeOK

LEMMA TypeInit == Init => TypeInv
<1> SUFFICES ASSUME Init PROVE TypeInv  OBVIOUS
<1>1. PICK i \in DOMAIN Priorities : Profile[Priorities[i]] >= InitialLevel
  BY SlotsAssumption
<1>2. /\ Priorities[i] \in ToSet(Priorities)
      /\ Priorities \in Seq(Slots)
  BY <1>1, SlotsAssumption DEF ToSet
<1>3. Len(Priorities) \in Nat /\ Len(Priorities) >= 1
  BY <1>2, SlotsLeft
<1>4. SocketInv
  <2>1. /\ conn = None /\ client = "done" /\ est = FALSE /\ connected = FALSE /\ attempts = 1
        /\ options = None /\ deferred = <<>> /\ op = [c \in Callers |-> "idle"] /\ failures = 0
    BY DEF Init, WebsocketInit
  <2>2. <<>> \in Seq(Callbacks)
    BY EmptySeq
  <2>3. op \in [Callers -> {"idle", "close", "closing", "start", "starting"}]
    BY <2>1
  <2>4. est \in BOOLEAN /\ connected \in BOOLEAN
    BY <2>1
  <2>5. attempts \in Nat /\ (MaxAttempts # -1 => attempts \in 1..(MaxAttempts + 1))
        /\ failures \in 0..MaxFailures
    BY <2>1, WebsocketAssumption
  <2> QED  BY <2>1, <2>2, <2>3, <2>4, <2>5 DEF SocketInv, HasData, WebsocketTypeOK
<1>5. SlotsOK /\ LevelHeld
  BY <1>1, <1>2, <1>3 DEF Init, SlotsOK, LevelHeld
<1>6. active \in 1..Len(Priorities)
  BY <1>3 DEF Init
<1>7. trying \in [Callers -> Attempts \cup {None}]
  BY DEF Init
<1>8. wants \in BOOLEAN /\ online \in BOOLEAN /\ registered \in BOOLEAN /\ dead \in BOOLEAN
  BY DEF Init
<1>9. level \in 0..3 /\ calls \in 0..MaxCalls
  BY SlotsAssumption, CallersAssumption DEF Init
<1>10. /\ timer = None /\ requested = None /\ deferredPc = "idle"
  BY DEF Init
<1> QED  BY <1>4, <1>5, <1>6, <1>7, <1>8, <1>9, <1>10 DEF TypeInv, ManagerOK

\* The manager changes few of the websocket's variables itself.
LEMMA SocketKept ==
    ASSUME SocketInv, conn' = conn, client' = client, est' = est, connected' = connected,
           attempts' = attempts,
           options' \in Slots \cup {None},
           deferred' \in Seq(Callbacks),
           op' \in [Callers -> {"idle", "close", "closing", "start", "starting"}],
           failures' \in 0..MaxFailures
    PROVE  SocketInv'
BY DEF SocketInv, HasData, WebsocketTypeOK

LEMMA AttemptType ==
    ASSUME TypeInv, NEW c \in Callers, SlotsOK', NEW p \in DOMAIN slots'
    PROVE  [trying EXCEPT ![c] = [slot |-> slots'[p], priority |-> p]]
               \in [Callers -> Attempts \cup {None}]
<1>1. slots'[p] \in Slots
  BY ActiveIsSlot DEF SlotsOK
<1>2. p \in 1..Len(Priorities)
  <2>1. /\ DOMAIN slots' = 1..Len(slots') /\ Len(slots') \in Nat
        /\ Len(slots') <= Len(Priorities) /\ Len(Priorities) \in Nat
    BY SlotsAssumption, LenProperties DEF SlotsOK
  <2> QED  BY <2>1
<1>3. [slot |-> slots'[p], priority |-> p] \in Attempts
  BY <1>1, <1>2 DEF Attempts
<1> QED  BY <1>3 DEF TypeInv, ManagerOK

\* What try_connect_websocket leaves is well formed.
LEMMA TryConnectType ==
    ASSUME TypeInv, NEW c \in Callers, NEW pend \in Slots \cup {None},
           NEW tm \in Slots \cup {NextOfActive, None},
           TryConnect(c, pend, tm), level' = level
    PROVE  /\ SlotsOK' /\ LevelHeld'
           /\ timer' \in Slots \cup {NextOfActive, None}
           /\ trying' \in [Callers -> Attempts \cup {None}]
           /\ dead' \in BOOLEAN
<1>1. /\ SlotsOK /\ level \in 0..3 /\ LevelHeld
      /\ trying \in [Callers -> Attempts \cup {None}]
      /\ dead \in BOOLEAN
  BY DEF TypeInv, ManagerOK
<1>2. /\ SlotsOK'
      /\ \E s \in ToSet(slots') : Profile[s] >= level
      /\ Threw(c, tm) \/ Began(c, tm) \/ Left(c, tm)
  BY <1>1, TryConnectResult
<1>3. LevelHeld'
  BY <1>2 DEF LevelHeld
<1>4. pending' \in Slots \cup {None}
  BY <1>2 DEF SlotsOK
<1>5. CASE Threw(c, tm)  BY <1>1, <1>2, <1>3, <1>5 DEF Threw, Throw
<1>6. CASE Began(c, tm)
  <2>1. PICK p \in DOMAIN slots' :
           trying' = [trying EXCEPT ![c] = [slot |-> slots'[p], priority |-> p]]
    BY <1>6 DEF Began
  <2>2. trying' \in [Callers -> Attempts \cup {None}]
    BY <1>2, <2>1, AttemptType
  <2> QED  BY <1>1, <1>2, <1>3, <1>6, <2>2 DEF Began
<1>7. CASE Left(c, tm)  BY <1>1, <1>2, <1>3, <1>4, <1>7 DEF Left
<1> QED  BY <1>2, <1>5, <1>6, <1>7

\* confirm_successful_connection raises the level to that of a slot it keeps.
LEMMA ConfirmType ==
    ASSUME TypeInv, ActiveInRange(slots), ConfirmSuccessfulConnection
    PROVE  SlotsOK' /\ LevelHeld' /\ level' \in 0..3
<1>1. SlotsOK /\ slots \in Seq(Slots) /\ pending \in Slots \cup {None}
  BY DEF TypeInv, ManagerOK, SlotsOK
<1>2. ActiveSlot \in ToSet(slots) /\ ActiveSlot \in Slots
  BY <1>1, ActiveIsSlot DEF ActiveInRange, ActiveSlot
<1>3. level' = Profile[ActiveSlot] /\ CheckCache(level', pending)
  BY DEF ConfirmSuccessfulConnection
<1>4. level' \in 0..3
  BY <1>2, <1>3, SlotsAssumption
<1>5. \E s \in ToSet(slots) : Profile[s] >= level'
  BY <1>2, <1>3, <1>4
<1>6. SlotsOK' /\ \E s \in ToSet(slots') : Profile[s] >= level'
  BY <1>1, <1>3, <1>4, <1>5, CheckCacheResult
<1> QED  BY <1>4, <1>6 DEF LevelHeld

Ops == {"idle", "close", "closing", "start", "starting"}

\* Every step keeps the data well formed: dropping slots leaves one that the
\* level allows, so neither a priority nor a pending slot is ever missing.
LEMMA TypeStep ==
    ASSUME TypeInv, [Next]_vars
    PROVE  TypeInv'
<1>1. /\ SocketInv /\ ManagerOK /\ SlotsOK /\ LevelHeld
      /\ slots \in Seq(Slots) /\ lastLevel \in 0..3 /\ pending \in Slots \cup {None}
  BY DEF TypeInv, ManagerOK, SlotsOK
<1>2. /\ wants \in BOOLEAN
      /\ active \in 1..Len(Priorities)
      /\ level \in 0..3
      /\ timer \in Slots \cup {NextOfActive, None}
      /\ trying \in [Callers -> Attempts \cup {None}]
      /\ deferredPc \in {"idle", "disconnected"}
      /\ requested \in Slots \cup {None}
      /\ online \in BOOLEAN
      /\ registered \in BOOLEAN
      /\ dead \in BOOLEAN
      /\ calls \in 0..MaxCalls
  BY DEF TypeInv, ManagerOK
<1>3. /\ options \in Slots \cup {None}
      /\ deferred \in Seq(Callbacks)
      /\ op \in [Callers -> Ops]
      /\ failures \in 0..MaxFailures
  BY DEF TypeInv, SocketInv, WebsocketTypeOK, Ops
<1>4. "app" \in Callers /\ "timer" \in Callers /\ "ping" \in Callers /\ Receiver \in Callers
  BY CallersAssumption
<1>5. ASSUME UNCHANGED <<slots, lastLevel, pending>>
      PROVE  SlotsOK'
  BY <1>1, <1>5 DEF SlotsOK
<1>6. ASSUME UNCHANGED <<slots, level>>
      PROVE  LevelHeld'
  BY <1>1, <1>6 DEF LevelHeld
<1>7. ASSUME UNCHANGED <<conn, client, est, connected, attempts>>,
             options' \in Slots \cup {None}, deferred' \in Seq(Callbacks),
             op' \in [Callers -> Ops], failures' \in 0..MaxFailures
      PROVE  SocketInv'
  BY <1>1, <1>7, SocketKept DEF Ops
<1>8. ASSUME UNCHANGED websocket PROVE SocketInv'
  BY <1>3, <1>7, <1>8 DEF websocket
<1>9. ASSUME UNCHANGED manager PROVE SlotsOK' /\ LevelHeld'
  BY <1>5, <1>6, <1>9 DEF manager
<1>10. calls < MaxCalls => calls + 1 \in 0..MaxCalls
  BY <1>2, CallersAssumption
<1>11. ASSUME NEW c \in Callers, Disconnects(c) PROVE op' \in [Callers -> Ops]
  <2>1. PICK o \in Ops : op' = [op EXCEPT ![c] = o]
    BY <1>11 DEF Disconnects, Ops
  <2> QED  BY <1>3, <2>1
<1>12. ASSUME UNCHANGED <<manager, station, dead, requested, calls>>, SocketInv'
       PROVE  TypeInv'
  BY <1>2, <1>9, <1>12 DEF TypeInv, ManagerOK, manager, station
<1>13. CASE UNCHANGED vars
  BY <1>8, <1>12, <1>13 DEF vars
<1>14. CASE WebsocketStep(ClientStep)
  BY <1>1, <1>12, <1>14, ClientKeepsType DEF WebsocketStep
<1>15. ASSUME NEW c \in Callers, WebsocketStep(CallerStep(c)) PROVE TypeInv'
  BY <1>1, <1>12, <1>15, CallerKeepsType DEF WebsocketStep
<1>16. ASSUME NEW c \in Callers, trying[c] # None
       PROVE  /\ trying[c].slot \in Slots /\ trying[c].priority \in 1..Len(Priorities)
              /\ [trying EXCEPT ![c] = None] \in [Callers -> Attempts \cup {None}]
  <2>1. trying[c] \in Attempts
    BY <1>2, <1>16
  <2> QED  BY <1>2, <2>1 DEF Attempts
<1>17. ASSUME NEW c \in Callers, Configured(c) PROVE TypeInv'
  <2>1. /\ trying[c] # None /\ trying' = [trying EXCEPT ![c] = None]
        /\ pending' = None /\ active' = trying[c].priority /\ options' = trying[c].slot
        /\ op' = [op EXCEPT ![c] = "start"]
        /\ UNCHANGED <<conn, connected, client, est, attempts, deferred, failures, wants, slots,
                       lastLevel, level, timer, deferredPc, online, registered, dead,
                       requested, calls>>
    BY <1>17 DEF Configured, clientVars, station
  <2>2. op' \in [Callers -> Ops]
    BY <1>3, <2>1 DEF Ops
  <2>3. SocketInv'
    BY <1>3, <1>7, <1>16, <2>1, <2>2
  <2>4. SlotsOK' /\ LevelHeld'
    BY <1>1, <1>6, <2>1 DEF SlotsOK
  <2> QED  BY <1>2, <1>16, <2>1, <2>3, <2>4 DEF TypeInv, ManagerOK
<1>18. ASSUME NEW c \in Callers, ConfigureFailed(c) PROVE TypeInv'
  <2>1. /\ trying[c] # None /\ trying' = [trying EXCEPT ![c] = None]
        /\ timer' = IF wants THEN trying[c].slot ELSE timer
        /\ failures < MaxFailures /\ failures' = failures + 1
        /\ UNCHANGED <<conn, client, est, connected, attempts, options, deferred, op, wants,
                       pending, active, slots, lastLevel, level, deferredPc, online, registered,
                       dead, requested, calls>>
    BY <1>18 DEF ConfigureFailed, Failure, station
  <2>2. failures' \in 0..MaxFailures
    BY <1>3, <2>1, WebsocketAssumption
  <2>3. SocketInv'
    BY <1>3, <1>7, <2>1, <2>2
  <2>4. SlotsOK' /\ LevelHeld'
    BY <1>5, <1>6, <2>1
  <2>5. timer' \in Slots \cup {NextOfActive, None}
    BY <1>2, <1>16, <2>1
  <2> QED  BY <1>2, <1>16, <2>1, <2>3, <2>4, <2>5 DEF TypeInv, ManagerOK
<1>19. CASE TimerFires
  <2>1. /\ UNCHANGED <<websocket, wants, active, level, deferredPc, online, registered, calls>>
        /\ requested' = None
    BY <1>19 DEF TimerFires, station
  <2>2. SocketInv'
    BY <1>8, <2>1
  <2>3. /\ SlotsOK' /\ LevelHeld'
        /\ timer' \in Slots \cup {NextOfActive, None}
        /\ trying' \in [Callers -> Attempts \cup {None}]
        /\ dead' \in BOOLEAN
    <3>1. CASE timer = NextOfActive /\ ~ActiveInRange(slots)
      <4>1. /\ Throw("timer") /\ timer' = None
            /\ UNCHANGED <<pending, slots, lastLevel, trying>>
        BY <1>19, <3>1 DEF TimerFires
      <4> QED  BY <1>2, <1>5, <1>6, <2>1, <4>1 DEF Throw
    <3>2. CASE ~(timer = NextOfActive /\ ~ActiveInRange(slots))
      <4> DEFINE pend == NextSlot(slots, IF timer = NextOfActive THEN ActiveSlot ELSE timer)
      <4>1. TryConnect("timer", pend, None)
        BY <1>19, <3>2 DEF TimerFires
      <4>2. pend \in Slots
        <5>1. PICK s \in ToSet(slots) : Profile[s] >= level
          BY <1>1 DEF LevelHeld
        <5>2. slots # <<>>
          BY <1>1, <5>1, SlotsLeft
        <5> QED  BY <1>1, <5>2, NextSlotOfList
      <4> HIDE DEF pend
      <4> QED  BY <1>4, <2>1, <4>1, <4>2, TryConnectType
    <3> QED  BY <3>1, <3>2
  <2> QED  BY <1>2, <2>1, <2>2, <2>3 DEF TypeInv, ManagerOK
<1>20. CASE RunCallback
  <2>1. /\ deferred # <<>> /\ deferred' = Tail(deferred)
        /\ UNCHANGED <<conn, client, est, connected, attempts, options, op, failures,
                       wants, active, trying, registered, requested, calls>>
    BY <1>20 DEF RunCallback
  <2>2. deferred' \in Seq(Callbacks)
    BY <1>3, <2>1, HeadTailProperties
  <2>3. SocketInv'
    BY <1>3, <1>7, <2>1, <2>2
  <2>4. /\ SlotsOK' /\ LevelHeld' /\ level' \in 0..3
        /\ timer' \in Slots \cup {NextOfActive, None}
        /\ deferredPc' \in {"idle", "disconnected"}
        /\ online' \in BOOLEAN /\ dead' \in BOOLEAN
    <3>1. CASE ~ActiveInRange(slots)
      <4>1. Throw("deferred") /\ UNCHANGED <<timer, deferredPc, online, level, slots, pending, lastLevel>>
        BY <1>20, <3>1 DEF RunCallback
      <4> QED  BY <1>2, <1>5, <1>6, <4>1 DEF Throw
    <3>2. CASE ActiveInRange(slots) /\ OnConnected
      <4>1. /\ online' = TRUE /\ UNCHANGED <<timer, deferredPc, dead>>
            /\ ConfirmSuccessfulConnection \/ UNCHANGED <<level, slots, pending, lastLevel>>
        BY <1>20, <3>2 DEF RunCallback, OnConnected
      <4>2. SlotsOK' /\ LevelHeld' /\ level' \in 0..3
        BY <1>2, <1>5, <1>6, <3>2, <4>1, ConfirmType
      <4> QED  BY <1>2, <4>1, <4>2
    <3>3. CASE ActiveInRange(slots) /\ OnDisconnected
      <4>1. /\ online' = FALSE
            /\ UNCHANGED <<timer, deferredPc, dead, level, slots, pending, lastLevel>>
        BY <1>20, <3>3 DEF RunCallback, OnDisconnected
      <4> QED  BY <1>2, <1>5, <1>6, <4>1
    <3>4. CASE ActiveInRange(slots) /\ OnStoppedConnecting
      <4>1. /\ timer' = IF wants THEN NextOfActive ELSE timer
            /\ deferredPc' = "disconnected"
            /\ UNCHANGED <<online, dead, level, slots, pending, lastLevel>>
        BY <1>20, <3>4 DEF RunCallback, OnStoppedConnecting
      <4> QED  BY <1>2, <1>5, <1>6, <4>1
    <3> QED  BY <1>20, <3>1, <3>2, <3>3, <3>4 DEF RunCallback
  <2> QED  BY <1>2, <2>1, <2>3, <2>4 DEF TypeInv, ManagerOK
<1>21. CASE RunDisconnected
  <2>1. /\ UNCHANGED <<websocket, manager, registered, requested, calls>>
        /\ deferredPc' = "idle"
        /\ \/ online' = FALSE /\ UNCHANGED dead
           \/ Throw("deferred") /\ UNCHANGED online
    BY <1>21 DEF RunDisconnected
  <2>2. online' \in BOOLEAN /\ dead' \in BOOLEAN
    BY <1>2, <2>1 DEF Throw
  <2> QED  BY <1>2, <1>8, <1>9, <2>1, <2>2 DEF TypeInv, ManagerOK, manager
<1>22. CASE BootAccepted
  <2>1. /\ registered' = TRUE
        /\ UNCHANGED <<websocket, wants, active, timer, trying, deferredPc, online, dead,
                       requested, calls>>
        /\ \/ ActiveInRange(slots) /\ ConfirmSuccessfulConnection
           \/ UNCHANGED <<level, slots, pending, lastLevel>>
    BY <1>22 DEF BootAccepted
  <2>2. SlotsOK' /\ LevelHeld' /\ level' \in 0..3
    BY <1>2, <1>5, <1>6, <2>1, ConfirmType
  <2>3. registered' \in BOOLEAN
    BY <2>1
  <2> QED  BY <1>2, <1>8, <2>1, <2>2, <2>3 DEF TypeInv, ManagerOK
<1>23. ASSUME NEW s \in Slots \cup {None}, Connect(s) PROVE TypeInv'
  <2> DEFINE slot == IF s = None THEN ActiveSlot ELSE s
  <2>1. /\ calls < MaxCalls /\ calls' = calls + 1 /\ wants' = TRUE
        /\ ActiveInRange(slots)
        /\ UNCHANGED <<conn, connected, options, client, est, attempts, deferred, failures,
                       active, level, deferredPc, online, registered>>
        /\ IF connected
           THEN /\ Disconnects("app")
                /\ pending' = slot
                /\ requested' = s
                /\ UNCHANGED <<slots, lastLevel, timer, trying, dead>>
           ELSE TryConnect("app", slot, timer) /\ requested' = None /\ UNCHANGED op
    BY <1>23 DEF Connect, Call, clientVars, station
  <2>2. slot \in Slots
    BY <1>1, <2>1, ActiveIsSlot DEF ActiveInRange, ActiveSlot
  <2> HIDE DEF slot
  <2>3. SocketInv'
    <3>1. op' \in [Callers -> Ops]
      BY <1>3, <1>4, <1>11, <2>1
    <3> QED  BY <1>3, <1>7, <2>1, <3>1
  <2>4. /\ SlotsOK' /\ LevelHeld'
        /\ timer' \in Slots \cup {NextOfActive, None}
        /\ trying' \in [Callers -> Attempts \cup {None}]
        /\ dead' \in BOOLEAN
        /\ requested' \in Slots \cup {None}
    <3>1. CASE connected
      BY <1>1, <1>2, <1>6, <2>1, <2>2, <3>1 DEF SlotsOK
    <3>2. CASE ~connected
      BY <1>2, <1>4, <2>1, <2>2, <3>2, TryConnectType
    <3> QED  BY <3>1, <3>2
  <2>5. wants' \in BOOLEAN /\ calls' \in 0..MaxCalls
    BY <1>10, <2>1
  <2> QED  BY <1>2, <2>1, <2>3, <2>4, <2>5 DEF TypeInv, ManagerOK
<1>24. CASE Disconnect
  <2>1. /\ calls < MaxCalls /\ calls' = calls + 1 /\ wants' = FALSE
        /\ timer' = None /\ requested' = None /\ Disconnects("app")
        /\ UNCHANGED <<conn, connected, options, client, est, attempts, deferred, failures, pending,
                       active, slots, lastLevel, level, trying, deferredPc, online, registered,
                       dead>>
    BY <1>24 DEF Disconnect, Call, clientVars, station
  <2>2. SocketInv'
    BY <1>3, <1>4, <1>7, <1>11, <2>1
  <2>3. SlotsOK' /\ LevelHeld'
    BY <1>5, <1>6, <2>1
  <2>4. wants' \in BOOLEAN /\ calls' \in 0..MaxCalls
    BY <1>10, <2>1
  <2> QED  BY <1>2, <2>1, <2>2, <2>3, <2>4 DEF TypeInv, ManagerOK
<1>25. ASSUME NEW c \in Callers, Closes(c), calls < MaxCalls, calls' = calls + 1
       PROVE  TypeInv'
  <2>1. /\ Disconnects(c)
        /\ UNCHANGED <<conn, connected, options, client, est, attempts, deferred, failures>>
        /\ UNCHANGED <<manager, station, dead, requested>>
    BY <1>25 DEF Closes, clientVars
  <2>2. SocketInv'
    BY <1>3, <1>7, <1>11, <2>1
  <2> QED  BY <1>2, <1>9, <1>10, <1>25, <2>1, <2>2 DEF TypeInv, ManagerOK, manager, station
<1>26. CASE NetworkDisconnected \/ CertificateChanged \/ PongTimeout
  BY <1>4, <1>25, <1>26 DEF NetworkDisconnected, CertificateChanged, PongTimeout, Call
<1> QED
  BY <1>13, <1>14, <1>15, <1>17, <1>18, <1>19, <1>20, <1>21, <1>22, <1>23, <1>24, <1>26
  DEF Next, ConfigureStep, DeferredStep

(* Type correctness of the manager and of its websocket for every list of  *)
(* slots: attempts stay within their limit, the priority in use is one of  *)
(* the configured ones, and no security level empties the list of slots.   *)
THEOREM TypeCorrect == Spec => []TypeOK
<1>1. Init => TypeInv
  BY TypeInit
<1>2. TypeInv /\ [Next]_vars => TypeInv'
  BY TypeStep
<1>3. TypeInv => TypeOK
  BY TypeInvImplies
<1> QED  BY <1>1, <1>2, <1>3, PTL DEF Spec

-----------------------------------------------------------------------------
(* What the charge point will believe once the callbacks that wait have    *)
(* run: the last of them decides.                                          *)

View ==
    IF deferred # <<>>
    THEN deferred[Len(deferred)] = "connected"
    ELSE deferredPc = "idle" /\ online

\* The inductive form of ViewConverges: every change of m_is_connected comes
\* with the callback that reports it, and a connection is only reported while
\* libwebsockets has one.
ViewInv ==
    /\ ~dead => (View <=> connected)
    /\ connected => est
    /\ est => client \in {"service", "reset"}

\* A callback that is deferred decides the view.
LEMMA ViewAfterAppend ==
    ASSUME deferred \in Seq(Callbacks), NEW k \in Callbacks, deferred' = Append(deferred, k)
    PROVE  View' <=> k = "connected"
BY DeferredGrows DEF View

LEMMA ClientKeepsView ==
    ASSUME TypeInv, ViewInv, ~dead, WebsocketStep(ClientStep)
    PROVE  ViewInv'
<1>1. /\ deferred \in Seq(Callbacks) /\ connected \in BOOLEAN
      /\ dead' = dead /\ deferredPc' = deferredPc /\ online' = online
      /\ ClientStep
  BY DEF TypeInv, SocketInv, WebsocketTypeOK, WebsocketStep, station
<1>2. /\ View <=> connected
      /\ connected => est
      /\ est => client \in {"service", "reset"}
  BY DEF ViewInv
<1>3. "connected" \in Callbacks /\ "disconnected" \in Callbacks /\ "stopped" \in Callbacks
  BY DEF Callbacks
<1>4. ASSUME UNCHANGED <<connected, deferred>> PROVE View' <=> connected'
  BY <1>1, <1>2, <1>4 DEF View
<1>5. ASSUME OnConnConnected PROVE (View' <=> connected') /\ connected' = TRUE
  BY <1>1, <1>3, <1>5, ViewAfterAppend DEF OnConnConnected
<1>6. ASSUME OnConnFail PROVE (View' <=> connected') /\ connected' = FALSE
  <2>1. CASE connected
    BY <1>1, <1>3, <1>6, <2>1, ViewAfterAppend DEF OnConnFail
  <2>2. CASE ~connected
    <3>1. deferred' = deferred /\ connected' = FALSE
      BY <1>6, <2>2 DEF OnConnFail
    <3>2. View' <=> View
      BY <1>1, <3>1 DEF View
    <3> QED  BY <1>2, <2>2, <3>1, <3>2
  <2> QED  BY <2>1, <2>2
<1>7. ASSUME OnConnClose PROVE (View' <=> connected') /\ connected' = FALSE
  BY <1>1, <1>3, <1>7, ViewAfterAppend DEF OnConnClose
<1>8. ASSUME NEW c, ClientExit(c), connected' = connected, ~connected
      PROVE  View' <=> connected'
  <2>1. CASE c.stopRun
    BY <1>4, <1>8, <2>1 DEF ClientExit
  <2>2. CASE ~c.stopRun
    BY <1>1, <1>3, <1>8, <2>2, ViewAfterAppend DEF ClientExit
  <2> QED  BY <2>1, <2>2
<1>9. CASE ClientInit
  <2>1. ~est /\ ~connected /\ est' = est
    BY <1>2, <1>9 DEF ClientInit
  <2>2. (View' <=> connected') /\ ~connected'
    BY <1>4, <1>6, <1>9, <2>1 DEF ClientInit
  <2> QED  BY <2>1, <2>2 DEF ViewInv
<1>10. CASE ClientEstablished
  BY <1>5, <1>10 DEF ClientEstablished, ViewInv
<1>11. CASE ClientConnectionError \/ ClientPeerClose
  BY <1>6, <1>11 DEF ClientConnectionError, ClientPeerClose, ViewInv
<1>12. CASE ClientServiceEnds
  BY <1>2, <1>4, <1>12 DEF ClientServiceEnds, ViewInv
<1>13. CASE ClientReset
  <2>1. CASE est
    BY <1>6, <1>7, <1>13, <2>1 DEF ClientReset, ClientClosed, ViewInv
  <2>2. CASE ~est
    BY <1>2, <1>4, <1>13, <2>2 DEF ClientReset, ViewInv
  <2> QED  BY <2>1, <2>2
<1>14. CASE ClientDecide
  <2>1. ~est /\ ~connected /\ est' = est /\ connected' = connected
    BY <1>2, <1>14 DEF ClientDecide
  <2>2. View' <=> connected'
    BY <1>4, <1>8, <1>14, <2>1 DEF ClientDecide
  <2> QED  BY <2>1, <2>2 DEF ViewInv
<1>15. CASE ClientWait
  <2>1. ~est /\ ~connected /\ est' = est /\ connected' = connected
    BY <1>2, <1>15 DEF ClientWait
  <2>2. View' <=> connected'
    BY <1>4, <1>8, <1>15, <2>1 DEF ClientWait
  <2> QED  BY <2>1, <2>2 DEF ViewInv
<1> QED
  BY <1>1, <1>9, <1>10, <1>11, <1>12, <1>13, <1>14, <1>15 DEF ClientStep

\* A callback that has run leaves the last one in charge, or was the last.
LEMMA CallbackKeepsView ==
    ASSUME TypeInv, ViewInv, ~dead, RunCallback
    PROVE  ViewInv'
<1>1. /\ deferred \in Seq(Callbacks) /\ deferred # <<>> /\ deferred' = Tail(deferred)
      /\ deferredPc = "idle"
      /\ UNCHANGED <<est, client, connected>>
  BY DEF TypeInv, SocketInv, WebsocketTypeOK, RunCallback
<1>2. /\ Tail(deferred) \in Seq(Callbacks) /\ Len(Tail(deferred)) = Len(deferred) - 1
      /\ \A i \in 1..Len(Tail(deferred)) : Tail(deferred)[i] = deferred[i + 1]
  BY <1>1, HeadTailProperties
<1>3. Len(deferred) \in Nat /\ Len(deferred) # 0 /\ deferred[1] = Head(deferred)
  BY <1>1, LenProperties, EmptySeq
<1>4. /\ View <=> deferred[Len(deferred)] = "connected"
      /\ View <=> connected
      /\ connected => est
      /\ est => client \in {"service", "reset"}
  BY <1>1 DEF View, ViewInv
<1>5. ASSUME ~dead' PROVE View' <=> View
  <2>1. CASE Tail(deferred) # <<>>
    <3>1. Len(Tail(deferred)) # 0 /\ Len(Tail(deferred)) \in Nat
      BY <1>2, <2>1, EmptySeq, LenProperties
    <3>2. Tail(deferred)[Len(Tail(deferred))] = deferred[Len(deferred)]
      BY <1>2, <1>3, <3>1
    <3> QED  BY <1>1, <1>4, <2>1, <3>2 DEF View
  <2>2. CASE Tail(deferred) = <<>>
    <3> DEFINE t == Tail(deferred)
               n == Len(deferred)
    <3>0. t = <<>> /\ Len(t) = n - 1 /\ n \in Nat
      BY <1>2, <1>3, <2>2
    <3> HIDE DEF t, n
    <3>1. n = 1
      BY <3>0
    <3>2. View <=> Head(deferred) = "connected"
      BY <1>3, <1>4, <3>1 DEF n
    <3>3. View' <=> deferredPc' = "idle" /\ online'
      BY <1>1, <2>2 DEF View
    <3>4. OnConnected \/ OnDisconnected \/ OnStoppedConnecting
      BY <1>5 DEF RunCallback, Throw
    <3> QED
      BY <1>1, <3>2, <3>3, <3>4 DEF OnConnected, OnDisconnected, OnStoppedConnecting
  <2> QED  BY <2>1, <2>2
<1> QED  BY <1>1, <1>4, <1>5 DEF ViewInv

LEMMA ViewStep ==
    ASSUME TypeInv, ViewInv, [Next]_vars
    PROVE  ViewInv'
<1>1. ASSUME UNCHANGED <<deferred, deferredPc, online, connected, est, client>>, ~dead \/ dead' = dead
      PROVE  ViewInv'
  <2>1. View' <=> View
    BY <1>1 DEF View
  <2> QED  BY <1>1, <2>1 DEF ViewInv
<1>2. CASE UNCHANGED vars
  BY <1>1, <1>2 DEF vars, websocket, station
<1> SUFFICES ASSUME ~dead, Next PROVE ViewInv'
  BY <1>2 DEF Next
<1>3. CASE WebsocketStep(ClientStep)
  BY <1>3, ClientKeepsView
<1>4. ASSUME NEW c \in Callers, WebsocketStep(CallerStep(c)) PROVE ViewInv'
  <2>1. CASE Close(c) \/ Start(c)
    BY <1>1, <1>4, <2>1 DEF WebsocketStep, Close, Start, clientVars, station
  <2>2. CASE Closed(c) \/ Started(c)
    <3>1. /\ client = "done"
          /\ UNCHANGED <<deferred, deferredPc, online, dead, est>>
          /\ connected' = FALSE \/ connected' = connected
      BY <1>4, <2>2 DEF WebsocketStep, Closed, Started, Joined, clientVars, station
    <3>2. ~est /\ ~connected /\ ~View
      BY <3>1 DEF ViewInv
    <3>3. View' <=> View
      BY <3>1 DEF View
    <3>4. ~connected' /\ ~est' /\ ~View'
      BY <3>1, <3>2, <3>3
    <3> QED  BY <3>4 DEF ViewInv
  <2> QED  BY <1>4, <2>1, <2>2 DEF WebsocketStep, CallerStep
<1>5. ASSUME NEW c \in Callers, ConfigureStep(c) PROVE ViewInv'
  BY <1>1, <1>5 DEF ConfigureStep, Configured, ConfigureFailed, clientVars, station
<1>6. CASE TimerFires
  BY <1>1, <1>6 DEF TimerFires, websocket, station
<1>7. CASE RunCallback
  BY <1>7, CallbackKeepsView
<1>8. CASE RunDisconnected
  <2>1. /\ deferredPc = "disconnected" /\ deferredPc' = "idle"
        /\ UNCHANGED <<deferred, connected, est, client>>
        /\ ~dead' => online' = FALSE
    BY <1>8 DEF RunDisconnected, websocket, Throw
  <2>2. ~dead' => (View' <=> View)
    BY <2>1 DEF View
  <2> QED  BY <2>1, <2>2 DEF ViewInv
<1>9. CASE BootAccepted
  BY <1>1, <1>9 DEF BootAccepted, websocket
<1>10. ASSUME NEW s \in Slots \cup {None}, Connect(s) PROVE ViewInv'
  BY <1>1, <1>10 DEF Connect, clientVars, station
<1>11. CASE Disconnect
  BY <1>1, <1>11 DEF Disconnect, clientVars, station
<1>12. CASE NetworkDisconnected \/ CertificateChanged \/ PongTimeout
  BY <1>1, <1>12
  DEF NetworkDisconnected, CertificateChanged, PongTimeout, Closes, clientVars, station
<1> QED
  BY <1>3, <1>4, <1>5, <1>6, <1>7, <1>8, <1>9, <1>10, <1>11, <1>12 DEF Next, DeferredStep

(* Unless an exception has ended the process, the charge point agrees with *)
(* the websocket as soon as the callbacks that wait have run, whatever the *)
(* slots, the order of connects, closes and failures, and the time the     *)
(* callbacks took: the message queue is not left paused on a connection    *)
(* that works, or resumed on one that is gone.                             *)
THEOREM ChargePointAgrees == Spec => [](~dead => ViewConverges)
<1>1. Init => ViewInv
  BY DEF Init, WebsocketInit, ViewInv, View
<1>2. TypeInv /\ ViewInv /\ [Next]_vars => ViewInv'
  BY ViewStep
<1>3. ViewInv => (~dead => ViewConverges)
  BY DEF ViewInv, View, ViewConverges
<1> QED  BY <1>1, <1>2, <1>3, TypeInit, TypeStep, PTL DEF Spec

-----------------------------------------------------------------------------
(* The slot in use.                                                        *)

\* No slot is above the security level of the station: a connection never
\* raises the level, and the slots below it are dropped before the first
\* attempt.
NoUpgrade == \A s \in Slots : Profile[s] <= InitialLevel

\* Nothing has been tried yet: the list may still hold slots to be dropped.
Fresh ==
    /\ options = None /\ conn = None /\ client = "done"
    /\ deferred = <<>> /\ deferredPc = "idle" /\ timer = None
    /\ \A c \in Callers : op[c] = "idle" /\ trying[c] = None
    /\ active = 1 /\ slots = Priorities /\ lastLevel = 0 /\ level = InitialLevel

\* The list is final: the slots left have the level of the station, and an
\* attempt under way knows the priority of its slot.
Settled ==
    /\ level = InitialLevel /\ lastLevel = InitialLevel
    /\ \A s \in ToSet(slots) : Profile[s] = InitialLevel
    /\ active \in DOMAIN slots
    /\ \A c \in Callers : trying[c] # None => /\ trying[c].priority \in DOMAIN slots
                                              /\ slots[trying[c].priority] = trying[c].slot
    /\ options # None => slots[active] = options

SlotInv == ~dead /\ (Fresh \/ Settled)

\* try_connect_websocket leaves a list that is final, and throws nothing.
LEMMA TryConnectSettles ==
    ASSUME NoUpgrade, TypeInv, SlotInv, NEW c \in Callers, NEW pend \in Slots \cup {None}, NEW tm,
           TryConnect(c, pend, tm), UNCHANGED <<level, active, options>>
    PROVE  /\ Settled' /\ ~dead'
           /\ \/ timer' = tm /\ \E a \in Attempts : trying' = [trying EXCEPT ![c] = a]
              \/ Left(c, tm)
<1>1. /\ SlotsOK /\ level \in 0..3 /\ LevelHeld /\ slots \in Seq(Slots)
      /\ trying \in [Callers -> Attempts \cup {None}] /\ level = InitialLevel /\ ~dead
  BY DEF TypeInv, ManagerOK, SlotsOK, SlotInv, Fresh, Settled
<1>2. PICK s \in ToSet(slots) : Profile[s] >= level
  BY <1>1 DEF LevelHeld
<1>3. ActiveInRange(slots)
  <2>1. 1 \in DOMAIN slots
    BY <1>1, SlotsLeft
  <2> QED  BY <2>1 DEF SlotInv, Fresh, Settled, ActiveInRange
<1>4. /\ SlotsOK' /\ lastLevel' = level /\ CheckCache(level, pend)
      /\ \E t \in ToSet(slots') : Profile[t] >= level
      /\ ActiveInRange(slots') => Began(c, tm) \/ Left(c, tm)
  <2>1. /\ SlotsOK'
        /\ \E t \in ToSet(slots') : Profile[t] >= level
        /\ Threw(c, tm) \/ Began(c, tm) \/ Left(c, tm)
    BY <1>1, TryConnectResult
  <2>2. lastLevel' = level /\ CheckCache(level, pend)
    BY <1>1, <1>3, TryConnectResult
  <2> QED  BY <1>3, <2>1, <2>2 DEF Threw
<1>5. /\ lastLevel = level => slots' = slots
      /\ lastLevel # level => ToSet(slots') = {t \in ToSet(slots) : Profile[t] >= level}
  BY <1>1, <1>2, <1>3, <1>4, CheckCacheResult
<1>6. \A t \in ToSet(slots') : Profile[t] = InitialLevel
  <2>1. \A t \in ToSet(slots) : t \in Slots /\ Profile[t] \in 0..3 /\ Profile[t] <= InitialLevel
    BY <1>1, ElementOfSeq, LenProperties, SlotsAssumption DEF ToSet, NoUpgrade
  <2>2. InitialLevel \in 0..3
    BY SlotsAssumption
  <2>3. CASE lastLevel # level
    BY <1>1, <1>5, <2>1, <2>2, <2>3
  <2>4. CASE lastLevel = level
    <3>1. CASE Fresh
      <4>1. InitialLevel = 0
        BY <1>1, <2>4, <3>1 DEF Fresh
      <4> QED  BY <1>5, <2>1, <2>4, <4>1
    <3>2. CASE Settled
      BY <1>5, <2>4, <3>2 DEF Settled
    <3> QED  BY <3>1, <3>2 DEF SlotInv
  <2> QED  BY <2>3, <2>4
<1>7. slots' \in Seq(Slots) /\ 1 \in DOMAIN slots'
  BY <1>4, SlotsLeft DEF SlotsOK
<1>8. /\ active \in DOMAIN slots'
      /\ options # None => slots'[active] = options
      /\ \A d \in Callers : trying[d] # None => /\ trying[d].priority \in DOMAIN slots'
                                                /\ slots'[trying[d].priority] = trying[d].slot
  <2>1. CASE Fresh
    BY <1>7, <2>1 DEF Fresh
  <2>2. CASE Settled
    <3>1. slots' = slots
      BY <1>1, <1>5, <2>2 DEF Settled
    <3> QED  BY <2>2, <3>1 DEF Settled
  <2> QED  BY <2>1, <2>2 DEF SlotInv
<1>9. Began(c, tm) \/ Left(c, tm)
  BY <1>4, <1>8 DEF ActiveInRange
<1>10. /\ \A d \in Callers : trying'[d] # None => /\ trying'[d].priority \in DOMAIN slots'
                                                  /\ slots'[trying'[d].priority] = trying'[d].slot
       /\ \/ timer' = tm /\ \E a \in Attempts : trying' = [trying EXCEPT ![c] = a]
          \/ Left(c, tm)
  <2>1. CASE Left(c, tm)  BY <1>8, <2>1 DEF Left
  <2>2. CASE Began(c, tm)
    <3>1. PICK p \in DOMAIN slots' :
             trying' = [trying EXCEPT ![c] = [slot |-> slots'[p], priority |-> p]]
      BY <2>2 DEF Began
    <3> DEFINE a == [slot |-> slots'[p], priority |-> p]
    <3>2. trying' = [trying EXCEPT ![c] = a] /\ a.slot = slots'[p] /\ a.priority = p
      BY <3>1
    <3>3. a \in Attempts
      <4>1. [trying EXCEPT ![c] = a] \in [Callers -> Attempts \cup {None}]
        BY <1>4, AttemptType
      <4>2. slots'[p] \in Slots
        BY <1>7, ActiveIsSlot
      <4>3. p \in 1..Len(Priorities)
        <5>1. /\ DOMAIN slots' = 1..Len(slots') /\ Len(slots') \in Nat
              /\ Len(slots') <= Len(Priorities) /\ Len(Priorities) \in Nat
          BY <1>4, SlotsAssumption, LenProperties DEF SlotsOK
        <5> QED  BY <5>1
      <4> QED  BY <4>2, <4>3 DEF Attempts
    <3> HIDE DEF a
    <3>4. \A d \in Callers : trying'[d] = IF d = c THEN a ELSE trying[d]
      BY <1>1, <3>2
    <3> QED  BY <1>8, <2>2, <3>2, <3>3, <3>4 DEF Began
  <2> QED  BY <1>9, <2>1, <2>2
<1>11. Settled'
  BY <1>1, <1>4, <1>6, <1>8, <1>10 DEF Settled
<1>12. ~dead'
  BY <1>1, <1>9 DEF Began, Left
<1> QED  BY <1>10, <1>11, <1>12

\* confirm_successful_connection finds the level it would set.
LEMMA ConfirmSettled ==
    ASSUME TypeInv, Settled, ConfirmSuccessfulConnection
    PROVE  UNCHANGED <<level, slots, lastLevel, pending>>
<1>1. slots \in Seq(Slots)
  BY DEF TypeInv, ManagerOK, SlotsOK
<1>2. ActiveSlot \in ToSet(slots)
  BY <1>1, ActiveIsSlot DEF Settled, ActiveSlot
<1>3. level' = InitialLevel
  BY <1>2 DEF ConfirmSuccessfulConnection, Settled
<1> QED  BY <1>3 DEF ConfirmSuccessfulConnection, Settled, CheckCache

LEMMA SlotStep ==
    ASSUME NoUpgrade, TypeInv, ViewInv, SlotInv, [Next]_vars
    PROVE  SlotInv'
<1>1. /\ trying \in [Callers -> Attempts \cup {None}] /\ slots \in Seq(Slots)
      /\ op \in [Callers -> Ops]
      /\ ~dead
  BY DEF TypeInv, ManagerOK, SlotsOK, SocketInv, WebsocketTypeOK, Ops, SlotInv
<1>2. ASSUME Settled, UNCHANGED <<level, lastLevel, slots, active, trying, options, dead>>
      PROVE  SlotInv'
  BY <1>1, <1>2 DEF SlotInv, Settled
<1>3. ASSUME Fresh,
             UNCHANGED <<options, conn, client, deferred, deferredPc, timer, op, trying,
                         active, slots, lastLevel, level, dead>>
      PROVE  SlotInv'
  BY <1>1, <1>3 DEF SlotInv, Fresh
<1>4. CASE UNCHANGED vars
  BY <1>2, <1>3, <1>4 DEF vars, websocket, manager, station, SlotInv
<1> SUFFICES ASSUME Next PROVE SlotInv'
  BY <1>4
<1>5. ASSUME Fresh PROVE ~connected /\ ~est
  BY <1>5 DEF Fresh, ViewInv
<1>6. Receiver \in Callers /\ "app" \in Callers /\ "timer" \in Callers /\ "ping" \in Callers
  BY CallersAssumption
<1>7. CASE WebsocketStep(ClientStep)
  <2>1. /\ UNCHANGED <<level, lastLevel, slots, active, trying, options, dead>>
        /\ client # "done"
    BY <1>7 DEF WebsocketStep, manager, ClientStep, ClientInit, ClientEstablished,
       ClientConnectionError, ClientPeerClose, ClientServiceEnds, ClientReset, ClientDecide,
       ClientWait, callerVars
  <2> QED  BY <1>2, <2>1 DEF SlotInv, Fresh
<1>8. ASSUME NEW c \in Callers, WebsocketStep(CallerStep(c)) PROVE SlotInv'
  <2>1. /\ UNCHANGED <<level, lastLevel, slots, active, trying, options, dead>>
        /\ op[c] # "idle"
    BY <1>8 DEF WebsocketStep, manager, CallerStep, Close, Closed, Start, Started, clientVars
  <2> QED  BY <1>2, <2>1 DEF SlotInv, Fresh
<1>9. ASSUME NEW c \in Callers, Configured(c) PROVE SlotInv'
  <2>1. /\ trying[c] # None /\ trying' = [trying EXCEPT ![c] = None]
        /\ active' = trying[c].priority /\ options' = trying[c].slot
        /\ UNCHANGED <<slots, lastLevel, level, dead>>
    BY <1>9 DEF Configured
  <2>2. Settled
    BY <2>1 DEF SlotInv, Fresh
  <2>3. \A d \in Callers : trying'[d] # None => d # c /\ trying'[d] = trying[d]
    BY <1>1, <2>1
  <2> QED  BY <1>1, <2>1, <2>2, <2>3 DEF SlotInv, Settled
<1>10. ASSUME NEW c \in Callers, ConfigureFailed(c) PROVE SlotInv'
  <2>1. /\ trying[c] # None /\ trying' = [trying EXCEPT ![c] = None]
        /\ UNCHANGED <<slots, lastLevel, level, dead, active, options>>
    BY <1>10 DEF ConfigureFailed
  <2>2. Settled
    BY <2>1 DEF SlotInv, Fresh
  <2>3. \A d \in Callers : trying'[d] # None => d # c /\ trying'[d] = trying[d]
    BY <1>1, <2>1
  <2> QED  BY <1>1, <2>1, <2>2, <2>3 DEF SlotInv, Settled
<1>11. CASE TimerFires
  <2>1. timer # None /\ UNCHANGED <<active, level, options>>
    BY <1>11 DEF TimerFires, websocket
  <2>2. Settled
    BY <2>1 DEF SlotInv, Fresh
  <2> DEFINE pend == NextSlot(slots, IF timer = NextOfActive THEN ActiveSlot ELSE timer)
  <2>3. TryConnect("timer", pend, None)
    BY <1>11, <2>2 DEF TimerFires, Settled, ActiveInRange
  <2>4. pend \in Slots
    <3>1. PICK s \in ToSet(slots) : Profile[s] >= level
      BY DEF TypeInv, ManagerOK, LevelHeld
    <3>2. slots # <<>>
      BY <1>1, <3>1, SlotsLeft
    <3> QED  BY <1>1, <3>2, NextSlotOfList
  <2> HIDE DEF pend
  <2> QED  BY <1>6, <2>1, <2>3, <2>4, TryConnectSettles DEF SlotInv
<1>12. CASE RunCallback
  <2>1. deferred # <<>> /\ UNCHANGED <<options, active, trying>>
    BY <1>12 DEF RunCallback
  <2>2. Settled
    BY <2>1 DEF SlotInv, Fresh
  <2>3. /\ UNCHANGED dead
        /\ ConfirmSuccessfulConnection \/ UNCHANGED <<level, slots, lastLevel>>
    BY <1>12, <2>2 DEF RunCallback, Settled, ActiveInRange, OnConnected, OnDisconnected,
       OnStoppedConnecting
  <2>4. UNCHANGED <<level, slots, lastLevel>>
    BY <2>2, <2>3, ConfirmSettled
  <2> QED  BY <1>2, <2>1, <2>2, <2>3, <2>4
<1>13. CASE RunDisconnected
  <2>1. deferredPc # "idle" /\ UNCHANGED <<options, active, trying, level, slots, lastLevel>>
    BY <1>13 DEF RunDisconnected, websocket, manager
  <2>2. Settled
    BY <2>1 DEF SlotInv, Fresh
  <2>3. UNCHANGED dead
    BY <1>13, <2>2 DEF RunDisconnected, Settled, ActiveInRange
  <2> QED  BY <1>2, <2>1, <2>2, <2>3
<1>14. CASE BootAccepted
  <2>1. conn # None /\ UNCHANGED <<options, active, trying, dead>>
    BY <1>14 DEF BootAccepted, websocket
  <2>2. Settled
    BY <2>1 DEF SlotInv, Fresh
  <2>3. ConfirmSuccessfulConnection
    BY <1>14, <2>2 DEF BootAccepted, Settled, ActiveInRange
  <2>4. UNCHANGED <<level, slots, lastLevel>>
    BY <2>2, <2>3, ConfirmSettled
  <2> QED  BY <1>2, <2>1, <2>2, <2>4
<1>15. ASSUME NEW s \in Slots \cup {None}, Connect(s) PROVE SlotInv'
  <2> DEFINE slot == IF s = None THEN ActiveSlot ELSE s
  <2>1. /\ UNCHANGED <<options, active, level>>
        /\ ActiveInRange(slots)
        /\ IF connected
           THEN UNCHANGED <<slots, lastLevel, trying, dead>>
           ELSE TryConnect("app", slot, timer)
    BY <1>15 DEF Connect
  <2>2. slot \in Slots
    BY <1>1, <2>1, ActiveIsSlot DEF ActiveInRange, ActiveSlot
  <2> HIDE DEF slot
  <2>3. CASE connected
    BY <1>2, <1>5, <2>1, <2>3 DEF SlotInv
  <2>4. CASE ~connected
    BY <1>6, <2>1, <2>2, <2>4, TryConnectSettles DEF SlotInv
  <2> QED  BY <2>3, <2>4
<1>16. CASE Disconnect
  <2>1. /\ Disconnects("app") /\ timer' = None
        /\ UNCHANGED <<options, conn, client, deferred, deferredPc, trying, active, slots,
                       lastLevel, level, dead>>
    BY <1>16 DEF Disconnect, clientVars, station
  <2>2. CASE Settled
    BY <1>2, <2>1, <2>2
  <2>3. CASE Fresh
    <3>1. op' = [op EXCEPT !["app"] = "idle"] /\ timer = None
      BY <2>1, <2>3 DEF Disconnects, Fresh
    <3>2. op' = op
      BY <1>1, <1>6, <2>3, <3>1 DEF Fresh
    <3> QED  BY <1>3, <2>1, <2>3, <3>1, <3>2
  <2> QED  BY <2>2, <2>3 DEF SlotInv
<1>17. CASE NetworkDisconnected \/ CertificateChanged \/ PongTimeout
  <2>1. /\ options # None
        /\ UNCHANGED <<options, active, slots, lastLevel, level, trying, dead>>
    BY <1>17 DEF NetworkDisconnected, CertificateChanged, PongTimeout, Closes, manager
  <2> QED  BY <1>2, <2>1 DEF SlotInv, Fresh
<1> QED
  BY <1>7, <1>8, <1>9, <1>10, <1>11, <1>12, <1>13, <1>14, <1>15, <1>16, <1>17
  DEF Next, DeferredStep, ConfigureStep

LEMMA SlotInit == Init => SlotInv
BY DEF Init, WebsocketInit, SlotInv, Fresh

(* When no slot is above the station's security level, the active slot is  *)
(* the one the websocket was opened with at every moment, although the     *)
(* priority is computed before the wait for the application and slots are  *)
(* dropped from the list it indexes; on_network_disconnected and           *)
(* confirm_successful_connection read the right slot.  connect() may be    *)
(* called at any time.                                                     *)
THEOREM ActiveSlotIsInUse ==
    ASSUME NoUpgrade
    PROVE  Spec => []ActiveSlotKept
<1>1. Init => TypeInv /\ ViewInv /\ SlotInv
  <2>1. Init => ViewInv
    BY DEF Init, WebsocketInit, ViewInv, View
  <2> QED  BY <2>1, TypeInit, SlotInit
<1>2. TypeInv /\ ViewInv /\ SlotInv /\ [Next]_vars => (TypeInv /\ ViewInv /\ SlotInv)'
  BY TypeStep, ViewStep, SlotStep
<1>3. SlotInv => ActiveSlotKept
  BY DEF SlotInv, Fresh, Settled, ActiveSlotKept, ActiveInRange, ActiveSlot
<1> QED  BY <1>1, <1>2, <1>3, PTL DEF Spec

(* In such a station no exception leaves a thread of the library (no       *)
(* callback or timer reads network_connection_slots out of range), so its  *)
(* view of the connection converges without exception.                     *)
THEOREM NoThreadDies ==
    ASSUME NoUpgrade
    PROVE  Spec => [](~dead /\ ViewConverges)
<1>1. Init => TypeInv /\ ViewInv /\ SlotInv
  <2>1. Init => ViewInv
    BY DEF Init, WebsocketInit, ViewInv, View
  <2> QED  BY <2>1, TypeInit, SlotInit
<1>2. TypeInv /\ ViewInv /\ SlotInv /\ [Next]_vars => (TypeInv /\ ViewInv /\ SlotInv)'
  BY TypeStep, ViewStep, SlotStep
<1>3. ViewInv /\ SlotInv => ~dead /\ ViewConverges
  BY DEF ViewInv, View, ViewConverges, SlotInv
<1> QED  BY <1>1, <1>2, <1>3, PTL DEF Spec

-----------------------------------------------------------------------------
(* What leads to the next attempt.                                         *)

\* A client thread that has not reported its end, ...
Alive == client # "done" /\ ~conn.stopRun

\* ... the reports that wait, ...
Stops == {i \in DOMAIN deferred : deferred[i] = "stopped"}

\* ... and the threads that are on their way to a new connection.
Connecting == {c \in Callers : trying[c] # None \/ op[c] \in {"start", "starting"}}

\* mark_stop_executed: a client thread that has reported its end goes on to
\* nothing but its exit.
StopOnce ==
    client # "done" /\ conn.stopRun => client = "decide" /\ conn.state = "finalized"

\* A thread that waits for the application does nothing with the websocket.
OneTask == \A c \in Callers : trying[c] # None => op[c] = "idle"

Exclusive ==
    /\ Alive => Stops = {} /\ timer = None /\ Connecting = {}
    /\ Stops # {} => timer = None /\ Connecting = {}
    /\ timer # None => Connecting = {}
    /\ \A i, j \in Stops : i = j
    /\ \A c, d \in Connecting : c = d

SomeChain == wants => Alive \/ Stops # {} \/ timer # None \/ Connecting # {}

ChainInv == StopOnce /\ OneTask /\ Exclusive /\ SomeChain

\* The reports that wait, after a callback has been deferred or has run.
LEMMA StopsAfterAppend ==
    ASSUME deferred \in Seq(Callbacks), NEW k \in Callbacks, deferred' = Append(deferred, k)
    PROVE  Stops' = IF k = "stopped" THEN Stops \cup {Len(deferred) + 1} ELSE Stops
<1>1. /\ Append(deferred, k) \in Seq(Callbacks)
      /\ Len(deferred) \in Nat
      /\ Len(Append(deferred, k)) = Len(deferred) + 1
      /\ Append(deferred, k)[Len(Append(deferred, k))] = k
      /\ \A i \in 1..Len(deferred) : Append(deferred, k)[i] = deferred[i]
  BY DeferredGrows
<1> DEFINE e == Append(deferred, k)
<1>2. DOMAIN e = 1..Len(e) /\ DOMAIN deferred = 1..Len(deferred)
  BY <1>1, LenProperties
<1>3. Len(e) = Len(deferred) + 1 /\ e[Len(deferred) + 1] = k /\ deferred' = e
      /\ \A i \in 1..Len(deferred) : e[i] = deferred[i]
  BY <1>1
<1> HIDE DEF e
<1> QED  BY <1>1, <1>2, <1>3 DEF Stops

LEMMA StopsAfterTail ==
    ASSUME deferred \in Seq(Callbacks), deferred # <<>>, deferred' = Tail(deferred),
           \A i, j \in Stops : i = j
    PROVE  /\ \A i, j \in Stops' : i = j
           /\ Head(deferred) = "stopped" => Stops # {} /\ Stops' = {}
           /\ Head(deferred) # "stopped" => (Stops' = {} <=> Stops = {})
<1>1. /\ Tail(deferred) \in Seq(Callbacks) /\ Len(Tail(deferred)) = Len(deferred) - 1
      /\ \A i \in 1..Len(Tail(deferred)) : Tail(deferred)[i] = deferred[i + 1]
  BY HeadTailProperties
<1>2. /\ Len(deferred) \in Nat /\ Len(deferred) # 0 /\ deferred[1] = Head(deferred)
      /\ DOMAIN deferred = 1..Len(deferred)
      /\ DOMAIN Tail(deferred) = 1..Len(Tail(deferred))
  BY <1>1, LenProperties, EmptySeq
<1> DEFINE t == Tail(deferred)
           n == Len(deferred)
<1>3. /\ n \in Nat /\ n # 0 /\ DOMAIN deferred = 1..n /\ DOMAIN t = 1..n - 1
      /\ \A i \in 1..n - 1 : t[i] = deferred[i + 1]
      /\ deferred' = t /\ deferred[1] = Head(deferred)
  BY <1>1, <1>2
<1> HIDE DEF t, n
<1>4. \A i \in Stops' : i \in 1..n - 1 /\ i + 1 \in Stops
  BY <1>3 DEF Stops
<1>5. \A i \in Stops : i \in 1..n /\ (i # 1 => i - 1 \in Stops')
  <2> SUFFICES ASSUME NEW i \in Stops, i # 1 PROVE i \in 1..n /\ i - 1 \in Stops'
    BY <1>3 DEF Stops
  <2>1. i \in 1..n /\ deferred[i] = "stopped"
    BY <1>3 DEF Stops
  <2>2. i - 1 \in 1..n - 1 /\ t[i - 1] = "stopped"
    BY <1>3, <2>1
  <2> QED  BY <1>3, <2>1, <2>2 DEF Stops
<1>6. 1 \in Stops <=> Head(deferred) = "stopped"
  BY <1>3 DEF Stops
<1>7. \A i, j \in Stops' : i = j
  BY <1>3, <1>4
<1>8. ASSUME Head(deferred) = "stopped" PROVE Stops # {} /\ Stops' = {}
  <2>1. \A i \in Stops' : i + 1 = 1
    BY <1>4, <1>6, <1>8
  <2> QED  BY <1>3, <1>4, <1>6, <1>8, <2>1
<1>9. ASSUME Head(deferred) # "stopped" PROVE Stops' = {} <=> Stops = {}
  BY <1>4, <1>5, <1>6, <1>9
<1> QED  BY <1>7, <1>8, <1>9

\* The client thread goes on, or it ends with a report.
LEMMA ClientChain ==
    ASSUME TypeInv, StopOnce, ClientStep
    PROVE  /\ StopOnce'
           /\ \/ (Alive' <=> Alive) /\ Stops' = Stops
              \/ Alive /\ ~Alive' /\ Stops' = Stops \cup {Len(deferred) + 1}
<1>1. deferred \in Seq(Callbacks) /\ SocketInv
  BY DEF TypeInv, SocketInv, WebsocketTypeOK
<1>2. /\ client # "done"
      /\ client # "decide" => Alive
      /\ ~Alive => conn.state = "finalized"
  BY DEF ClientStep, ClientInit, ClientEstablished, ClientConnectionError, ClientPeerClose,
     ClientServiceEnds, ClientReset, ClientDecide, ClientWait, StopOnce, Alive
<1>3. conn \in Connections
  BY <1>1, <1>2 DEF SocketInv, HasData, WebsocketTypeOK
<1>4. "connected" \in Callbacks /\ "disconnected" \in Callbacks /\ "stopped" \in Callbacks
  BY DEF Callbacks
<1>5. /\ [conn EXCEPT !.state = "error"].stopRun = conn.stopRun
      /\ [conn EXCEPT !.state = "reconnecting"].stopRun = conn.stopRun
      /\ [conn EXCEPT !.state = "finalized"].stopRun = conn.stopRun
      /\ [conn EXCEPT !.state = "connected", !.heard = TRUE].stopRun = conn.stopRun
      /\ [conn EXCEPT !.state = "finalized", !.stopRun = TRUE].stopRun = TRUE
      /\ [conn EXCEPT !.state = "finalized", !.stopRun = TRUE].state = "finalized"
      /\ [conn EXCEPT !.state = "connecting", !.stopRun = FALSE].stopRun = FALSE
  <2>1. TRUE \in BOOLEAN /\ FALSE \in BOOLEAN  OBVIOUS
  <2>2. States = {"initialize", "connecting", "reconnecting", "connected", "error", "finalized"}
    BY DEF States
  <2> QED  BY <1>3, <2>1, <2>2, ConnectionUpdates, ZenonT(30)
<1>6. ASSUME deferred' = deferred PROVE Stops' = Stops
  BY <1>6 DEF Stops
<1>7. ASSUME OnConnFail PROVE Stops' = Stops /\ conn'.stopRun = conn.stopRun
  BY <1>1, <1>4, <1>5, <1>6, <1>7, StopsAfterAppend DEF OnConnFail
<1>8. ASSUME OnConnConnected PROVE Stops' = Stops /\ conn'.stopRun = conn.stopRun
  BY <1>1, <1>4, <1>5, <1>8, StopsAfterAppend DEF OnConnConnected
<1>9. ASSUME Alive, client' # "done", Stops' = Stops, ~conn'.stopRun
       PROVE  StopOnce' /\ (Alive' <=> Alive) /\ Stops' = Stops
  BY <1>9 DEF StopOnce, Alive
<1>10. ASSUME NEW c \in {conn, [conn EXCEPT !.state = "finalized"]}, ClientExit(c)
       PROVE  /\ StopOnce' /\ ~Alive'
              /\ Stops' = IF Alive THEN Stops \cup {Len(deferred) + 1} ELSE Stops
  <2>1. c.stopRun = conn.stopRun /\ client' = "done"
    BY <1>5, <1>10 DEF ClientExit
  <2>2. CASE conn.stopRun
    <3>1. deferred' = deferred /\ ~Alive
      BY <1>10, <2>1, <2>2 DEF ClientExit, Alive
    <3> QED  BY <1>6, <2>1, <3>1 DEF StopOnce, Alive
  <2>3. CASE ~conn.stopRun
    <3>1. deferred' = Append(deferred, "stopped") /\ Alive
      BY <1>2, <1>10, <2>1, <2>3 DEF ClientExit, Alive
    <3>2. Stops' = Stops \cup {Len(deferred) + 1}
      BY <1>1, <1>4, <3>1, StopsAfterAppend
    <3> QED  BY <2>1, <3>1, <3>2 DEF StopOnce, Alive
  <2> QED  BY <2>2, <2>3
<1>11. CASE ClientInit
  <2>1. Alive /\ ~conn.stopRun /\ client' # "done"
    BY <1>2, <1>11 DEF ClientInit, Alive
  <2>2. Stops' = Stops /\ ~conn'.stopRun
    BY <1>5, <1>6, <1>7, <1>11, <2>1 DEF ClientInit
  <2> QED  BY <1>9, <2>1, <2>2
<1>12. CASE ClientEstablished
  <2>1. Alive /\ ~conn.stopRun /\ client' # "done"
    BY <1>2, <1>12 DEF ClientEstablished, Alive
  <2> QED  BY <1>8, <1>9, <1>12, <2>1 DEF ClientEstablished
<1>13. CASE ClientConnectionError \/ ClientPeerClose
  <2>1. Alive /\ ~conn.stopRun /\ client' # "done"
    BY <1>2, <1>13 DEF ClientConnectionError, ClientPeerClose, Alive
  <2> QED  BY <1>7, <1>9, <1>13, <2>1 DEF ClientConnectionError, ClientPeerClose
<1>14. CASE ClientServiceEnds
  <2>1. Alive /\ ~conn.stopRun /\ client' # "done"
    BY <1>2, <1>14 DEF ClientServiceEnds, Alive
  <2> QED  BY <1>6, <1>9, <1>14, <2>1 DEF ClientServiceEnds
<1>15. CASE ClientReset
  <2>1. Alive /\ ~conn.stopRun /\ client' = "decide"
    BY <1>2, <1>15 DEF ClientReset, Alive
  <2>2. CASE est /\ Interrupted
    <3>1. OnConnClose
      BY <1>15, <2>2 DEF ClientReset, ClientClosed
    <3>2. conn'.stopRun = TRUE /\ conn'.state = "finalized"
      BY <1>5, <3>1 DEF OnConnClose
    <3>3. Stops' = Stops \cup {Len(deferred) + 1}
      BY <1>1, <1>4, <3>1, StopsAfterAppend DEF OnConnClose
    <3>4. StopOnce' /\ ~Alive'
      BY <2>1, <3>2 DEF StopOnce, Alive
    <3> QED  BY <2>1, <3>3, <3>4
  <2>3. CASE ~(est /\ Interrupted)
    <3>1. Stops' = Stops /\ conn'.stopRun = conn.stopRun
      BY <1>6, <1>7, <1>15, <2>3 DEF ClientReset, ClientClosed
    <3> QED  BY <1>9, <2>1, <3>1
  <2> QED  BY <2>2, <2>3
<1>16. CASE ClientDecide
  <2>1. CASE ClientExit(conn) \/ ClientExit([conn EXCEPT !.state = "finalized"])
    BY <1>10, <2>1
  <2>2. CASE conn.state # "finalized" /\ client' = "wait" /\ deferred' = deferred
             /\ conn' = [conn EXCEPT !.state = "reconnecting"]
    <3>1. Alive /\ ~conn.stopRun
      BY <1>2, <2>2 DEF Alive
    <3>2. ~conn'.stopRun /\ Stops' = Stops
      BY <1>5, <1>6, <2>2, <3>1
    <3> QED  BY <1>9, <2>2, <3>1, <3>2
  <2> QED  BY <1>16, <2>1, <2>2 DEF ClientDecide
<1>17. CASE ClientWait
  <2>1. CASE ClientExit(conn)
    BY <1>10, <2>1
  <2>2. CASE client' = "init" /\ UNCHANGED <<conn, deferred>>
    <3>1. Alive /\ ~conn.stopRun
      BY <1>2, <1>17 DEF Alive, ClientWait
    <3> QED  BY <1>6, <1>9, <2>2, <3>1
  <2> QED  BY <1>17, <2>1, <2>2 DEF ClientWait
<1> QED
  BY <1>11, <1>12, <1>13, <1>14, <1>15, <1>16, <1>17 DEF ClientStep

\* A thread that had nothing to do and closes the websocket is not connecting.
LEMMA DisconnectsConnectsNot ==
    ASSUME TypeInv, OneTask, NEW c \in Callers, Idle(c), Disconnects(c), trying' = trying
    PROVE  Connecting' = Connecting /\ OneTask'
<1>1. op \in [Callers -> Ops] /\ trying[c] = None /\ op[c] = "idle"
  BY DEF TypeInv, SocketInv, WebsocketTypeOK, Ops, Idle
<1>2. PICK o \in {"idle", "close"} : op' = [op EXCEPT ![c] = o]
  BY DEF Disconnects
<1>3. \A d \in Callers : op'[d] = IF d = c THEN o ELSE op[d]
  BY <1>1, <1>2
<1> QED  BY <1>1, <1>3 DEF Connecting, OneTask

LEMMA ChainStep ==
    ASSUME NoUpgrade, Patient, TypeInv, ViewInv, SlotInv, ChainInv, [Next]_vars
    PROVE  ChainInv'
<1>1. StopOnce /\ OneTask /\ Exclusive /\ SomeChain
  BY DEF ChainInv
<1>2. /\ trying \in [Callers -> Attempts \cup {None}]
      /\ op \in [Callers -> Ops]
      /\ deferred \in Seq(Callbacks)
      /\ conn \in Connections \cup {None}
      /\ wants \in BOOLEAN /\ connected \in BOOLEAN
      /\ ~dead
  BY DEF TypeInv, ManagerOK, SocketInv, WebsocketTypeOK, Ops, SlotInv
<1>3. "app" \in Callers /\ "timer" \in Callers /\ "ping" \in Callers /\ Receiver \in Callers
  BY CallersAssumption
<1>4. ASSUME (Alive' <=> Alive), Stops' = Stops, timer' = timer, wants' = wants,
             Connecting' = Connecting, StopOnce', OneTask'
      PROVE  ChainInv'
  BY <1>1, <1>4 DEF ChainInv, Exclusive, SomeChain
<1>5. ASSUME UNCHANGED <<trying, op>> PROVE Connecting' = Connecting /\ OneTask'
  BY <1>1, <1>5 DEF Connecting, OneTask
<1>6. ASSUME UNCHANGED <<conn, client>> PROVE (Alive' <=> Alive) /\ StopOnce'
  BY <1>1, <1>6 DEF Alive, StopOnce
<1>7. ASSUME UNCHANGED deferred PROVE Stops' = Stops
  BY <1>7 DEF Stops
<1>8. CASE UNCHANGED vars
  BY <1>4, <1>5, <1>6, <1>7, <1>8 DEF vars, websocket, manager
<1> SUFFICES ASSUME Next PROVE ChainInv'
  BY <1>8
<1>9. CASE WebsocketStep(ClientStep)
  <2>1. /\ UNCHANGED <<trying, op, timer, wants>> /\ ClientStep
    BY <1>9 DEF WebsocketStep, manager, ClientStep, ClientInit, ClientEstablished,
       ClientConnectionError, ClientPeerClose, ClientServiceEnds, ClientReset, ClientDecide,
       ClientWait, callerVars
  <2>2. /\ StopOnce'
        /\ \/ (Alive' <=> Alive) /\ Stops' = Stops
           \/ Alive /\ ~Alive' /\ Stops' = Stops \cup {Len(deferred) + 1}
    BY <1>1, <2>1, ClientChain
  <2>3. Connecting' = Connecting /\ OneTask'
    BY <1>5, <2>1
  <2>4. CASE Alive /\ ~Alive' /\ Stops' = Stops \cup {Len(deferred) + 1}
    BY <1>1, <2>1, <2>2, <2>3, <2>4 DEF ChainInv, Exclusive, SomeChain
  <2> QED  BY <1>4, <2>1, <2>2, <2>3, <2>4
<1>10. ASSUME NEW c \in Callers, WebsocketStep(CallerStep(c)) PROVE ChainInv'
  <2>1. UNCHANGED <<deferred, trying, timer, wants>> /\ CallerStep(c)
    BY <1>10 DEF WebsocketStep, manager, CallerStep, Close, Closed, Start, Started, clientVars
  <2>2. Stops' = Stops
    BY <1>7, <2>1
  <2>3. trying[c] = None
    BY <1>1, <2>1 DEF OneTask, CallerStep, Close, Closed, Start, Started
  <2>4. ASSUME Interrupt, client' = client PROVE (Alive' <=> Alive) /\ StopOnce'
    <3>1. client # "done" => conn \in Connections
      BY <1>2 DEF TypeInv, SocketInv, HasData
    <3>2. client # "done" => conn'.stopRun = conn.stopRun /\ conn'.state = conn.state
      <4>1. FALSE \in BOOLEAN  OBVIOUS
      <4> QED  BY <2>4, <3>1, <4>1, ConnectionUpdates DEF Interrupt
    <3> QED  BY <1>1, <2>4, <3>2 DEF Alive, StopOnce
  <2>5. ASSUME NEW o \in Ops, op' = [op EXCEPT ![c] = o],
               op[c] \in {"start", "starting"} <=> o \in {"start", "starting"}
        PROVE  Connecting' = Connecting /\ OneTask'
    <3>1. \A d \in Callers : op'[d] = IF d = c THEN o ELSE op[d]
      BY <1>2, <2>5
    <3> QED  BY <1>1, <2>1, <2>3, <2>5, <3>1 DEF Connecting, OneTask
  <2>6. CASE Close(c)
    <3>1. /\ op[c] = "close" /\ client' = client
          /\ Interrupt \/ conn' = conn
          /\ \E o \in {"closing", "idle"} : op' = [op EXCEPT ![c] = o]
      BY <2>6 DEF Close, clientVars
    <3>2. Connecting' = Connecting /\ OneTask'
      BY <2>5, <3>1 DEF Ops
    <3>3. (Alive' <=> Alive) /\ StopOnce'
      BY <1>6, <2>4, <3>1
    <3> QED  BY <1>4, <2>1, <2>2, <3>2, <3>3
  <2>7. CASE Start(c)
    <3>1. /\ op[c] = "start" /\ client' = client /\ Interrupt
          /\ op' = [op EXCEPT ![c] = "starting"]
      BY <2>7 DEF Start, clientVars
    <3>2. Connecting' = Connecting /\ OneTask'
      BY <2>5, <3>1 DEF Ops
    <3> QED  BY <1>4, <2>1, <2>2, <2>4, <3>1, <3>2
  <2>8. CASE Closed(c)
    <3>1. /\ op[c] = "closing" /\ client' = client /\ client = "done"
          /\ op' = [op EXCEPT ![c] = "idle"]
      BY <2>8 DEF Closed, Joined, clientVars
    <3>2. Connecting' = Connecting /\ OneTask'
      BY <2>5, <3>1 DEF Ops
    <3>3. (Alive' <=> Alive) /\ StopOnce'
      BY <3>1 DEF Alive, StopOnce
    <3> QED  BY <1>4, <2>1, <2>2, <3>2, <3>3
  <2>9. CASE Started(c)
    <3>1. /\ op[c] = "starting" /\ client = "done"
          /\ op' = [op EXCEPT ![c] = "idle"]
          /\ conn' = NewConnection /\ client' = "init"
      BY <2>9 DEF Started, Joined
    <3>2. \A d \in Callers : op'[d] = IF d = c THEN "idle" ELSE op[d]
      BY <1>2, <3>1
    <3>3. c \in Connecting /\ Connecting' = Connecting \ {c} /\ OneTask'
      BY <1>1, <2>1, <2>3, <3>1, <3>2 DEF Connecting, OneTask
    <3>4. ~Alive /\ Stops = {} /\ timer = None /\ Connecting = {c}
      BY <1>1, <3>1, <3>3 DEF Exclusive, Alive
    <3>5. Alive' /\ StopOnce'
      BY <3>1, NewConnectionType DEF Alive, StopOnce
    <3> QED  BY <2>1, <2>2, <3>3, <3>4, <3>5 DEF ChainInv, Exclusive, SomeChain
  <2> QED  BY <2>1, <2>6, <2>7, <2>8, <2>9 DEF CallerStep
<1>11. ASSUME NEW c \in Callers, trying[c] # None
       PROVE  /\ op[c] = "idle" /\ Connecting = {c}
              /\ ~Alive /\ Stops = {} /\ timer = None
  <2>1. c \in Connecting
    BY <1>11 DEF Connecting
  <2> QED  BY <1>1, <1>11, <2>1 DEF Exclusive, OneTask
<1>12. ASSUME NEW c \in Callers, Configured(c) PROVE ChainInv'
  <2>1. /\ trying[c] # None /\ trying' = [trying EXCEPT ![c] = None]
        /\ op' = [op EXCEPT ![c] = "start"]
        /\ UNCHANGED <<conn, client, deferred, timer, wants>>
    BY <1>12 DEF Configured, clientVars
  <2>2. \A d \in Callers : /\ op'[d] = IF d = c THEN "start" ELSE op[d]
                           /\ trying'[d] = IF d = c THEN None ELSE trying[d]
    BY <1>2, <2>1
  <2>3. Connecting' = Connecting /\ OneTask'
    BY <1>1, <2>1, <2>2 DEF Connecting, OneTask
  <2> QED  BY <1>4, <1>6, <1>7, <2>1, <2>3
<1>13. ASSUME NEW c \in Callers, ConfigureFailed(c) PROVE ChainInv'
  <2>1. /\ trying[c] # None /\ trying' = [trying EXCEPT ![c] = None]
        /\ timer' = IF wants THEN trying[c].slot ELSE timer
        /\ UNCHANGED <<conn, client, deferred, op, wants>>
    BY <1>13 DEF ConfigureFailed
  <2>2. \A d \in Callers : trying'[d] = IF d = c THEN None ELSE trying[d]
    BY <1>2, <2>1
  <2>3. Connecting' = {} /\ OneTask'
    BY <1>1, <1>11, <2>1, <2>2 DEF Connecting, OneTask
  <2>4. trying[c].slot # None
    <3>1. trying[c] \in Attempts
      BY <1>2, <2>1
    <3> QED  BY <3>1, WebsocketAssumption DEF Attempts
  <2>5. ~Alive' /\ StopOnce' /\ Stops' = {}
    BY <1>6, <1>7, <1>11, <2>1
  <2>6. /\ wants => timer' # None
        /\ wants' = wants
    BY <2>1, <2>4
  <2> QED  BY <2>3, <2>5, <2>6 DEF ChainInv, Exclusive, SomeChain
<1>14. ASSUME NEW c \in Callers, Idle(c), NEW tm, ~Alive, Stops = {}, Connecting = {},
              UNCHANGED <<conn, client, deferred, op>>, tm = None,
              \/ timer' = tm /\ \E a \in Attempts : trying' = [trying EXCEPT ![c] = a]
              \/ Left(c, tm)
       PROVE  ChainInv'
  <2>1. ~Alive' /\ StopOnce' /\ Stops' = {}
    BY <1>6, <1>7, <1>14
  <2>2. CASE timer' = tm /\ \E a \in Attempts : trying' = [trying EXCEPT ![c] = a]
    <3>1. PICK a \in Attempts : trying' = [trying EXCEPT ![c] = a]
      BY <2>2
    <3>2. a # None
      BY SlotsAssumption
    <3>3. \A d \in Callers : trying'[d] = IF d = c THEN a ELSE trying[d]
      BY <1>2, <3>1
    <3>4. Connecting' = {c} /\ OneTask'
      BY <1>1, <1>14, <3>2, <3>3 DEF Connecting, OneTask, Idle
    <3> QED  BY <1>14, <2>1, <2>2, <3>4 DEF ChainInv, Exclusive, SomeChain
  <2>3. CASE Left(c, tm)
    <3>1. trying' = trying /\ (wants' => timer' # None)
      BY <2>3 DEF Left
    <3>2. Connecting' = {} /\ OneTask'
      BY <1>5, <1>14, <3>1
    <3> QED  BY <2>1, <3>1, <3>2 DEF ChainInv, Exclusive, SomeChain
  <2> QED  BY <1>14, <2>2, <2>3
<1>15. CASE TimerFires
  <2>1. /\ timer # None /\ Idle("timer") /\ UNCHANGED <<active, level, options, wants>>
        /\ UNCHANGED <<conn, client, deferred, op>>
    BY <1>15 DEF TimerFires, websocket
  <2>2. ~Alive /\ Stops = {} /\ Connecting = {}
    BY <1>1, <2>1 DEF Exclusive
  <2>3. Settled
    BY <2>1 DEF SlotInv, Fresh
  <2> DEFINE pend == NextSlot(slots, IF timer = NextOfActive THEN ActiveSlot ELSE timer)
  <2>4. TryConnect("timer", pend, None)
    BY <1>15, <2>3 DEF TimerFires, Settled, ActiveInRange
  <2>5. pend \in Slots
    <3>1. slots \in Seq(Slots) /\ \E s \in ToSet(slots) : Profile[s] >= level
      BY DEF TypeInv, ManagerOK, SlotsOK, LevelHeld
    <3>2. slots # <<>>
      BY <3>1, SlotsLeft
    <3> QED  BY <3>1, <3>2, NextSlotOfList
  <2> HIDE DEF pend
  <2>6. \/ timer' = None /\ \E a \in Attempts : trying' = [trying EXCEPT !["timer"] = a]
        \/ Left("timer", None)
    BY <1>3, <2>1, <2>4, <2>5, TryConnectSettles
  <2> QED  BY <1>3, <1>14, <2>1, <2>2, <2>6
<1>16. CASE RunCallback
  <2>1. /\ deferred # <<>> /\ deferred' = Tail(deferred)
        /\ UNCHANGED <<conn, client, op, trying, wants>>
    BY <1>16 DEF RunCallback
  <2>2. Settled
    BY <2>1 DEF SlotInv, Fresh
  <2>3. OnConnected \/ OnDisconnected \/ OnStoppedConnecting
    BY <1>16, <2>2 DEF RunCallback, Settled, ActiveInRange
  <2>4. /\ \A i, j \in Stops' : i = j
        /\ Head(deferred) = "stopped" => Stops # {} /\ Stops' = {}
        /\ Head(deferred) # "stopped" => (Stops' = {} <=> Stops = {})
    BY <1>1, <1>2, <2>1, StopsAfterTail DEF Exclusive
  <2>5. (Alive' <=> Alive) /\ StopOnce' /\ Connecting' = Connecting /\ OneTask'
    BY <1>5, <1>6, <2>1
  <2>6. CASE OnConnected \/ OnDisconnected
    <3>1. Head(deferred) # "stopped" /\ timer' = timer
      BY <2>6 DEF OnConnected, OnDisconnected
    <3> QED  BY <1>1, <2>1, <2>4, <2>5, <3>1 DEF ChainInv, Exclusive, SomeChain
  <2>7. CASE OnStoppedConnecting
    <3>1. Head(deferred) = "stopped" /\ timer' = IF wants THEN NextOfActive ELSE timer
      BY <2>7 DEF OnStoppedConnecting
    <3>2. ~Alive /\ timer = None /\ Connecting = {} /\ Stops' = {}
      BY <1>1, <2>4, <3>1 DEF Exclusive
    <3>3. wants => timer' # None
      BY <3>1, SlotsAssumption
    <3> QED  BY <2>1, <2>5, <3>2, <3>3 DEF ChainInv, Exclusive, SomeChain
  <2> QED  BY <2>3, <2>6, <2>7
<1>17. CASE RunDisconnected
  BY <1>4, <1>5, <1>6, <1>7, <1>17 DEF RunDisconnected, websocket, manager
<1>18. CASE BootAccepted
  BY <1>4, <1>5, <1>6, <1>7, <1>18 DEF BootAccepted, websocket
<1>19. ASSUME NEW s \in Slots \cup {None}, Connect(s) PROVE ChainInv'
  <2> DEFINE slot == IF s = None THEN ActiveSlot ELSE s
  <2>1. /\ Idle("app") /\ Quiet /\ ActiveInRange(slots) /\ wants' = TRUE
        /\ UNCHANGED <<conn, client, deferred, options, active, level>>
        /\ IF connected
           THEN Disconnects("app") /\ UNCHANGED <<timer, trying>>
           ELSE TryConnect("app", slot, timer) /\ UNCHANGED op
    BY <1>19 DEF Connect, Call, clientVars
  <2>2. slot \in Slots
    <3>1. slots \in Seq(Slots)
      BY DEF TypeInv, ManagerOK, SlotsOK
    <3> QED  BY <2>1, <3>1, ActiveIsSlot DEF ActiveInRange, ActiveSlot
  <2> HIDE DEF slot
  <2>3. CASE connected
    <3>1. client \in {"service", "reset"}
      BY <2>3 DEF ViewInv
    <3>2. Alive
      BY <1>1, <3>1 DEF StopOnce, Alive
    <3>3. Alive' /\ StopOnce' /\ Stops' = Stops
      BY <1>6, <1>7, <2>1, <3>2
    <3>4. Connecting' = Connecting /\ OneTask'
      BY <1>1, <1>3, <2>1, <2>3, DisconnectsConnectsNot
    <3> QED  BY <1>1, <2>1, <2>3, <3>2, <3>3, <3>4 DEF ChainInv, Exclusive, SomeChain
  <2>4. CASE ~connected
    <3>1. client = "done" /\ deferred = <<>> /\ timer = None
          /\ \A c \in Callers : op[c] = "idle" /\ trying[c] = None
      BY <2>1, <2>4 DEF Quiet
    <3>2. ~Alive /\ Stops = {} /\ Connecting = {}
      BY <3>1 DEF Alive, Stops, Connecting
    <3>3. \/ timer' = timer /\ \E a \in Attempts : trying' = [trying EXCEPT !["app"] = a]
          \/ Left("app", timer)
      BY <1>3, <2>1, <2>2, <2>4, TryConnectSettles
    <3> QED  BY <1>3, <1>14, <2>1, <2>4, <3>1, <3>2, <3>3
  <2> QED  BY <2>3, <2>4
<1>20. CASE Disconnect
  <2>1. /\ Idle("app") /\ Disconnects("app") /\ wants' = FALSE /\ timer' = None
        /\ UNCHANGED <<conn, client, deferred, trying>>
    BY <1>20 DEF Disconnect, Call, clientVars
  <2>2. /\ Connecting' = Connecting /\ OneTask' /\ (Alive' <=> Alive) /\ StopOnce'
        /\ Stops' = Stops
    BY <1>1, <1>3, <1>6, <1>7, <2>1, DisconnectsConnectsNot
  <2> QED  BY <1>1, <2>1, <2>2 DEF ChainInv, Exclusive, SomeChain
<1>21. ASSUME NEW c \in Callers, Idle(c), Closes(c) PROVE ChainInv'
  <2>1. Disconnects(c) /\ UNCHANGED <<conn, client, deferred, trying, timer, wants>>
    BY <1>21 DEF Closes, manager, clientVars
  <2>2. Connecting' = Connecting /\ OneTask'
    BY <1>1, <1>21, <2>1, DisconnectsConnectsNot
  <2> QED  BY <1>4, <1>6, <1>7, <2>1, <2>2
<1>22. CASE NetworkDisconnected \/ CertificateChanged \/ PongTimeout
  BY <1>3, <1>21, <1>22 DEF NetworkDisconnected, CertificateChanged, PongTimeout, Call
<1> QED
  BY <1>9, <1>10, <1>12, <1>13, <1>15, <1>16, <1>17, <1>18, <1>19, <1>20, <1>22
  DEF Next, DeferredStep, ConfigureStep

LEMMA ChainInit == Init => ChainInv
<1> SUFFICES ASSUME Init PROVE ChainInv  OBVIOUS
<1>1. /\ client = "done" /\ deferred = <<>> /\ timer = None /\ wants = FALSE
      /\ \A c \in Callers : op[c] = "idle" /\ trying[c] = None
  BY DEF Init, WebsocketInit
<1>2. Connecting = {} /\ Stops = {} /\ ~Alive
  BY <1>1 DEF Connecting, Stops, Alive
<1> QED  BY <1>1, <1>2 DEF ChainInv, StopOnce, OneTask, Exclusive, SomeChain

\* Chains counts one for each part of Exclusive that is there.
LEMMA ChainsCounted ==
    ASSUME Exclusive, SomeChain
    PROVE  SingleChain
<1> DEFINE a == IF Alive THEN 1 ELSE 0
           t == IF timer # None THEN 1 ELSE 0
<1>1. Chains = a + Cardinality(Stops) + t + Cardinality(Connecting)
  BY DEF Chains, Alive, Stops, Connecting
<1>2. IF Stops = {} THEN Cardinality(Stops) = 0 ELSE Cardinality(Stops) = 1
  <2>1. CASE Stops = {}  BY <2>1, FS_EmptySet
  <2>2. CASE Stops # {}
    <3>1. PICK i \in Stops : TRUE  BY <2>2
    <3>2. Stops = {i}  BY DEF Exclusive
    <3> QED  BY <2>2, <3>2, FS_Singleton
  <2> QED  BY <2>1, <2>2
<1>3. IF Connecting = {} THEN Cardinality(Connecting) = 0 ELSE Cardinality(Connecting) = 1
  <2>1. CASE Connecting = {}  BY <2>1, FS_EmptySet
  <2>2. CASE Connecting # {}
    <3>1. PICK c \in Connecting : TRUE  BY <2>2
    <3>2. Connecting = {c}  BY DEF Exclusive
    <3> QED  BY <2>2, <3>2, FS_Singleton
  <2> QED  BY <2>1, <2>2
<1>4. Chains <= 1 /\ (wants => Chains >= 1)
  BY <1>1, <1>2, <1>3 DEF Exclusive, SomeChain
<1> QED  BY <1>4 DEF SingleChain, StillTrying, OneChain

(* A station that wants to be connected never gives up and never fights    *)
(* itself: as long as connect() is called when nothing is under way and no *)
(* slot is above its security level, exactly one of the client thread, a   *)
(* report that waits, the timer and a thread in try_connect_websocket      *)
(* leads to the next attempt, for every limit of attempts and every number *)
(* of failures, closes and calls.                                          *)
THEOREM OneWayToConnect ==
    ASSUME NoUpgrade, Patient
    PROVE  Spec => []SingleChain
<1> DEFINE Inv == TypeInv /\ ViewInv /\ SlotInv /\ ChainInv
<1>1. Init => Inv
  <2>1. Init => ViewInv
    BY DEF Init, WebsocketInit, ViewInv, View
  <2> QED  BY <2>1, TypeInit, SlotInit, ChainInit
<1>2. Inv /\ [Next]_vars => Inv'
  BY TypeStep, ViewStep, SlotStep, ChainStep
<1>3. Inv => SingleChain
  BY ChainsCounted DEF ChainInv
<1> QED  BY <1>1, <1>2, <1>3, PTL DEF Spec

=============================================================================
