------------------------ MODULE Availability2_proofs ------------------------
(***************************************************************************)
(* Proofs about Availability2, for any EVSEs and connectors, any number of *)
(* requests, firmware updates and restarts, and either value of            *)
(* ResumeTransactionsOnBoot.                                               *)
(*                                                                         *)
(* The operators of ComponentStateManager come first: each of them keeps   *)
(* the type of the states and keeps the application informed.  Then type   *)
(* correctness, and on it the three invariants.                            *)
(***************************************************************************)
EXTENDS Availability2, TLAPS

\* The states that ComponentStateManager can be in.
Managers == [op : Levels, told : Levels, db : Levels]

\* The application knows the effective status of everything.
Told(m) == m.told = Effective(m.op)

\* No connector that is out of service comes back.
OnlyCloses(m, n) ==
    \A s \in Slots : ConnectorEffective(m.op, s) = "Inoperative" => ConnectorEffective(n.op, s) = "Inoperative"

-----------------------------------------------------------------------------
(* ComponentStateManager *)

LEMMA EffectiveTypes ==
    ASSUME NEW o \in Levels
    PROVE  /\ \A e \in Evses : EvseEffective(o, e) \in OperationalStatus
           /\ \A s \in Slots : s[1] \in Evses /\ ConnectorEffective(o, s) \in OperationalStatus
           /\ Effective(o) \in Levels
<1>1. \A e \in Evses : EvseEffective(o, e) \in OperationalStatus
  BY DEF Levels, OperationalStatus, EvseEffective
<1>2. \A s \in Slots : s[1] \in Evses
  BY SlotsAssumption
<1>3. \A s \in Slots : ConnectorEffective(o, s) \in OperationalStatus
  BY <1>2 DEF Levels, OperationalStatus, ConnectorEffective
<1>4. QED
  BY <1>1, <1>2, <1>3 DEF Levels, Effective

\* What the effective status of an EVSE and of a connector depends on.
LEMMA EffectiveLocal ==
    ASSUME NEW o, NEW p
    PROVE  /\ \A e \in Evses : o.cs = p.cs /\ o.evse[e] = p.evse[e] => EvseEffective(o, e) = EvseEffective(p, e)
           /\ \A s \in Slots : EvseEffective(o, s[1]) = EvseEffective(p, s[1]) /\ o.conn[s] = p.conn[s]
                               => ConnectorEffective(o, s) = ConnectorEffective(p, s)
BY DEF EvseEffective, ConnectorEffective

LEMMA LevelsEqual ==
    ASSUME NEW a \in Levels, NEW b \in Levels,
           a.cs = b.cs, \A e \in Evses : a.evse[e] = b.evse[e], \A s \in Slots : a.conn[s] = b.conn[s]
    PROVE  a = b
BY DEF Levels

LEMMA ToldFields ==
    ASSUME NEW m \in Managers
    PROVE  Told(m) <=> /\ m.told.cs = m.op.cs
                       /\ \A e \in Evses : m.told.evse[e] = EvseEffective(m.op, e)
                       /\ \A s \in Slots : m.told.conn[s] = ConnectorEffective(m.op, s)
<1>1. m.op \in Levels /\ m.told \in Levels
  BY DEF Managers
<1>2. Effective(m.op) \in Levels
  BY <1>1, EffectiveTypes
<1>3. /\ Effective(m.op).cs = m.op.cs
      /\ \A e \in Evses : Effective(m.op).evse[e] = EvseEffective(m.op, e)
      /\ \A s \in Slots : Effective(m.op).conn[s] = ConnectorEffective(m.op, s)
  BY DEF Effective
<1>4. QED
  BY <1>1, <1>2, <1>3, LevelsEqual DEF Told

\* set_cs_individual_operational_status
LEMMA SetCsKeeps ==
    ASSUME NEW m \in Managers, NEW status \in OperationalStatus, NEW persist \in BOOLEAN,
           NEW n, n = SetCs(m, status, persist)
    PROVE  n \in Managers /\ (Told(m) => Told(n))
<1> DEFINE o == [m.op EXCEPT !.cs = status]
<1>1. /\ m.op \in Levels /\ m.told \in Levels /\ m.db \in Levels
      /\ o \in Levels /\ o.cs = status /\ o.evse = m.op.evse /\ o.conn = m.op.conn
  BY DEF Managers, Levels
<1>2. n.op = o /\ n.told = TriggerCs(o, m.told)
  BY DEF SetCs
<1>3. n.db \in Levels
  BY <1>1 DEF SetCs, Levels
<1> HIDE DEF o
<1>4. TriggerCs(o, m.told) \in Levels
  BY <1>1, EffectiveTypes DEF TriggerCs, Levels
<1>5. n \in Managers
  BY <1>1, <1>2, <1>3, <1>4 DEF SetCs, Managers
<1>6. ASSUME Told(m)
      PROVE  Told(n)
  <2>1. /\ m.told.cs = m.op.cs
        /\ \A e \in Evses : m.told.evse[e] = EvseEffective(m.op, e)
        /\ \A s \in Slots : m.told.conn[s] = ConnectorEffective(m.op, s)
    BY <1>6, ToldFields
  <2>2. CASE m.told.cs = o.cs
    <3>1. o = m.op
      BY <2>1, <2>2, <1>1, LevelsEqual
    <3>2. n.told = m.told
      BY <1>2, <2>2 DEF TriggerCs
    <3>3. QED
      BY <3>1, <3>2, <1>2, <1>6 DEF Told
  <2>3. CASE m.told.cs # o.cs
    <3>1. /\ n.told.cs = o.cs
          /\ \A e \in Evses : n.told.evse[e] = EvseEffective(o, e)
          /\ \A s \in Slots : n.told.conn[s] = IF m.told.evse[s[1]] = EvseEffective(o, s[1])
                                               THEN m.told.conn[s]
                                               ELSE ConnectorEffective(o, s)
      BY <1>2, <2>3 DEF TriggerCs
    <3>2. ASSUME NEW s \in Slots
          PROVE  n.told.conn[s] = ConnectorEffective(o, s)
      <4>1. s[1] \in Evses /\ o.conn[s] = m.op.conn[s]
        BY <1>1, EffectiveTypes
      <4>2. CASE EvseEffective(m.op, s[1]) = EvseEffective(o, s[1])
        <5>1. ConnectorEffective(o, s) = ConnectorEffective(m.op, s)
          BY <4>1, <4>2 DEF ConnectorEffective
        <5>2. QED
          BY <5>1, <4>1, <4>2, <3>1, <2>1
      <4>3. CASE EvseEffective(m.op, s[1]) # EvseEffective(o, s[1])
        BY <4>1, <4>3, <3>1, <2>1
      <4>4. QED
        BY <4>2, <4>3
    <3>3. QED
      BY <3>1, <3>2, <1>2, <1>5, ToldFields
  <2>4. QED
    BY <2>2, <2>3
<1>7. QED
  BY <1>5, <1>6

\* set_evse_individual_operational_status, for every EVSE of a set
LEMMA SetEvsesKeeps ==
    ASSUME NEW m \in Managers, NEW es \in SUBSET Evses, NEW status \in OperationalStatus,
           NEW persist \in BOOLEAN, NEW n, n = SetEvses(m, es, status, persist)
    PROVE  /\ n \in Managers
           /\ Told(m) => Told(n)
           /\ status = "Inoperative" => /\ OnlyCloses(m, n)
                                        /\ \A s \in ConnectorsOf(es) : ConnectorEffective(n.op, s) = "Inoperative"
<1> DEFINE o == [m.op EXCEPT !.evse = [e \in Evses |-> IF e \in es THEN status ELSE m.op.evse[e]]]
<1>1. /\ m.op \in Levels /\ m.told \in Levels /\ m.db \in Levels
      /\ o \in Levels /\ o.cs = m.op.cs /\ o.conn = m.op.conn
      /\ \A e \in Evses : o.evse[e] = IF e \in es THEN status ELSE m.op.evse[e]
  BY DEF Managers, Levels
<1>2. n.op = o /\ n.told = TriggerEvses(o, m.told, es)
  BY DEF SetEvses
<1>3. n.db \in Levels
  BY <1>1 DEF SetEvses, Levels
<1> HIDE DEF o
<1>4. TriggerEvses(o, m.told, es) \in Levels
  BY <1>1, EffectiveTypes DEF TriggerEvses, Levels
<1>5. n \in Managers
  BY <1>1, <1>2, <1>3, <1>4 DEF SetEvses, Managers
<1>6. ASSUME Told(m)
      PROVE  Told(n)
  <2>1. /\ m.told.cs = m.op.cs
        /\ \A e \in Evses : m.told.evse[e] = EvseEffective(m.op, e)
        /\ \A s \in Slots : m.told.conn[s] = ConnectorEffective(m.op, s)
    BY <1>6, ToldFields
  <2>2. /\ n.told.cs = o.cs
        /\ \A e \in Evses : n.told.evse[e] = IF e \in es THEN EvseEffective(o, e) ELSE m.told.evse[e]
        /\ \A s \in Slots : n.told.conn[s] = IF s[1] \in es /\ m.told.evse[s[1]] # EvseEffective(o, s[1])
                                             THEN ConnectorEffective(o, s)
                                             ELSE m.told.conn[s]
    BY <1>1, <1>2, <2>1 DEF TriggerEvses, Levels
  <2>3. \A e \in Evses : e \notin es => EvseEffective(m.op, e) = EvseEffective(o, e)
    BY <1>1, EffectiveLocal
  <2>4. \A e \in Evses : n.told.evse[e] = EvseEffective(o, e)
    BY <2>1, <2>2, <2>3
  <2>5. \A s \in Slots : n.told.conn[s] = ConnectorEffective(o, s)
    BY <2>1, <2>2, <2>3, <1>1, EffectiveTypes, EffectiveLocal, SMTT(30)
  <2>6. QED
    BY <2>2, <2>4, <2>5, <1>2, <1>5, ToldFields
<1>7. ASSUME status = "Inoperative"
      PROVE  OnlyCloses(m, n) /\ \A s \in ConnectorsOf(es) : ConnectorEffective(n.op, s) = "Inoperative"
  BY <1>1, <1>2, <1>7, EffectiveTypes DEF OnlyCloses, ConnectorEffective, EvseEffective, ConnectorsOf
<1>8. QED
  BY <1>5, <1>6, <1>7

\* set_connector_individual_operational_status, for every connector of a set
LEMMA SetConnectorsKeeps ==
    ASSUME NEW m \in Managers, NEW ss \in SUBSET Slots, NEW status \in [Slots -> OperationalStatus],
           NEW persist \in BOOLEAN, NEW n, n = SetConnectors(m, ss, status, persist)
    PROVE  /\ n \in Managers
           /\ Told(m) => Told(n)
           /\ (\A s \in ss : status[s] = "Inoperative")
              => /\ OnlyCloses(m, n)
                 /\ \A s \in ss : ConnectorEffective(n.op, s) = "Inoperative"
<1> DEFINE o == [m.op EXCEPT !.conn = [s \in Slots |-> IF s \in ss THEN status[s] ELSE m.op.conn[s]]]
<1>1. /\ m.op \in Levels /\ m.told \in Levels /\ m.db \in Levels
      /\ o \in Levels /\ o.cs = m.op.cs /\ o.evse = m.op.evse
      /\ \A s \in Slots : o.conn[s] = IF s \in ss THEN status[s] ELSE m.op.conn[s]
  BY DEF Managers, Levels
<1>2. n.op = o /\ n.told = TriggerConnectors(o, m.told, ss)
  BY DEF SetConnectors
<1>3. n.db \in Levels
  BY <1>1 DEF SetConnectors, Levels
<1> HIDE DEF o
<1>4. TriggerConnectors(o, m.told, ss) \in Levels
  BY <1>1, EffectiveTypes DEF TriggerConnectors, Levels
<1>5. n \in Managers
  BY <1>1, <1>2, <1>3, <1>4 DEF SetConnectors, Managers
<1>6. ASSUME Told(m)
      PROVE  Told(n)
  <2>1. /\ m.told.cs = m.op.cs
        /\ \A e \in Evses : m.told.evse[e] = EvseEffective(m.op, e)
        /\ \A s \in Slots : m.told.conn[s] = ConnectorEffective(m.op, s)
    BY <1>6, ToldFields
  <2>2. /\ n.told.cs = o.cs
        /\ \A e \in Evses : n.told.evse[e] = m.told.evse[e]
        /\ \A s \in Slots : n.told.conn[s] = IF s \in ss THEN ConnectorEffective(o, s) ELSE m.told.conn[s]
    BY <1>1, <1>2, <2>1 DEF TriggerConnectors, Levels
  <2>3. \A e \in Evses : EvseEffective(m.op, e) = EvseEffective(o, e)
    BY <1>1, EffectiveLocal
  <2>4. ASSUME NEW s \in Slots
        PROVE  n.told.conn[s] = ConnectorEffective(o, s)
    <3>1. s[1] \in Evses
      BY SlotsAssumption
    <3>2. CASE s \in ss
      BY <2>2, <3>2
    <3>3. CASE s \notin ss
      BY <2>1, <2>2, <2>3, <1>1, <3>1, <3>3 DEF ConnectorEffective
    <3>4. QED
      BY <3>2, <3>3
  <2>5. QED
    BY <2>1, <2>2, <2>3, <2>4, <1>2, <1>5, ToldFields
<1>7. ASSUME \A s \in ss : status[s] = "Inoperative"
      PROVE  OnlyCloses(m, n) /\ \A s \in ss : ConnectorEffective(n.op, s) = "Inoperative"
  BY <1>1, <1>2, <1>7, EffectiveTypes DEF OnlyCloses, ConnectorEffective, EvseEffective
<1>8. QED
  BY <1>5, <1>6, <1>7

\* set_evse_connectors_unavailable
LEMMA SetUnavailableKeeps ==
    ASSUME NEW m \in Managers, NEW ss \in SUBSET Slots, NEW n, n = SetUnavailable(m, ss)
    PROVE  /\ n \in Managers
           /\ Told(m) => Told(n)
           /\ OnlyCloses(m, n)
           /\ \A s \in ss : ConnectorEffective(n.op, s) = "Inoperative"
<1> DEFINE closed == [s \in Slots |-> "Inoperative"]
<1>1. closed \in [Slots -> OperationalStatus] /\ \A s \in ss : closed[s] = "Inoperative"
  BY DEF OperationalStatus
<1>2. n = SetConnectors(m, ss, closed, FALSE)
  BY DEF SetUnavailable
<1> HIDE DEF closed
<1>3. QED
  BY <1>1, <1>2, SetConnectorsKeeps, ZenonT(30)

\* execute_change_availability_request
LEMMA ExecuteRequestKeeps ==
    ASSUME NEW m \in Managers, NEW request \in Requests, NEW persist \in BOOLEAN,
           NEW n, n = ExecuteRequest(m, request, persist)
    PROVE  /\ n \in Managers
           /\ Told(m) => Told(n)
           /\ \A e \in Evses : request = [target |-> <<e, 0>>, status |-> "Inoperative"]
                => /\ OnlyCloses(m, n)
                   /\ \A s \in ConnectorsOf({e}) : ConnectorEffective(n.op, s) = "Inoperative"
<1> DEFINE e == request.target[1]
           all == [s \in Slots |-> request.status]
<1>1. request.status \in OperationalStatus /\ request.target \in Targets
  BY DEF Requests
<1>2. CASE e = 0
  <2>1. n = SetCs(m, request.status, persist)
    BY <1>2 DEF ExecuteRequest
  <2>2. \A f \in Evses : request # [target |-> <<f, 0>>, status |-> "Inoperative"]
    BY <1>2, EvsesAssumption
  <2>3. QED
    BY <2>1, <2>2, <1>1, SetCsKeeps
<1>3. CASE e # 0 /\ request.target[2] = 0
  <2>1. e \in Evses
    BY <1>1, <1>3, SlotsAssumption DEF Targets
  <2>2. n = SetEvses(m, {e}, request.status, persist)
    BY <1>3 DEF ExecuteRequest
  <2>3. \A f \in Evses : request = [target |-> <<f, 0>>, status |-> "Inoperative"]
                         => f = e /\ request.status = "Inoperative"
    OBVIOUS
  <2> HIDE DEF e
  <2>4. {e} \in SUBSET Evses
    BY <2>1
  <2>5. /\ n \in Managers
        /\ Told(m) => Told(n)
        /\ request.status = "Inoperative"
           => /\ OnlyCloses(m, n)
              /\ \A s \in ConnectorsOf({e}) : ConnectorEffective(n.op, s) = "Inoperative"
    BY <2>2, <2>4, <1>1, SetEvsesKeeps
  <2>6. QED
    BY <2>3, <2>5
<1>4. CASE e # 0 /\ request.target[2] # 0
  <2>1. request.target \in Slots
    BY <1>1, <1>4, SlotsAssumption, EvsesAssumption DEF Targets
  <2>2. n = SetConnectors(m, {request.target}, all, persist)
    BY <1>4 DEF ExecuteRequest
  <2>3. \A f \in Evses : request # [target |-> <<f, 0>>, status |-> "Inoperative"]
    BY <1>4
  <2>4. all \in [Slots -> OperationalStatus]
    BY <1>1
  <2> HIDE DEF all
  <2>5. QED
    BY <2>1, <2>2, <2>3, <2>4, SetConnectorsKeeps
<1>5. QED
  BY <1>2, <1>3, <1>4

-----------------------------------------------------------------------------
(* Type correctness *)

\* What the message thread remembers of the CALL that it handles.
Handlers ==
    {Idle}
    \cup [kind : {"check", "accepted", "scheduled"}, request : Requests, active : BOOLEAN, already : BOOLEAN]
    \cup [kind : {"reset"}, key : Keys, type : {"Immediate", "OnIdle"},
          active : SUBSET Evses, idle : SUBSET Evses]

\* The type invariant, with the type of the handler.
TypeInv == TypeOK /\ handler \in Handlers

\* The request that a firmware update leaves with an EVSE that is charging.
OutOfService(e) == [target |-> <<e, 0>>, status |-> "Inoperative"]

Charging(e) == tx[e] # 0 \/ e \in finishing

\* While the update waits undisturbed, nothing is scheduled but its own requests, and one of them is
\* still to be executed: the last one calls the callback.
UpdateInv ==
    firmware = "waiting" /\ ~disturbed =>
        /\ \A k \in Keys : scheduled[k] # None => k # 0 /\ scheduled[k].request = OutOfService(k)
        /\ \E e \in Evses : Charging(e) /\ scheduled[e] # None
        /\ \A e \in Evses :
             \/ \A s \in ConnectorsOf({e}) : ConnectorEffective(states.op, s) = "Inoperative"
             \/ Charging(e) /\ scheduled[e] # None
        /\ handler.kind \notin {"accepted", "scheduled"}

LEMMA KeysFacts == 0 \in Keys /\ 0 \notin Evses /\ ResetKey \notin Keys /\ Evses \subseteq Keys /\ Keys \subseteq Nat
BY EvsesAssumption DEF Keys, ResetKey

LEMMA RequestFacts ==
    ASSUME NEW r \in Requests
    PROVE  r.target[1] \in Keys /\ r.status \in OperationalStatus /\ (r.target[1] # 0 => r.target[1] \in Evses)
BY SlotsAssumption DEF Requests, Targets, Keys

LEMMA HandlerFacts ==
    ASSUME handler \in Handlers
    PROVE  /\ handler.kind \in {"idle", "check", "accepted", "scheduled", "reset"}
           /\ handler.kind \in {"check", "accepted", "scheduled"} =>
                handler \in [kind : {"check", "accepted", "scheduled"}, request : Requests,
                             active : BOOLEAN, already : BOOLEAN]
           /\ handler.kind = "reset" =>
                /\ handler.key \in Keys /\ handler.active \in SUBSET Evses /\ handler.idle \in SUBSET Evses
BY DEF Handlers, Idle

\* What handle_scheduled_change_availability_requests works on.
Waiting == [m : Managers, sch : [Keys -> Changes \cup {None}], fw : {"idle", "waiting", "go"}]

LEMMA HandleScheduledKeeps ==
    ASSUME NEW x \in Waiting, NEW key \in Keys, NEW y, y = HandleScheduled(x, key)
    PROVE  /\ y \in Waiting
           /\ Told(x.m) => Told(y.m)
           /\ \/ (x.sch[key] = None \/ TransactionActive(key)) /\ y = x
              \/ /\ x.sch[key] # None /\ ~TransactionActive(key)
                 /\ x.sch[key] \in Changes
                 /\ y.m = ExecuteRequest(x.m, x.sch[key].request, x.sch[key].persist)
                 /\ y.sch = [x.sch EXCEPT ![key] = None]
                 /\ y.fw = IF x.fw = "waiting" /\ AllInoperative(y.m) THEN "go" ELSE x.fw
<1>1. CASE x.sch[key] = None \/ TransactionActive(key)
  BY <1>1 DEF HandleScheduled
<1>2. CASE ~(x.sch[key] = None \/ TransactionActive(key))
  <2> DEFINE m == ExecuteRequest(x.m, x.sch[key].request, x.sch[key].persist)
  <2>1. x.m \in Managers /\ x.sch[key] \in Changes /\ x.sch \in [Keys -> Changes \cup {None}]
        /\ x.fw \in {"idle", "waiting", "go"}
    BY <1>2 DEF Waiting
  <2>2. x.sch[key].request \in Requests /\ x.sch[key].persist \in BOOLEAN
    BY <2>1 DEF Changes
  <2>3. y = [m |-> m, sch |-> [x.sch EXCEPT ![key] = None],
             fw |-> IF x.fw = "waiting" /\ AllInoperative(m) THEN "go" ELSE x.fw]
    BY <1>2 DEF HandleScheduled
  <2>4. m \in Managers /\ (Told(x.m) => Told(m))
    BY <2>1, <2>2, ExecuteRequestKeeps
  <2> HIDE DEF m
  <2>5. y \in Waiting
    BY <2>1, <2>3, <2>4 DEF Waiting
  <2>6. QED
    BY <1>2, <2>1, <2>3, <2>4, <2>5 DEF m
<1>3. QED
  BY <1>1, <1>2

\* The part of on_transaction_finished that is about a reset
LEMMA ResetOnFinishKeeps ==
    ASSUME TypeOK, NEW m \in Managers, NEW e \in Evses, NEW r, r = ResetOnFinish(m, e)
    PROVE  /\ r.m \in Managers
           /\ Told(m) => Told(r.m)
           /\ OnlyCloses(m, r.m)
           /\ r.reset \in [scheduled : BOOLEAN, evseids : SUBSET Evses]
           /\ r.reset.evseids # {} => r.reset.scheduled
<1>1. r.m = m \/ r.m = SetUnavailable(m, ConnectorsOf({e}))
  BY DEF ResetOnFinish
<1>2. ConnectorsOf({e}) \in SUBSET Slots
  BY DEF ConnectorsOf
<1>3. r.m \in Managers /\ (Told(m) => Told(r.m)) /\ OnlyCloses(m, r.m)
  <2>1. CASE r.m = m
    BY <2>1 DEF OnlyCloses
  <2>2. CASE r.m = SetUnavailable(m, ConnectorsOf({e}))
    BY <2>2, <1>2, SetUnavailableKeeps
  <2>3. QED
    BY <1>1, <2>1, <2>2
<1>4. reset \in [scheduled : BOOLEAN, evseids : SUBSET Evses] /\ (reset.evseids # {} => reset.scheduled)
  BY DEF TypeOK
<1>5. /\ r.reset \in [scheduled : BOOLEAN, evseids : SUBSET Evses]
      /\ r.reset.evseids # {} => r.reset.scheduled
  <2>1. CASE ~reset.scheduled
    BY <2>1, <1>4 DEF ResetOnFinish
  <2>2. CASE reset.scheduled /\ reset.evseids # {}
    BY <2>2, <1>4 DEF ResetOnFinish
  <2>3. CASE reset.scheduled /\ reset.evseids = {}
    BY <2>3, <1>4 DEF ResetOnFinish
  <2>4. QED
    BY <2>1, <2>2, <2>3, <1>4
<1>6. QED
  BY <1>3, <1>5

\* The steps of on_transaction_finished after release_transaction, one after the other.
LEMMA SettleSteps ==
    ASSUME TypeInv, NEW e \in Evses, SettleTransaction(e)
    PROVE  \E r, w, x :
             /\ r = ResetOnFinish(states, e)
             /\ w = HandleScheduled([m |-> r.m, sch |-> scheduled, fw |-> firmware], e)
             /\ x = HandleScheduled(w, 0)
             /\ [m |-> r.m, sch |-> scheduled, fw |-> firmware] \in Waiting
             /\ w \in Waiting
             /\ x \in Waiting
             /\ states' = x.m /\ reset' = r.reset /\ scheduled' = x.sch /\ firmware' = x.fw
             /\ late' = {k \in late : IF k = ResetKey THEN r.reset.scheduled ELSE x.sch[k] # None}
             /\ disturbed' = (disturbed /\ x.fw = "waiting")
<1> DEFINE r == ResetOnFinish(states, e)
           v == [m |-> r.m, sch |-> scheduled, fw |-> firmware]
           w == HandleScheduled(v, e)
           x == HandleScheduled(w, 0)
<1>1. states \in Managers
  BY DEF TypeInv, TypeOK, Managers
<1>2. r.m \in Managers
  BY <1>1, ResetOnFinishKeeps DEF TypeInv
<1>3. v \in Waiting
  BY <1>2 DEF TypeInv, TypeOK, Waiting
<1>4. w \in Waiting
  <2> HIDE DEF v
  <2>1. QED
    BY <1>3, KeysFacts, HandleScheduledKeeps
<1>5. x \in Waiting
  <2> HIDE DEF w
  <2>1. QED
    BY <1>4, KeysFacts, HandleScheduledKeeps
<1>6. /\ states' = x.m /\ reset' = r.reset /\ scheduled' = x.sch /\ firmware' = x.fw
      /\ late' = {k \in late : IF k = ResetKey THEN r.reset.scheduled ELSE x.sch[k] # None}
      /\ disturbed' = (disturbed /\ x.fw = "waiting")
  BY Zenon DEF SettleTransaction
<1>7. QED
  BY <1>3, <1>4, <1>5, <1>6, Zenon

LEMMA BootedKeeps ==
    ASSUME NEW o \in Levels, NEW n, n = Booted(o)
    PROVE  n \in Managers /\ Told(n)
BY EffectiveTypes DEF Booted, Managers, Told

LEMMA InitTypes == Init => TypeInv /\ Told(states)
<1> SUFFICES ASSUME Init
             PROVE  TypeInv /\ Told(states)
  OBVIOUS
<1> DEFINE fresh == [cs |-> "Operative", evse |-> [e \in Evses |-> "Operative"], conn |-> [s \in Slots |-> "Operative"]]
<1>1. fresh \in Levels
  BY DEF Levels, OperationalStatus
<1>2. states = Booted(fresh)
  BY DEF Init
<1> HIDE DEF fresh
<1>3. states \in Managers /\ Told(states)
  BY <1>1, <1>2, BootedKeeps
<1>4. handler \in Handlers
  BY DEF Init, Handlers
<1>5. used \in [requests : 0..MaxRequests, events : 0..MaxEvents]
  BY BoundsAssumption DEF Init
<1>6. /\ scheduled \in [Keys -> Changes \cup {None}]
      /\ \A k \in Keys : scheduled[k] # None => scheduled[k].request.target[1] = k
  BY DEF Init
<1>7. /\ reset \in [scheduled : BOOLEAN, evseids : SUBSET Evses]
      /\ reset.evseids = {} /\ late = {} /\ disturbed = FALSE
  BY DEF Init
<1>8. /\ tx \in [Evses -> Nat] /\ finishing = {} /\ firmware = "idle"
      /\ \A e \in Evses : tx[e] = 0
  BY DEF Init
<1>9. QED
  BY <1>3, <1>4, <1>5, <1>6, <1>7, <1>8 DEF TypeInv, TypeOK, Managers

\* Every step keeps the types of the states and keeps the application informed.
LEMMA NextStates ==
    ASSUME TypeInv, [Next]_vars
    PROVE  states' \in Managers /\ (Told(states) => Told(states'))
<1> USE DEF TypeInv
<1>0. states \in Managers
  BY DEF TypeOK, Managers
<1>1. CASE UNCHANGED states
  BY <1>0, <1>1
<1>2. CASE ExecuteChange
  <2>1. handler.request \in Requests /\ handler.active \in BOOLEAN
    BY <1>2, HandlerFacts DEF ExecuteChange
  <2>2. CASE ~handler.active
    <3>1. \E persist \in BOOLEAN : states' = ExecuteRequest(states, handler.request, persist)
      BY <1>2, <2>2 DEF ExecuteChange
    <3>2. QED
      BY <3>1, <2>1, <1>0, ExecuteRequestKeeps
  <2>3. CASE handler.active /\ handler.kind = "scheduled" /\ handler.request.target[1] = 0
    <3>1. \E persist \in BOOLEAN : states' = SetEvses(states, {f \in Evses : tx[f] = 0}, "Inoperative", persist)
      BY <1>2, <2>3 DEF ExecuteChange, Blocked
    <3>2. {f \in Evses : tx[f] = 0} \in SUBSET Evses /\ "Inoperative" \in OperationalStatus
      BY DEF OperationalStatus
    <3>3. QED
      BY <3>1, <3>2, <1>0, SetEvsesKeeps
  <2>4. CASE handler.active /\ handler.kind = "scheduled" /\ handler.request.target[1] # 0
    <3>1. \E ss \in SUBSET Slots : states' = SetUnavailable(states, ss)
      BY <1>2, <2>4 DEF ExecuteChange, Blocked, ConnectorsOf
    <3>2. QED
      BY <3>1, <1>0, SetUnavailableKeeps
  <2>5. CASE handler.active /\ handler.kind # "scheduled"
    BY <1>0, <1>2, <2>5 DEF ExecuteChange
  <2>6. QED
    BY <2>1, <2>2, <2>3, <2>4, <2>5
<1>3. ASSUME NEW allowed \in BOOLEAN, AnswerReset(allowed)
      PROVE  states' \in Managers /\ (Told(states) => Told(states'))
  <2>1. states' = states \/ \E ss \in SUBSET Slots : states' = SetUnavailable(states, ss)
    BY <1>3 DEF AnswerReset, ConnectorsOf
  <2>2. QED
    BY <2>1, <1>0, SetUnavailableKeeps
<1>4. ASSUME NEW e \in Evses, SettleTransaction(e)
      PROVE  states' \in Managers /\ (Told(states) => Told(states'))
  <2>1. PICK r, w, x :
             /\ r = ResetOnFinish(states, e)
             /\ w = HandleScheduled([m |-> r.m, sch |-> scheduled, fw |-> firmware], e)
             /\ x = HandleScheduled(w, 0)
             /\ [m |-> r.m, sch |-> scheduled, fw |-> firmware] \in Waiting
             /\ w \in Waiting
             /\ x \in Waiting
             /\ states' = x.m
    BY <1>4, SettleSteps
  <2>2. Told(states) => Told(r.m)
    BY <2>1, <1>0, ResetOnFinishKeeps
  <2> DEFINE v == [m |-> r.m, sch |-> scheduled, fw |-> firmware]
  <2>3. v.m = r.m /\ v \in Waiting /\ w = HandleScheduled(v, e)
    BY <2>1
  <2> HIDE DEF v
  <2>4. Told(v.m) => Told(w.m)
    BY <2>1, <2>3, KeysFacts, HandleScheduledKeeps
  <2>5. Told(w.m) => Told(x.m)
    BY <2>1, KeysFacts, HandleScheduledKeeps
  <2>6. x.m \in Managers
    BY <2>1 DEF Waiting
  <2>7. QED
    BY <2>1, <2>2, <2>3, <2>4, <2>5, <2>6
<1>5. CASE FirmwareReady
  <2>1. \E ss \in SUBSET Slots : states' = SetUnavailable(states, ss)
    BY <1>5 DEF FirmwareReady, ConnectorsOf
  <2>2. QED
    BY <2>1, <1>0, SetUnavailableKeeps
<1>6. CASE FirmwareEnds
  <2>1. states.db.conn \in [Slots -> OperationalStatus] /\ Slots \in SUBSET Slots
    BY <1>0 DEF Managers, Levels
  <2>2. \E persist \in BOOLEAN : states' = SetConnectors(states, Slots, states.db.conn, persist)
    BY <1>6 DEF FirmwareEnds
  <2>3. QED
    BY <2>1, <2>2, <1>0, SetConnectorsKeeps
<1>7. CASE Restart
  <2>1. states.db \in Levels /\ states' = Booted(states.db)
    BY <1>0, <1>7 DEF Managers, Restart
  <2>2. QED
    BY <2>1, BootedKeeps
<1>8. QED
  BY <1>1, <1>2, <1>3, <1>4, <1>5, <1>6, <1>7
  DEF Next, HandlerStep, FinishStep, vars, CheckChange, CheckReset, Request, AnswerChange,
      StartTransaction, ReleaseTransaction

LEMMA NextTypes == TypeInv /\ [Next]_vars => TypeInv'
<1> SUFFICES ASSUME TypeInv, [Next]_vars
             PROVE  TypeInv'
  OBVIOUS
<1>0. states' \in [op : Levels, told : Levels, db : Levels]
  BY NextStates DEF Managers
<1> USE DEF TypeInv
<1>1. ASSUME NEW h, Request(h), h \in Handlers
      PROVE  TypeInv'
  <2>1. used' \in [requests : 0..MaxRequests, events : 0..MaxEvents]
    BY <1>1, BoundsAssumption DEF Request, TypeOK
  <2>2. QED
    BY <1>1, <2>1 DEF Request, TypeOK
<1>2. ASSUME NEW r \in Requests, CheckChange(r)
      PROVE  TypeInv'
  <2>1. TransactionActive(r.target[1]) \in BOOLEAN /\ IsAlreadyInState(r) \in BOOLEAN
    BY DEF TransactionActive, IsAlreadyInState
  <2>2. [kind |-> "check", request |-> r, active |-> TransactionActive(r.target[1]),
         already |-> IsAlreadyInState(r)] \in Handlers
    BY <2>1 DEF Handlers
  <2>3. QED
    BY <1>1, <1>2, <2>2 DEF CheckChange
<1>3. ASSUME NEW k \in Keys, NEW type \in {"Immediate", "OnIdle"}, CheckReset(k, type)
      PROVE  TypeInv'
  <2>1. ResetScope(k) \subseteq Evses
    BY KeysFacts DEF ResetScope, Keys
  <2>2. [kind |-> "reset", key |-> k, type |-> type, active |-> {e \in ResetScope(k) : tx[e] # 0},
         idle |-> {e \in ResetScope(k) : tx[e] = 0}] \in Handlers
    BY <2>1 DEF Handlers
  <2>3. QED
    BY <1>1, <1>3, <2>2 DEF CheckReset
<1>4. CASE AnswerChange
  <2> DEFINE key == handler.request.target[1]
             accepted == Accepted(handler.request, handler.active, handler.already)
  <2>1. handler \in [kind : {"check", "accepted", "scheduled"}, request : Requests, active : BOOLEAN, already : BOOLEAN]
    BY <1>4, HandlerFacts DEF AnswerChange
  <2>2. key \in Keys
    BY <2>1, RequestFacts
  <2>3. handler' \in Handlers
    BY <1>4, <2>1 DEF AnswerChange, Handlers
  <2>4. [request |-> handler.request, persist |-> TRUE] \in Changes
    BY <2>1 DEF Changes
  <2>5. scheduled' = [scheduled EXCEPT ![key] = IF accepted THEN None
                                                ELSE [request |-> handler.request, persist |-> TRUE]]
    BY <1>4 DEF AnswerChange
  <2>6. scheduled' \in [Keys -> Changes \cup {None}]
    BY <2>2, <2>4, <2>5 DEF TypeOK
  <2>7. \A k \in Keys : scheduled'[k] # None => scheduled'[k].request.target[1] = k
    BY <2>2, <2>5 DEF TypeOK
  <2>8. late' \subseteq Keys \cup {ResetKey} /\ disturbed' \in BOOLEAN
    BY <1>4, <2>2 DEF AnswerChange, TypeOK
  <2>9. QED
    BY <1>0, <1>4, <2>3, <2>6, <2>7, <2>8 DEF AnswerChange, TypeOK
<1>5. CASE ExecuteChange
  BY <1>0, <1>5 DEF ExecuteChange, TypeOK, Handlers
<1>6. ASSUME NEW allowed \in BOOLEAN, AnswerReset(allowed)
      PROVE  TypeInv'
  <2>1. handler.key \in Keys
    BY <1>6, HandlerFacts DEF AnswerReset
  <2>2. handler' \in Handlers
    BY <1>6 DEF AnswerReset, Handlers
  <2>3. reset' = reset \/ reset' = ScheduleReset(handler.key)
    BY <1>6 DEF AnswerReset
  <2>4. reset' \in [scheduled : BOOLEAN, evseids : SUBSET Evses] /\ (reset'.evseids # {} => reset'.scheduled)
    <3>1. CASE reset' = reset
      BY <3>1 DEF TypeOK
    <3>2. CASE reset' = ScheduleReset(handler.key)
      <4>1. reset'.scheduled = TRUE /\ DOMAIN reset' = {"scheduled", "evseids"}
        BY <3>2 DEF ScheduleReset
      <4>2. reset'.evseids \in SUBSET Evses
        BY <2>1, <3>2 DEF TypeOK, ScheduleReset, Keys
      <4>3. QED
        BY <3>2, <4>1, <4>2 DEF ScheduleReset
    <3>3. QED
      BY <2>3, <3>1, <3>2
  <2>5. late' \subseteq Keys \cup {ResetKey}
    BY <1>6 DEF AnswerReset, TypeOK
  <2>6. QED
    BY <1>0, <1>6, <2>2, <2>4, <2>5 DEF AnswerReset, TypeOK
<1>7. ASSUME NEW s \in Slots, StartTransaction(s)
      PROVE  TypeInv'
  <2>1. s[1] \in Evses /\ s[2] \in Nat \ {0} /\ s = <<s[1], s[2]>>
    BY SlotsAssumption
  <2>2. tx' \in [Evses -> Nat] /\ \A e \in Evses : tx'[e] # 0 => <<e, tx'[e]>> \in Slots
    BY <1>7, <2>1 DEF StartTransaction, TypeOK
  <2>3. \A e \in finishing : tx'[e] = 0
    BY <1>7, <2>1 DEF StartTransaction, TypeOK
  <2>4. QED
    BY <1>7, <2>2, <2>3 DEF StartTransaction, TypeOK
<1>8. ASSUME NEW e \in Evses, ReleaseTransaction(e)
      PROVE  TypeInv'
  BY <1>8 DEF ReleaseTransaction, TypeOK
<1>9. ASSUME NEW e \in Evses, SettleTransaction(e)
      PROVE  TypeInv'
  <2>1. PICK r, w, x :
             /\ r = ResetOnFinish(states, e)
             /\ w = HandleScheduled([m |-> r.m, sch |-> scheduled, fw |-> firmware], e)
             /\ x = HandleScheduled(w, 0)
             /\ [m |-> r.m, sch |-> scheduled, fw |-> firmware] \in Waiting
             /\ w \in Waiting
             /\ x \in Waiting
             /\ states' = x.m /\ reset' = r.reset /\ scheduled' = x.sch /\ firmware' = x.fw
             /\ late' = {k \in late : IF k = ResetKey THEN r.reset.scheduled ELSE x.sch[k] # None}
             /\ disturbed' = (disturbed /\ x.fw = "waiting")
    BY <1>9, SettleSteps
  <2>2. reset' \in [scheduled : BOOLEAN, evseids : SUBSET Evses] /\ (reset'.evseids # {} => reset'.scheduled)
    <3>1. states \in Managers
      BY DEF TypeOK, Managers
    <3>2. QED
      BY <2>1, <3>1, ResetOnFinishKeeps
  <2>3. scheduled' \in [Keys -> Changes \cup {None}] /\ firmware' \in {"idle", "waiting", "go"}
    BY <2>1 DEF Waiting
  <2> DEFINE v == [m |-> r.m, sch |-> scheduled, fw |-> firmware]
  <2>4. v.sch = scheduled /\ v \in Waiting /\ w = HandleScheduled(v, e)
    BY <2>1
  <2> HIDE DEF v
  <2>5. w.sch = scheduled \/ w.sch = [scheduled EXCEPT ![e] = None]
    BY <2>1, <2>4, KeysFacts, HandleScheduledKeeps
  <2>6. x.sch = w.sch \/ x.sch = [w.sch EXCEPT ![0] = None]
    BY <2>1, KeysFacts, HandleScheduledKeeps, SMTT(30)
  <2>7. \A k \in Keys : scheduled'[k] # None => scheduled'[k].request.target[1] = k
    <3>1. \A k \in Keys : x.sch[k] = None \/ x.sch[k] = scheduled[k]
      <4>1. scheduled \in [Keys -> Changes \cup {None}] /\ w.sch \in [Keys -> Changes \cup {None}]
        BY <2>1 DEF TypeOK, Waiting
      <4>2. \A k \in Keys : w.sch[k] = None \/ w.sch[k] = scheduled[k]
        BY <2>5, <4>1
      <4>3. \A k \in Keys : x.sch[k] = None \/ x.sch[k] = w.sch[k]
        BY <2>6, <4>1
      <4>4. QED
        BY <4>2, <4>3
    <3>2. QED
      BY <2>1, <3>1 DEF TypeOK
  <2>8. late' \subseteq Keys \cup {ResetKey} /\ disturbed' \in BOOLEAN
    BY <2>1 DEF TypeOK
  <2>9. finishing' \subseteq finishing /\ UNCHANGED <<tx, handler, used>>
    BY <1>9 DEF SettleTransaction
  <2>10. QED
    BY <1>0, <2>2, <2>3, <2>7, <2>8, <2>9 DEF TypeOK
<1>10. ASSUME Spend
       PROVE  used' \in [requests : 0..MaxRequests, events : 0..MaxEvents]
  BY <1>10, BoundsAssumption DEF Spend, TypeOK
<1>11. CASE FirmwareReady
  <2> DEFINE busy == {e \in Evses : tx[e] # 0}
             order(k) == [request |-> [target |-> <<k, 0>>, status |-> "Inoperative"], persist |-> FALSE]
  <2>1. \A k \in busy : order(k) \in Changes /\ order(k).request.target[1] = k
    BY DEF Changes, Requests, Targets, OperationalStatus
  <2>2. scheduled' = [k \in Keys |-> IF k \in busy THEN order(k) ELSE scheduled[k]]
    BY <1>11 DEF FirmwareReady
  <2> HIDE DEF order
  <2>3. scheduled' \in [Keys -> Changes \cup {None}]
    BY <2>1, <2>2 DEF TypeOK
  <2>4. \A k \in Keys : scheduled'[k] # None => scheduled'[k].request.target[1] = k
    BY <2>1, <2>2 DEF TypeOK
  <2>5. /\ firmware' \in {"idle", "waiting", "go"}
        /\ disturbed' \in BOOLEAN
        /\ late' \subseteq Keys \cup {ResetKey}
        /\ Spend
        /\ UNCHANGED <<tx, finishing, reset, handler>>
    BY <1>11 DEF FirmwareReady, TypeOK
  <2>6. QED
    BY <1>0, <1>10, <2>3, <2>4, <2>5 DEF TypeOK
<1>12. CASE FirmwareEnds
  BY <1>0, <1>10, <1>12 DEF FirmwareEnds, TypeOK
<1>13. CASE Restart
  <2>1. tx' \in [Evses -> Nat] /\ \A e \in Evses : tx'[e] # 0 => <<e, tx'[e]>> \in Slots
    BY <1>13 DEF Restart, TypeOK
  <2>2. QED
    BY <1>0, <1>10, <1>13, <2>1 DEF Restart, TypeOK, Handlers
<1>14. CASE UNCHANGED vars
  BY <1>14 DEF vars, TypeOK
<1>15. QED
  BY <1>2, <1>3, <1>4, <1>5, <1>6, <1>7, <1>8, <1>9, <1>11, <1>12, <1>13, <1>14
  DEF Next, HandlerStep, FinishStep

\* Every variable keeps its type, whatever orders, resets, updates and restarts come; a transaction
\* is always on a connector of its EVSE, and a scheduled request stands under its own EVSE.
THEOREM TypeCorrect == Spec => []TypeOK
<1>1. Init => TypeInv
  BY InitTypes
<1>2. TypeInv => TypeOK
  BY DEF TypeInv
<1>3. QED
  BY <1>1, <1>2, NextTypes, PTL DEF Spec

\* The application was told the effective status of the station, of every EVSE and of every
\* connector: the cascade of trigger_callbacks_cs and trigger_callbacks_evse leaves nothing out.
THEOREM ApplicationInformed == Spec => []EffectiveTold
<1> DEFINE Inv == TypeInv /\ Told(states)
<1>1. Init => Inv
  BY InitTypes
<1>2. Inv /\ [Next]_vars => Inv'
  BY NextTypes, NextStates DEF Told
<1>3. Inv => EffectiveTold
  BY DEF Told, EffectiveTold
<1>4. QED
  BY <1>1, <1>2, <1>3, PTL DEF Spec

-----------------------------------------------------------------------------
(* What is scheduled waits for a transaction *)

\* on_transaction_finished takes the request of its EVSE, and the one of the station when no
\* transaction is left; it leaves the others alone.
LEMMA SettleSchedule ==
    ASSUME TypeInv, NEW e \in Evses, SettleTransaction(e)
    PROVE  /\ tx[e] = 0
           /\ scheduled'[e] = None
           /\ TransactionActive(0) => scheduled'[0] = scheduled[0]
           /\ ~TransactionActive(0) => scheduled'[0] = None
           /\ \A k \in Keys \ {0, e} : scheduled'[k] = scheduled[k]
           /\ \A k \in late : k \in Keys /\ scheduled'[k] # None => k \in late'
<1>1. PICK r, w, x :
           /\ r = ResetOnFinish(states, e)
           /\ w = HandleScheduled([m |-> r.m, sch |-> scheduled, fw |-> firmware], e)
           /\ x = HandleScheduled(w, 0)
           /\ [m |-> r.m, sch |-> scheduled, fw |-> firmware] \in Waiting
           /\ w \in Waiting
           /\ x \in Waiting
           /\ scheduled' = x.sch
           /\ late' = {k \in late : IF k = ResetKey THEN r.reset.scheduled ELSE x.sch[k] # None}
  BY SettleSteps
<1> DEFINE v == [m |-> r.m, sch |-> scheduled, fw |-> firmware]
<1>2. v.sch = scheduled /\ v \in Waiting /\ w = HandleScheduled(v, e)
  BY <1>1
<1> HIDE DEF v
<1>3. tx[e] = 0 /\ ~TransactionActive(e)
  BY KeysFacts DEF SettleTransaction, TypeInv, TypeOK, TransactionActive
<1>4. scheduled \in [Keys -> Changes \cup {None}] /\ w.sch \in [Keys -> Changes \cup {None}]
  BY <1>1 DEF TypeInv, TypeOK, Waiting
<1>5. w.sch[e] = None /\ \A k \in Keys \ {e} : w.sch[k] = scheduled[k]
  <2>1. \/ v.sch[e] = None /\ w = v
        \/ w.sch = [v.sch EXCEPT ![e] = None]
    BY <1>2, <1>3, KeysFacts, HandleScheduledKeeps
  <2>2. QED
    BY <2>1, <1>2, <1>4, KeysFacts
<1>6. /\ TransactionActive(0) => x.sch = w.sch
      /\ ~TransactionActive(0) => x.sch[0] = None
      /\ \A k \in Keys \ {0} : x.sch[k] = w.sch[k]
  <2>1. \/ (w.sch[0] = None \/ TransactionActive(0)) /\ x = w
        \/ ~TransactionActive(0) /\ x.sch = [w.sch EXCEPT ![0] = None]
    BY <1>1, KeysFacts, HandleScheduledKeeps
  <2>2. QED
    BY <2>1, <1>4, KeysFacts
<1>7. /\ TransactionActive(0) => x.sch[0] = scheduled[0]
      /\ x.sch[e] = None
      /\ \A k \in Keys \ {0, e} : x.sch[k] = scheduled[k]
  BY <1>5, <1>6, KeysFacts
<1>8. \A k \in late : k \in Keys /\ x.sch[k] # None => k \in late'
  BY <1>1, KeysFacts
<1>9. QED
  BY <1>1, <1>3, <1>6, <1>7, <1>8

\* A request that is scheduled waits for a transaction that is running or being finished, or was
\* scheduled for one that had finished before: none is forgotten.
THEOREM NothingForgotten == Spec => []ScheduledWaits
<1> DEFINE Inv == TypeInv /\ ScheduledWaits
<1>1. Init => Inv
  <2>1. Init => ScheduledWaits
    BY DEF Init, ScheduledWaits
  <2>2. QED
    BY <2>1, InitTypes
<1>2. ASSUME TypeInv, ScheduledWaits, [Next]_vars
      PROVE  ScheduledWaits'
  <2> USE DEF TypeInv, ScheduledWaits
  <2>0. scheduled \in [Keys -> Changes \cup {None}] /\ tx \in [Evses -> Nat] /\ finishing \subseteq Evses
    BY <1>2 DEF TypeOK
  <2>1. ASSUME UNCHANGED <<tx, finishing, scheduled>>, late \subseteq late'
        PROVE  ScheduledWaits'
    BY <1>2, <2>1 DEF TransactionActive, WillSettle
  <2>2. CASE AnswerChange
    <3> DEFINE key == handler.request.target[1]
               accepted == Accepted(handler.request, handler.active, handler.already)
    <3>1. key \in Keys
      BY <1>2, <2>2, HandlerFacts, RequestFacts DEF AnswerChange
    <3>2. /\ scheduled' = [scheduled EXCEPT ![key] = IF accepted THEN None
                                                     ELSE [request |-> handler.request, persist |-> TRUE]]
          /\ late' = IF ~accepted /\ ~TransactionActive(key) /\ ~WillSettle(key)
                     THEN late \cup {key} ELSE late \ {key}
          /\ UNCHANGED <<tx, finishing>>
      BY <2>2 DEF AnswerChange
    <3> HIDE DEF accepted, key
    <3>3. SUFFICES ASSUME NEW k \in Keys, scheduled'[k] # None
                   PROVE  TransactionActive(k) \/ WillSettle(k) \/ k \in late'
      BY <3>2 DEF TransactionActive, WillSettle
    <3>4. CASE k = key
      BY <3>1, <3>2, <3>3, <3>4, <2>0
    <3>5. CASE k # key
      BY <1>2, <3>1, <3>2, <3>3, <3>5, <2>0
    <3>6. QED
      BY <3>4, <3>5
  <2>3. ASSUME NEW s \in Slots, StartTransaction(s)
        PROVE  ScheduledWaits'
    <3>1. s[1] \in Evses /\ s[2] # 0
      BY SlotsAssumption
    <3>2. /\ UNCHANGED <<scheduled, finishing, late>>
          /\ \A e \in Evses : tx[e] # 0 => tx'[e] # 0
      BY <2>0, <2>3, <3>1 DEF StartTransaction
    <3>3. \A k \in Keys : TransactionActive(k) => TransactionActive(k)'
      BY <3>2 DEF TransactionActive, Keys
    <3>4. QED
      BY <1>2, <3>2, <3>3 DEF WillSettle
  <2>4. ASSUME NEW e \in Evses, ReleaseTransaction(e)
        PROVE  ScheduledWaits'
    <3>1. /\ UNCHANGED <<scheduled, late>>
          /\ finishing' = finishing \cup {e}
          /\ \A f \in Evses \ {e} : tx'[f] = tx[f]
      BY <2>0, <2>4 DEF ReleaseTransaction
    <3>2. \A k \in Keys : TransactionActive(k) \/ WillSettle(k) => TransactionActive(k)' \/ WillSettle(k)'
      BY <3>1, KeysFacts DEF TransactionActive, WillSettle, Keys
    <3>3. QED
      BY <1>2, <3>1, <3>2
  <2>5. ASSUME NEW e \in Evses, SettleTransaction(e)
        PROVE  ScheduledWaits'
    <3>1. UNCHANGED tx /\ finishing' = finishing \ {e}
      BY <2>5 DEF SettleTransaction
    <3>2. ASSUME NEW k \in Keys, scheduled'[k] # None
          PROVE  TransactionActive(k) \/ WillSettle(k)' \/ k \in late'
      <4>1. k # e /\ (k = 0 => TransactionActive(0)) /\ scheduled[k] # None
        BY <1>2, <2>5, <3>2, SettleSchedule
      <4>2. CASE k = 0
        BY <4>1, <4>2
      <4>3. CASE k # 0 /\ k \in late
        BY <1>2, <2>5, <3>2, <4>3, SettleSchedule
      <4>4. CASE k # 0 /\ k \notin late
        BY <1>2, <3>1, <4>1, <4>4 DEF WillSettle
      <4>5. QED
        BY <4>2, <4>3, <4>4
    <3>3. QED
      BY <3>1, <3>2 DEF TransactionActive
  <2>6. CASE FirmwareReady
    <3> DEFINE busy == {e \in Evses : tx[e] # 0}
    <3>1. /\ UNCHANGED <<tx, finishing>> /\ late' = late \ busy
          /\ \A k \in Keys \ busy : scheduled'[k] = scheduled[k]
      BY <2>6 DEF FirmwareReady
    <3>2. \A k \in busy : TransactionActive(k)
      BY KeysFacts DEF TransactionActive
    <3>3. SUFFICES ASSUME NEW k \in Keys, scheduled'[k] # None
                   PROVE  TransactionActive(k) \/ WillSettle(k) \/ k \in late'
      BY <3>1 DEF TransactionActive, WillSettle
    <3>4. QED
      BY <1>2, <3>1, <3>2, <3>3
  <2>7. CASE Restart
    BY <2>7 DEF Restart
  <2>8. QED
    BY <1>2, <2>1, <2>2, <2>3, <2>4, <2>5, <2>6, <2>7
    DEF Next, HandlerStep, FinishStep, vars, CheckChange, CheckReset, Request, ExecuteChange, AnswerReset,
        FirmwareEnds
<1>3. Inv /\ [Next]_vars => Inv'
  BY <1>2, NextTypes
<1>4. QED
  BY <1>1, <1>3, PTL DEF Spec

-----------------------------------------------------------------------------
(* A firmware update that waits *)

\* A step that takes connectors out of service and touches nothing the update waits for.
LEMMA UpdateKept ==
    ASSUME UpdateInv, OnlyCloses(states, states'), UNCHANGED <<tx, finishing, scheduled, firmware, disturbed>>,
           firmware = "waiting" /\ ~disturbed => handler'.kind \notin {"accepted", "scheduled"}
    PROVE  UpdateInv'
<1> SUFFICES ASSUME firmware = "waiting", ~disturbed
             PROVE  UpdateInv'
  BY DEF UpdateInv
<1>1. \A e \in Evses : \A s \in ConnectorsOf({e}) :
        ConnectorEffective(states.op, s) = "Inoperative" => ConnectorEffective(states'.op, s) = "Inoperative"
  BY DEF OnlyCloses, ConnectorsOf
<1>2. \A e \in Evses : Charging(e) <=> Charging(e)'
  BY DEF Charging
<1>3. QED
  BY <1>1, <1>2 DEF UpdateInv

\* The request of the update takes the EVSE out of service and brings nothing back.
LEMMA OutOfServiceExecuted ==
    ASSUME NEW m \in Managers, NEW e \in Evses, NEW persist \in BOOLEAN,
           NEW n, n = ExecuteRequest(m, OutOfService(e), persist)
    PROVE  /\ OnlyCloses(m, n)
           /\ \A s \in ConnectorsOf({e}) : ConnectorEffective(n.op, s) = "Inoperative"
<1> DEFINE request == OutOfService(e)
<1>1. request \in Requests /\ request = [target |-> <<e, 0>>, status |-> "Inoperative"]
  BY DEF OutOfService, Requests, Targets, OperationalStatus
<1>2. n = ExecuteRequest(m, request, persist)
  OBVIOUS
<1> HIDE DEF request
<1>3. \A f \in Evses : request = [target |-> <<f, 0>>, status |-> "Inoperative"]
        => /\ OnlyCloses(m, n)
           /\ \A s \in ConnectorsOf({f}) : ConnectorEffective(n.op, s) = "Inoperative"
  <2>1. request \in Requests
    BY <1>1
  <2>2. QED
    BY <1>2, <2>1, ExecuteRequestKeeps, ZenonT(30)
<1>4. QED
  BY <1>1, <1>3, Zenon

LEMMA HandleScheduledWaits ==
    ASSUME NEW x, NEW key, HandleScheduled(x, key).fw = "waiting"
    PROVE  x.fw = "waiting"
BY DEF HandleScheduled

\* on_transaction_finished, while the update waits undisturbed: a request of the update is executed,
\* or there was none, and the callback is called when that was the last connector.
LEMMA SettleUpdate ==
    ASSUME TypeInv, UpdateInv, NEW e \in Evses, SettleTransaction(e), firmware = "waiting", ~disturbed
    PROVE  /\ OnlyCloses(states, states')
           /\ scheduled[e] # None => /\ \A s \in ConnectorsOf({e}) : ConnectorEffective(states'.op, s) = "Inoperative"
                                     /\ AllInoperative(states') => firmware' = "go"
<1>1. PICK r, w, x :
           /\ r = ResetOnFinish(states, e)
           /\ w = HandleScheduled([m |-> r.m, sch |-> scheduled, fw |-> firmware], e)
           /\ x = HandleScheduled(w, 0)
           /\ [m |-> r.m, sch |-> scheduled, fw |-> firmware] \in Waiting
           /\ w \in Waiting
           /\ x \in Waiting
           /\ states' = x.m /\ firmware' = x.fw
  BY SettleSteps
<1>2. r.m \in Managers /\ OnlyCloses(states, r.m)
  BY <1>1, ResetOnFinishKeeps DEF TypeInv, TypeOK, Managers
<1> DEFINE v == [m |-> r.m, sch |-> scheduled, fw |-> firmware]
<1>3. v.m = r.m /\ v.sch = scheduled /\ v.fw = "waiting" /\ v \in Waiting /\ w = HandleScheduled(v, e)
  BY <1>1
<1> HIDE DEF v
<1>4. tx[e] = 0 /\ ~TransactionActive(e)
  BY KeysFacts DEF SettleTransaction, TypeInv, TypeOK, TransactionActive
<1>5. \/ scheduled[e] = None /\ w = v
      \/ /\ scheduled[e] # None
         /\ scheduled[e] \in Changes
         /\ w.m = ExecuteRequest(r.m, scheduled[e].request, scheduled[e].persist)
         /\ w.sch = [scheduled EXCEPT ![e] = None]
         /\ AllInoperative(w.m) => w.fw = "go"
  BY <1>3, <1>4, KeysFacts, HandleScheduledKeeps
<1>6. scheduled[0] = None /\ w.sch[0] = None
  BY <1>3, <1>5, KeysFacts DEF UpdateInv, TypeInv, TypeOK
<1>7. x = w
  BY <1>1, <1>6 DEF HandleScheduled
<1>8. CASE scheduled[e] = None
  BY <1>1, <1>2, <1>3, <1>5, <1>7, <1>8
<1>9. CASE scheduled[e] # None
  <2>1. /\ scheduled[e].request = OutOfService(e)
        /\ scheduled[e].request \in Requests /\ scheduled[e].persist \in BOOLEAN
    BY <1>5, <1>9, KeysFacts DEF UpdateInv, Changes
  <2>2. /\ OnlyCloses(r.m, w.m)
        /\ \A s \in ConnectorsOf({e}) : ConnectorEffective(w.m.op, s) = "Inoperative"
    BY <1>2, <1>5, <1>9, <2>1, OutOfServiceExecuted
  <2>3. QED
    BY <1>1, <1>2, <1>5, <1>7, <1>9, <2>2 DEF OnlyCloses
<1>10. QED
  BY <1>8, <1>9

LEMMA NextUpdateInv ==
    ASSUME TypeInv, Told(states), UpdateInv, [Next]_vars
    PROVE  UpdateInv'
<1>0. states \in Managers /\ scheduled \in [Keys -> Changes \cup {None}] /\ tx \in [Evses -> Nat]
      /\ finishing \subseteq Evses
  BY DEF TypeInv, TypeOK, Managers
<1>1. OnlyCloses(states, states)
  BY DEF OnlyCloses
<1>2. ASSUME NEW h, Request(h), h.kind \notin {"accepted", "scheduled"}
      PROVE  UpdateInv'
  BY <1>1, <1>2, UpdateKept DEF Request
<1>3. ASSUME NEW r \in Requests, CheckChange(r)
      PROVE  UpdateInv'
  BY <1>2, <1>3 DEF CheckChange
<1>4. ASSUME NEW k \in Keys, NEW type \in {"Immediate", "OnIdle"}, CheckReset(k, type)
      PROVE  UpdateInv'
  BY <1>2, <1>4 DEF CheckReset
<1>5. CASE AnswerChange \/ ExecuteChange
  <2>1. firmware' = firmware /\ disturbed' = (firmware = "waiting")
    BY <1>5 DEF AnswerChange, ExecuteChange
  <2>2. QED
    BY <2>1 DEF UpdateInv
<1>6. ASSUME NEW allowed \in BOOLEAN, AnswerReset(allowed)
      PROVE  UpdateInv'
  <2>1. states' = states \/ \E ss \in SUBSET Slots : states' = SetUnavailable(states, ss)
    BY <1>6 DEF AnswerReset, ConnectorsOf
  <2>2. OnlyCloses(states, states')
    BY <2>1, <1>0, <1>1, SetUnavailableKeeps
  <2>3. handler'.kind = "idle" /\ UNCHANGED <<tx, finishing, scheduled, firmware, disturbed>>
    BY <1>6 DEF AnswerReset, Idle
  <2>4. QED
    BY <2>2, <2>3, UpdateKept
<1>7. ASSUME NEW s \in Slots, StartTransaction(s)
      PROVE  UpdateInv'
  <2>1. s[1] \in Evses /\ s \in ConnectorsOf({s[1]})
    BY SlotsAssumption DEF ConnectorsOf
  <2>2. ~Charging(s[1]) /\ firmware' = firmware /\ disturbed' = disturbed
    BY <1>7 DEF StartTransaction, Charging
  <2>3. ConnectorEffective(states.op, s) = "Operative"
    BY <1>0, <1>7, ToldFields DEF StartTransaction
  <2>4. ~(firmware = "waiting" /\ ~disturbed)
    BY <2>1, <2>2, <2>3 DEF UpdateInv
  <2>5. QED
    BY <2>2, <2>4 DEF UpdateInv
<1>8. ASSUME NEW e \in Evses, ReleaseTransaction(e)
      PROVE  UpdateInv'
  <2>1. /\ UNCHANGED <<states, scheduled, handler, firmware, disturbed>>
        /\ \A f \in Evses : Charging(f) => Charging(f)'
    BY <1>0, <1>8 DEF ReleaseTransaction, Charging
  <2>2. QED
    BY <2>1 DEF UpdateInv, ConnectorsOf
<1>9. ASSUME NEW e \in Evses, SettleTransaction(e)
      PROVE  UpdateInv'
  <2>1. SUFFICES ASSUME firmware' = "waiting", ~disturbed'
                 PROVE  UpdateInv'
    BY DEF UpdateInv
  <2>2. firmware = "waiting" /\ ~disturbed
    <3>1. PICK r, w, x :
               /\ w = HandleScheduled([m |-> r.m, sch |-> scheduled, fw |-> firmware], e)
               /\ x = HandleScheduled(w, 0)
               /\ [m |-> r.m, sch |-> scheduled, fw |-> firmware] \in Waiting
               /\ w \in Waiting
               /\ firmware' = x.fw
               /\ disturbed' = (disturbed /\ x.fw = "waiting")
      BY <1>9, SettleSteps
    <3> DEFINE v == [m |-> r.m, sch |-> scheduled, fw |-> firmware]
    <3>2. v.fw = firmware /\ v \in Waiting /\ w = HandleScheduled(v, e)
      BY <3>1
    <3> HIDE DEF v
    <3>3. w.fw = "waiting" => firmware = "waiting"
      BY <3>2, HandleScheduledWaits
    <3>4. x.fw = "waiting" => w.fw = "waiting"
      BY <3>1, HandleScheduledWaits
    <3>5. QED
      BY <3>1, <3>3, <3>4, <2>1
  <2>3. /\ OnlyCloses(states, states')
        /\ scheduled[e] # None => /\ \A s \in ConnectorsOf({e}) : ConnectorEffective(states'.op, s) = "Inoperative"
                                  /\ ~AllInoperative(states')
    BY <1>9, <2>1, <2>2, SettleUpdate
  <2>4. /\ scheduled'[e] = None
        /\ \A k \in Keys \ {0, e} : scheduled'[k] = scheduled[k]
        /\ scheduled'[0] \in {None, scheduled[0]}
    BY <1>9, SettleSchedule
  <2>5. UNCHANGED <<tx, handler>> /\ finishing' = finishing \ {e}
    BY <1>9 DEF SettleTransaction
  <2>6. \A k \in Keys : scheduled'[k] # None => k # 0 /\ scheduled'[k].request = OutOfService(k)
    BY <2>2, <2>4, KeysFacts DEF UpdateInv
  <2>7. \A f \in Evses \ {e} : Charging(f) /\ scheduled[f] # None => Charging(f)' /\ scheduled'[f] # None
    BY <2>4, <2>5, KeysFacts DEF Charging
  <2>8. ASSUME NEW f \in Evses
        PROVE  \/ \A s \in ConnectorsOf({f}) : ConnectorEffective(states'.op, s) = "Inoperative"
               \/ Charging(f)' /\ scheduled'[f] # None
    <3>1. \/ \A s \in ConnectorsOf({f}) : ConnectorEffective(states.op, s) = "Inoperative"
          \/ Charging(f) /\ scheduled[f] # None
      BY <2>2 DEF UpdateInv
    <3>2. CASE \A s \in ConnectorsOf({f}) : ConnectorEffective(states.op, s) = "Inoperative"
      BY <3>2, <2>3 DEF OnlyCloses, ConnectorsOf
    <3>3. CASE Charging(f) /\ scheduled[f] # None
      BY <3>3, <2>3, <2>7
    <3>4. QED
      BY <3>1, <3>2, <3>3
  <2>9. \E f \in Evses : Charging(f)' /\ scheduled'[f] # None
    <3>1. CASE scheduled[e] = None
      BY <3>1, <2>2, <2>7 DEF UpdateInv
    <3>2. CASE scheduled[e] # None
      <4>1. PICK s \in Slots : ConnectorEffective(states'.op, s) # "Inoperative"
        BY <3>2, <2>3 DEF AllInoperative
      <4>2. s[1] \in Evses /\ s \in ConnectorsOf({s[1]})
        BY SlotsAssumption DEF ConnectorsOf
      <4>3. QED
        BY <4>1, <4>2, <2>8
    <3>3. QED
      BY <3>1, <3>2
  <2>10. handler'.kind \notin {"accepted", "scheduled"}
    BY <2>2, <2>5 DEF UpdateInv
  <2>11. QED
    BY <2>6, <2>8, <2>9, <2>10 DEF UpdateInv, ConnectorsOf
<1>10. CASE FirmwareReady
  <2> DEFINE busy == {e \in Evses : tx[e] # 0}
             ss == ConnectorsOf(Evses \ busy)
             order(k) == [request |-> [target |-> <<k, 0>>, status |-> "Inoperative"], persist |-> FALSE]
  <2>1. /\ states' = SetUnavailable(states, ss)
        /\ scheduled' = [k \in Keys |-> IF k \in busy THEN order(k) ELSE scheduled[k]]
        /\ firmware' = IF busy = {} /\ AllInoperative(states') THEN "go" ELSE "waiting"
        /\ disturbed' = (firmware' = "waiting" /\ (handler # Idle \/ \E k \in Keys \ busy : scheduled[k] # None))
        /\ UNCHANGED <<tx, finishing, handler>>
    BY <1>10 DEF FirmwareReady
  <2>2. SUFFICES ASSUME firmware' = "waiting", ~disturbed'
                 PROVE  UpdateInv'
    BY DEF UpdateInv
  <2>3. handler = Idle /\ \A k \in Keys \ busy : scheduled[k] = None
    BY <2>1, <2>2
  <2>4. ss \in SUBSET Slots
    BY DEF ConnectorsOf
  <2>5. \A k \in busy : order(k).request = OutOfService(k) /\ order(k) \in Changes
    BY DEF OutOfService, Changes, Requests, Targets, OperationalStatus
  <2> HIDE DEF ss, order
  <2>6. \A s \in ss : ConnectorEffective(states'.op, s) = "Inoperative"
    BY <1>0, <2>1, <2>4, SetUnavailableKeeps
  <2>7. /\ \A k \in Keys \ busy : scheduled'[k] = None
        /\ \A k \in busy : scheduled'[k] # None /\ scheduled'[k].request = OutOfService(k)
    BY <2>1, <2>3, <2>5, NoneAssumption, KeysFacts
  <2>8. busy # {}
    <3>1. SUFFICES ASSUME busy = {}
                   PROVE  FALSE
      OBVIOUS
    <3>2. ss = Slots
      BY <3>1, SlotsAssumption DEF ss, ConnectorsOf
    <3>3. QED
      BY <3>1, <3>2, <2>1, <2>2, <2>6 DEF AllInoperative
  <2>9. \A e \in Evses \ busy : ConnectorsOf({e}) \subseteq ss
    BY DEF ConnectorsOf, ss
  <2>10. \A e \in busy : Charging(e)'
    BY <2>1 DEF Charging
  <2>11. \A e \in Evses :
             \/ \A s \in ConnectorsOf({e}) : ConnectorEffective(states'.op, s) = "Inoperative"
             \/ Charging(e)' /\ scheduled'[e] # None
    BY <2>6, <2>7, <2>9, <2>10
  <2>12. \A k \in Keys : scheduled'[k] # None => k # 0 /\ scheduled'[k].request = OutOfService(k)
    BY <2>7, KeysFacts
  <2>13. handler'.kind \notin {"accepted", "scheduled"}
    BY <2>1, <2>3 DEF Idle
  <2>14. QED
    BY <2>7, <2>8, <2>10, <2>11, <2>12, <2>13 DEF UpdateInv, ConnectorsOf
<1>11. CASE FirmwareEnds \/ Restart
  BY <1>11 DEF FirmwareEnds, Restart, UpdateInv
<1>12. CASE UNCHANGED vars
  BY <1>1, <1>12, UpdateKept DEF vars, UpdateInv
<1>13. QED
  BY <1>3, <1>4, <1>5, <1>6, <1>7, <1>8, <1>9, <1>10, <1>11, <1>12 DEF Next, HandlerStep, FinishStep

\* A firmware update that waits for all_connectors_unavailable_callback waits for a transaction, and
\* no other can start meanwhile, unless a ChangeAvailability of the CSMS came in between.
THEOREM UpdateWaitsForTransactions == Spec => []UpdateWaits
<1> DEFINE Inv == TypeInv /\ Told(states) /\ UpdateInv
<1>1. Init => Inv
  <2>1. Init => UpdateInv
    BY DEF Init, UpdateInv
  <2>2. QED
    BY <2>1, InitTypes
<1>2. Inv /\ [Next]_vars => Inv'
  <2>1. ASSUME Inv, [Next]_vars
        PROVE  Told(states)'
    BY <2>1, NextStates DEF Told
  <2>2. ASSUME Inv, [Next]_vars
        PROVE  TypeInv' /\ UpdateInv'
    BY <2>2, NextTypes, NextUpdateInv
  <2>3. QED
    BY <2>1, <2>2
<1>3. Inv => UpdateWaits
  <2>1. ASSUME UpdateInv, firmware = "waiting", ~disturbed
        PROVE  UpdateWaits
    BY <2>1, KeysFacts DEF UpdateInv, UpdateWaits, Charging, OutOfService
  <2>2. QED
    BY <2>1 DEF UpdateWaits
<1>4. QED
  BY <1>1, <1>2, <1>3, PTL DEF Spec

=============================================================================
