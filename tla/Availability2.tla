---------------------------- MODULE Availability2 ----------------------------
(***************************************************************************)
(* Operational states of an OCPP 2.x station: ComponentStateManager (what  *)
(* is ordered for the station, an EVSE or a connector, what follows from   *)
(* it, what is stored and what the application was told), and the three    *)
(* blocks that change them: ChangeAvailability, Reset and the firmware     *)
(* update.  They meet in on_transaction_finished, which carries out what   *)
(* had to wait for the transaction.                                        *)
(*                                                                         *)
(* The message thread handles one CALL of the CSMS at a time; it holds no  *)
(* lock, so transactions start and finish between the steps of a handler.  *)
(* The application starts a transaction only on a connector whose last     *)
(* callback said Operative, and finishes every transaction it starts.      *)
(***************************************************************************)
EXTENDS Integers, FiniteSets

CONSTANTS
    Evses,          \* ids of the EVSEs; 0 stands for the whole station
    Slots,          \* the connectors, as pairs <<evse, connector>>
    Resume,         \* ResumeTransactionsOnBoot
    MaxRequests,    \* bound on ChangeAvailability and Reset requests
    MaxEvents,      \* bound on reports of the firmware update and restarts
    None

ASSUME EvsesAssumption == Evses \subseteq Nat \ {0}
ASSUME BoundsAssumption == MaxRequests \in Nat /\ MaxEvents \in Nat
ASSUME SlotsAssumption == Slots \subseteq Evses \X (Nat \ {0})

VARIABLES
    states,         \* the ComponentStateManager: [op, told, db]
    tx,             \* evse -> connector of its transaction, 0 when it has none
    finishing,      \* EVSEs whose transaction is released, the rest of on_transaction_finished to come
    scheduled,      \* scheduled_change_availability_requests, by EVSE id
    reset,          \* reset_scheduled and reset_scheduled_evseids
    handler,        \* the CALL that the message thread is handling
    firmware,       \* "idle", "waiting" for all connectors to be unavailable, or "go"
    late,           \* keys of requests that were scheduled for a transaction that had finished
    disturbed,      \* a ChangeAvailability was under way or came while the update waited
    used            \* how much of each bound is used

vars == <<states, tx, finishing, scheduled, reset, handler, firmware, late, disturbed, used>>

OperationalStatus == {"Operative", "Inoperative"}
Levels == [cs : OperationalStatus, evse : [Evses -> OperationalStatus], conn : [Slots -> OperationalStatus]]

\* ChangeAvailabilityRequest: the station (0, 0), an EVSE (e, 0) or a connector (e, c).
Targets == {<<0, 0>>} \cup (Evses \X {0}) \cup Slots
Requests == [target : Targets, status : OperationalStatus]
Changes == [request : Requests, persist : BOOLEAN]

ASSUME NoneAssumption == None \notin Changes

Idle == [kind |-> "idle"]
Keys == Evses \cup {0}
ResetKey == -1

-----------------------------------------------------------------------------
(* ComponentStateManager *)

EvseEffective(o, e) == IF o.cs = "Inoperative" THEN "Inoperative" ELSE o.evse[e]

ConnectorEffective(o, s) ==
    IF EvseEffective(o, s[1]) = "Inoperative" THEN "Inoperative" ELSE o.conn[s]

\* A cascade that stops at the EVSEs.
TriggerCs_Shallow(o, t) ==
    [t EXCEPT !.cs = o.cs, !.evse = [e \in Evses |-> EvseEffective(o, e)]]

\* Only a level whose effective status changed is told, and only then are the levels below it looked at.
TriggerCs(o, t) ==
    IF t.cs = o.cs
    THEN t
    ELSE [cs   |-> o.cs,
          evse |-> [e \in Evses |-> EvseEffective(o, e)],
          conn |-> [s \in Slots |-> IF t.evse[s[1]] = EvseEffective(o, s[1])
                                    THEN t.conn[s]
                                    ELSE ConnectorEffective(o, s)]]

TriggerEvses(o, t, es) ==
    LET changed == {e \in es : t.evse[e] # EvseEffective(o, e)}
    IN  [t EXCEPT !.evse = [e \in Evses |-> IF e \in es THEN EvseEffective(o, e) ELSE t.evse[e]],
                  !.conn = [s \in Slots |-> IF s[1] \in changed
                                            THEN ConnectorEffective(o, s)
                                            ELSE t.conn[s]]]

TriggerConnectors(o, t, ss) ==
    [t EXCEPT !.conn = [s \in Slots |-> IF s \in ss THEN ConnectorEffective(o, s) ELSE t.conn[s]]]

SetCs(m, status, persist) ==
    LET o == [m.op EXCEPT !.cs = status]
    IN  [op   |-> o,
         told |-> TriggerCs(o, m.told),
         db   |-> IF persist THEN [m.db EXCEPT !.cs = status] ELSE m.db]

SetEvses(m, es, status, persist) ==
    LET o == [m.op EXCEPT !.evse = [e \in Evses |-> IF e \in es THEN status ELSE m.op.evse[e]]]
    IN  [op   |-> o,
         told |-> TriggerEvses(o, m.told, es),
         db   |-> IF persist
                  THEN [m.db EXCEPT !.evse = [e \in Evses |-> IF e \in es THEN status ELSE m.db.evse[e]]]
                  ELSE m.db]

SetConnectors(m, ss, status, persist) ==
    LET o == [m.op EXCEPT !.conn = [s \in Slots |-> IF s \in ss THEN status[s] ELSE m.op.conn[s]]]
    IN  [op   |-> o,
         told |-> TriggerConnectors(o, m.told, ss),
         db   |-> IF persist
                  THEN [m.db EXCEPT !.conn = [s \in Slots |-> IF s \in ss THEN status[s] ELSE m.db.conn[s]]]
                  ELSE m.db]

ConnectorsOf(es) == {s \in Slots : s[1] \in es}

\* set_evse_connectors_unavailable(evse, false), for every EVSE of es.
SetUnavailable(m, ss) == SetConnectors(m, ss, [s \in Slots |-> "Inoperative"], FALSE)

AllInoperative(m) == \A s \in Slots : ConnectorEffective(m.op, s) = "Inoperative"

Effective(o) ==
    [cs   |-> o.cs,
     evse |-> [e \in Evses |-> EvseEffective(o, e)],
     conn |-> [s \in Slots |-> ConnectorEffective(o, s)]]

\* The constructor: what the database has, and the caches made from it.
Booted(db) == [op |-> db, told |-> Effective(db), db |-> db]

-----------------------------------------------------------------------------
(* Availability *)

\* EvseManager::any_transaction_active; key 0 means no EVSE is given.
TransactionActive(key) == IF key = 0 THEN \E e \in Evses : tx[e] # 0 ELSE tx[key] # 0

\* on_transaction_finished is yet to look at what is scheduled for the key.
WillSettle(key) == IF key = 0 THEN finishing # {} ELSE key \in finishing

IsAlreadyInState(request) ==
    LET e == request.target[1]
    IN  request.status = IF e = 0 THEN states.op.cs
                         ELSE IF request.target[2] = 0 THEN states.op.evse[e]
                         ELSE states.op.conn[request.target]

ExecuteRequest(m, request, persist) ==
    LET e == request.target[1]
    IN  IF e = 0 THEN SetCs(m, request.status, persist)
        ELSE IF request.target[2] = 0 THEN SetEvses(m, {e}, request.status, persist)
        ELSE SetConnectors(m, {request.target}, [s \in Slots |-> request.status], persist)

Accepted(request, active, already) ==
    \/ ~active
    \/ already
    \/ request.target[1] = 0 /\ request.status = "Operative"

\* What is made Inoperative until a scheduled request can be executed: every idle EVSE when the
\* station is addressed, else the connectors of the EVSE that the transaction does not use.
Blocked(m, request) ==
    LET e == request.target[1]
    IN  IF e = 0
        THEN SetEvses(m, {f \in Evses : tx[f] = 0}, "Inoperative", FALSE)
        ELSE SetUnavailable(m, {s \in ConnectorsOf({e}) : s[2] # tx[e]})

\* The request stays in the map after it was executed.
HandleScheduled_Kept(x, key) ==
    IF x.sch[key] = None \/ TransactionActive(key)
    THEN x
    ELSE [x EXCEPT !.m = ExecuteRequest(x.m, x.sch[key].request, x.sch[key].persist)]

\* The callback that the firmware update waits for is only called from FirmwareUpdate.
HandleScheduled_Silent(x, key) ==
    IF x.sch[key] = None \/ TransactionActive(key)
    THEN x
    ELSE [x EXCEPT !.m = ExecuteRequest(x.m, x.sch[key].request, x.sch[key].persist),
                   !.sch[key] = None]

\* handle_scheduled_change_availability_requests(key), on x = [m, sch, fw].
HandleScheduled(x, key) ==
    IF x.sch[key] = None \/ TransactionActive(key)
    THEN x
    ELSE LET m == ExecuteRequest(x.m, x.sch[key].request, x.sch[key].persist)
         IN  [m   |-> m,
              sch |-> [x.sch EXCEPT ![key] = None],
              fw  |-> IF x.fw = "waiting" /\ AllInoperative(m) THEN "go" ELSE x.fw]

Request(r) ==
    /\ handler = Idle
    /\ used.requests < MaxRequests
    /\ used' = [used EXCEPT !.requests = @ + 1]
    /\ handler' = r
    /\ UNCHANGED <<states, tx, finishing, scheduled, reset, firmware, late, disturbed>>

\* A ChangeAvailability arrives: the handler looks at the transactions and at the status.
CheckChange(request) ==
    Request([kind    |-> "check",
             request |-> request,
             active  |-> TransactionActive(request.target[1]),
             already |-> IsAlreadyInState(request)])

\* The request replaces or removes what was scheduled for the EVSE, and is answered.
AnswerChange ==
    /\ handler.kind = "check"
    /\ LET key == handler.request.target[1]
           accepted == Accepted(handler.request, handler.active, handler.already)
       IN  /\ scheduled' = [scheduled EXCEPT ![key] =
                              IF accepted THEN None ELSE [request |-> handler.request, persist |-> TRUE]]
           /\ late' = IF ~accepted /\ ~TransactionActive(key) /\ ~WillSettle(key) THEN late \cup {key} ELSE late \ {key}
           /\ handler' = [handler EXCEPT !.kind = IF accepted THEN "accepted" ELSE "scheduled"]
    /\ disturbed' = (firmware = "waiting")
    /\ UNCHANGED <<states, tx, finishing, reset, firmware, used>>

\* The change, or what keeps further transactions from starting until it can be made.
ExecuteChange ==
    /\ handler.kind \in {"accepted", "scheduled"}
    /\ states' = IF ~handler.active THEN ExecuteRequest(states, handler.request, TRUE)
                 ELSE IF handler.kind = "scheduled" THEN Blocked(states, handler.request)
                 ELSE states
    /\ handler' = Idle
    /\ disturbed' = (firmware = "waiting")
    /\ UNCHANGED <<tx, finishing, scheduled, reset, firmware, late, used>>

-----------------------------------------------------------------------------
(* Reset *)

\* The EVSEs handle_reset_req looks at: the one that is given if it has a transaction, else all.
ResetScope(key) == IF key # 0 /\ tx[key] # 0 THEN {key} ELSE Evses

CheckReset(key, type) ==
    Request([kind   |-> "reset",
             key    |-> key,
             type   |-> type,
             active |-> {e \in ResetScope(key) : tx[e] # 0},
             idle   |-> {e \in ResetScope(key) : tx[e] = 0}])

ScheduleReset(key) ==
    [scheduled |-> TRUE, evseids |-> IF key = 0 THEN reset.evseids ELSE reset.evseids \cup {key}]

\* A reset that is allowed waits for the transactions and makes the idle EVSEs unavailable when it is
\* OnIdle and there are any; otherwise reset_callback is called, after the application was asked to
\* stop the transactions, and changes nothing here.
AnswerReset(allowed) ==
    /\ handler.kind = "reset"
    /\ LET waits == allowed /\ handler.active # {} /\ handler.type = "OnIdle"
       IN  /\ reset' = IF waits THEN ScheduleReset(handler.key) ELSE reset
           /\ states' = IF waits THEN SetUnavailable(states, ConnectorsOf(handler.idle)) ELSE states
           /\ late' = IF waits /\ \A e \in handler.active : tx[e] = 0 /\ e \notin finishing
                      THEN late \cup {ResetKey} ELSE late
    /\ handler' = Idle
    /\ UNCHANGED <<tx, finishing, scheduled, firmware, disturbed, used>>

\* An EVSE that finishes while others charge stays available.
ResetOnFinish_Open(m, e) ==
    IF reset.scheduled /\ reset.evseids = {} /\ (\A f \in Evses : tx[f] = 0)
    THEN [m |-> m, reset |-> [scheduled |-> FALSE, evseids |-> {}]]
    ELSE [m |-> m, reset |-> [scheduled |-> reset.scheduled /\ reset.evseids # {e}, evseids |-> reset.evseids \ {e}]]

\* What on_transaction_finished makes of a scheduled reset: [m, reset].
ResetOnFinish(m, e) ==
    LET charging == \E f \in Evses : tx[f] # 0
        left == reset.evseids \ {e}
    IN  IF ~reset.scheduled THEN [m |-> m, reset |-> reset]
        ELSE IF reset.evseids # {}
             THEN [m |-> m, reset |-> [scheduled |-> left # {}, evseids |-> left]]
        ELSE IF charging
             THEN [m |-> SetUnavailable(m, ConnectorsOf({e})), reset |-> reset]
        ELSE [m |-> m, reset |-> [scheduled |-> FALSE, evseids |-> {}]]

-----------------------------------------------------------------------------
(* Transactions *)

\* open_transaction
StartTransaction(s) ==
    /\ tx[s[1]] = 0
    /\ s[1] \notin finishing
    /\ states.told.conn[s] = "Operative"
    /\ tx' = [tx EXCEPT ![s[1]] = s[2]]
    /\ UNCHANGED <<states, finishing, scheduled, reset, handler, firmware, late, disturbed, used>>

\* on_transaction_finished up to release_transaction ...
ReleaseTransaction(e) ==
    /\ tx[e] # 0
    /\ tx' = [tx EXCEPT ![e] = 0]
    /\ finishing' = finishing \cup {e}
    /\ UNCHANGED <<states, scheduled, reset, handler, firmware, late, disturbed, used>>

\* ... and what waited for it: a reset, a request for this EVSE, a request for the station.
SettleTransaction(e) ==
    /\ e \in finishing
    /\ finishing' = finishing \ {e}
    /\ \E r \in {ResetOnFinish(states, e)} :
       \E w \in {HandleScheduled([m |-> r.m, sch |-> scheduled, fw |-> firmware], e)} :
       \E x \in {HandleScheduled(w, 0)} :
           /\ states' = x.m
           /\ reset' = r.reset
           /\ scheduled' = x.sch
           /\ firmware' = x.fw
           /\ late' = {k \in late : IF k = ResetKey THEN r.reset.scheduled ELSE x.sch[k] # None}
           /\ disturbed' = (disturbed /\ x.fw = "waiting")
    /\ UNCHANGED <<tx, handler, used>>

-----------------------------------------------------------------------------
(* Firmware update and restart *)

Spend == used.events < MaxEvents /\ used' = [used EXCEPT !.events = @ + 1]

\* The status before Installing is reported: connectors are taken out of service, those of EVSEs
\* with a transaction later, by a request that is not persisted.
FirmwareReady ==
    LET busy == {e \in Evses : tx[e] # 0}
        m == SetUnavailable(states, ConnectorsOf(Evses \ busy))
    IN  /\ firmware = "idle"
        /\ Spend
        /\ states' = m
        /\ scheduled' = [k \in Keys |->
                           IF k \in busy
                           THEN [request |-> [target |-> <<k, 0>>, status |-> "Inoperative"], persist |-> FALSE]
                           ELSE scheduled[k]]
        /\ late' = late \ busy
        /\ firmware' = IF busy = {} /\ AllInoperative(m) THEN "go" ELSE "waiting"
        /\ disturbed' = (firmware' = "waiting" /\ (handler # Idle \/ \E k \in Keys \ busy : scheduled[k] # None))
        /\ UNCHANGED <<tx, finishing, reset, handler>>

\* An end state is reported, of an update that was ready or of a failed download.
FirmwareEnds ==
    /\ Spend
    /\ states' = SetConnectors(states, Slots, states.db.conn, FALSE)
    /\ firmware' = "idle"
    /\ disturbed' = FALSE
    /\ UNCHANGED <<tx, finishing, scheduled, reset, handler, late>>

\* The process ends and starts again: the database is all that is left.
Restart ==
    /\ Spend
    /\ states' = Booted(states.db)
    /\ tx' = IF Resume THEN tx ELSE [e \in Evses |-> 0]
    /\ finishing' = {}
    /\ scheduled' = [k \in Keys |-> None]
    /\ reset' = [scheduled |-> FALSE, evseids |-> {}]
    /\ handler' = Idle
    /\ firmware' = "idle"
    /\ late' = {}
    /\ disturbed' = FALSE

Init ==
    /\ states = Booted([cs   |-> "Operative",
                        evse |-> [e \in Evses |-> "Operative"],
                        conn |-> [s \in Slots |-> "Operative"]])
    /\ tx = [e \in Evses |-> 0]
    /\ finishing = {}
    /\ scheduled = [k \in Keys |-> None]
    /\ reset = [scheduled |-> FALSE, evseids |-> {}]
    /\ handler = Idle
    /\ firmware = "idle"
    /\ late = {}
    /\ disturbed = FALSE
    /\ used = [requests |-> 0, events |-> 0]

\* The message thread goes on with the CALL that it handles.
HandlerStep ==
    \/ AnswerChange
    \/ ExecuteChange
    \/ \E allowed \in BOOLEAN : AnswerReset(allowed)

\* The transaction of an EVSE ends and its end is processed.
FinishStep(e) == ReleaseTransaction(e) \/ SettleTransaction(e)

Next ==
    \/ \E r \in Requests : CheckChange(r)
    \/ \E k \in Keys, type \in {"Immediate", "OnIdle"} : CheckReset(k, type)
    \/ HandlerStep
    \/ \E s \in Slots : StartTransaction(s)
    \/ \E e \in Evses : FinishStep(e)
    \/ FirmwareReady
    \/ FirmwareEnds
    \/ Restart

Spec == Init /\ [][Next]_vars

\* The message thread never stays in a handler, and no transaction goes on for ever.
Fairness == WF_handler(HandlerStep) /\ \A e \in Evses : WF_<<tx, finishing>>(FinishStep(e))

FairSpec == Spec /\ Fairness

-----------------------------------------------------------------------------
TypeOK ==
    /\ states \in [op : Levels, told : Levels, db : Levels]
    /\ tx \in [Evses -> Nat]
    /\ \A e \in Evses : tx[e] # 0 => <<e, tx[e]>> \in Slots
    /\ finishing \subseteq Evses
    /\ \A e \in finishing : tx[e] = 0
    /\ scheduled \in [Keys -> Changes \cup {None}]
    /\ \A k \in Keys : scheduled[k] # None => scheduled[k].request.target[1] = k
    /\ reset \in [scheduled : BOOLEAN, evseids : SUBSET Evses]
    /\ reset.evseids # {} => reset.scheduled
    /\ firmware \in {"idle", "waiting", "go"}
    /\ late \subseteq Keys \cup {ResetKey}
    /\ disturbed \in BOOLEAN
    /\ used \in [requests : 0..MaxRequests, events : 0..MaxEvents]

\* The callbacks told the application the effective status of the station, of every EVSE and of every
\* connector, after any mixture of orders, temporary changes and restarts: the cascade of
\* trigger_callbacks_cs and trigger_callbacks_evse, which goes down only where something changed,
\* leaves nothing out.
EffectiveTold == states.told = Effective(states.op)

\* A request that is scheduled waits for a transaction that is running or being finished, and so will
\* be looked at again; the one exception is a transaction that finished after handle_change_availability_req
\* had looked for it.
ScheduledWaits ==
    \A k \in Keys : scheduled[k] # None => TransactionActive(k) \/ WillSettle(k) \/ k \in late

\* An OnIdle reset of the station happens: on_transaction_finished makes every EVSE unavailable that
\* finishes before the last one, so that transactions cannot take turns for ever.
WholeResetHappens ==
    reset.scheduled /\ reset.evseids = {} ~> ~reset.scheduled \/ reset.evseids # {} \/ ResetKey \in late

\* A firmware update that waits for its all_connectors_unavailable_callback waits for a transaction,
\* and nothing else can start meanwhile: every EVSE is out of service, or will be when its transaction
\* finishes, which is when the callback is called.  A ChangeAvailability of the CSMS that is under way
\* or comes in between may spoil this.
UpdateWaits ==
    firmware = "waiting" /\ ~disturbed =>
        /\ \E e \in Evses : tx[e] # 0 \/ e \in finishing
        /\ \A e \in Evses :
             \/ \A s \in ConnectorsOf({e}) : ConnectorEffective(states.op, s) = "Inoperative"
             \/ /\ tx[e] # 0 \/ e \in finishing
                /\ scheduled[e] # None
                /\ scheduled[e].request = [target |-> <<e, 0>>, status |-> "Inoperative"]

\* While a request for the whole station waits, no transaction can start on an EVSE that has none:
\* "The whole CS is being addressed - we need to prevent further transactions from starting."
StationClosing ==
    scheduled[0] # None /\ handler = Idle =>
        \A e \in Evses : tx[e] = 0 /\ e \notin finishing => EvseEffective(states.op, e) = "Inoperative"

==============================================================================
