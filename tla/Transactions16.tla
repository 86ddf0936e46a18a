--------------------------- MODULE Transactions16 ---------------------------
(***************************************************************************)
(* Transactions of OCPP 1.6 and their ids: ChargePointImpl (start, stop,   *)
(* the answers of the CSMS, resuming after a restart), TransactionHandler  *)
(* and Transaction of transaction.cpp, the TRANSACTIONS table, and the     *)
(* two maps with which the message queue patches ids into messages that    *)
(* were queued before the CSMS gave the transaction its id.                *)
(*                                                                         *)
(* Threads.  The application, one operation per connector at a time        *)
(* (pc[c]); the queue's worker; the websocket's message thread, which      *)
(* takes an answer off the queue and then runs its handler (rx); timers.   *)
(* The process may die between any two steps.                              *)
(*                                                                         *)
(* The queue is the FIFO that MessageQueue implements for transaction      *)
(* messages: rows is its table, which holds a message as it was pushed.    *)
(* A message is a record: n numbers its id, gen the ids made for it since, *)
(* tid is the transaction id it carries.  A session is the number of its   *)
(* transaction in the order of the table.  Different transactions have     *)
(* different ids: [s |-> s, k |-> 0] is the station's own id of session s, *)
(* with k > 0 it is one that the CSMS gave it.                             *)
(***************************************************************************)
EXTENDS Integers, Sequences, FiniteSets, SequencesExt, Ranks

CONSTANTS
    Connectors,     \* the connectors, without 0
    MaxSessions,    \* bound: transactions
    MaxSamples,     \* bound: MeterValues
    MaxAttempts,    \* transaction_message_attempts
    MaxFaults,      \* bound: lost answers, CALLERRORs and failed sends
    MaxRestarts,    \* bound: crashes
    None

ASSUME TransactionsAssumption ==
    /\ MaxSessions \in Nat /\ MaxSamples \in Nat /\ MaxAttempts \in Nat \ {0}
    /\ MaxFaults \in Nat /\ MaxRestarts \in Nat

\* Message ids, transaction ids, the messages of the queue, the rows of the table and the
\* Transaction objects.
Mids == [n : Nat, gen : Nat]
Tids == [s : Nat, k : Nat]
Types == {"start", "stop", "meter"}
Messages == [type : Types, s : Nat, tid : Tids \cup {None}, n : Nat, gen : Nat, attempts : Nat]
Rows == [connector : Connectors, tid : Tids, ack : BOOLEAN, startMid : Mids, stopMid : Mids \cup {None}]
Objects == [connector : Connectors, tid : Tids \cup {None}, startMid : Mids, stopMid : Mids \cup {None},
            active : BOOLEAN, finished : BOOLEAN]

ASSUME NoneAssumption == None \notin Nat \cup Mids \cup Tids \cup Messages

VARIABLES
    \* Persistent
    table,      \* TRANSACTIONS: one row per session
    rows,       \* TRANSACTION_QUEUE, in the order of insertion
    \* Memory of the station
    txn,        \* the Transaction objects, by session
    active,     \* active_transactions, by connector
    stopped,    \* stopped_transactions
    queue,      \* transaction_message_queue
    inFlight,
    stopIds,    \* message_id_transaction_id_map
    meterIds,   \* start_transaction_mid_meter_values_mid_map
    pc,         \* what the application is doing at a connector
    rx,         \* the message whose answer has come and not been handled yet
    \* Environment
    ids,        \* message ids made
    samples, faults, restarts,
    given,      \* history: the last id the CSMS gave to a session
    delivered,  \* history: the sessions whose Stop the CSMS answered
    gaveUp      \* history: the sessions whose Stop the queue gave up

persistent == <<table, rows>>
memory == <<txn, active, stopped>>
messages == <<queue, inFlight, stopIds, meterIds>>
bounds == <<samples, faults, restarts>>
history == <<given, delivered, gaveUp>>
vars == <<persistent, memory, messages, pc, rx, ids, bounds, history>>

Sessions == DOMAIN table
Idle == [at |-> "idle", s |-> None, mid |-> None]
Mid(m) == [n |-> m.n, gen |-> m.gen]
NewMid(n) == [n |-> n, gen |-> 0]

\* A map with no entry, without a key, and with a new or replaced entry.
NoEntry == [x \in {} |-> None]
Without(f, k) == [x \in DOMAIN f \ {k} |-> f[x]]
With(f, k, v) == [x \in DOMAIN f \cup {k} |-> IF x = k THEN v ELSE f[x]]

-----------------------------------------------------------------------------
(* TransactionHandler                                                      *)

Transaction(c, tid, startMid, stopMid, isActive, isFinished) ==
    [connector |-> c, tid |-> tid, startMid |-> startMid, stopMid |-> stopMid,
     active |-> isActive, finished |-> isFinished]

\* The sessions whose objects can still be found.
Known == (Range(active) \ {None}) \cup stopped

\* get_transaction(transaction_message_id)
TransactionOf(mid) == {s \in Known : mid \in {txn[s].startMid, txn[s].stopMid}}

-----------------------------------------------------------------------------
(* The queue as its clients see it.                                        *)

Message(type, s, tid, n) ==
    [type |-> type, s |-> s, tid |-> tid, n |-> n, gen |-> 0, attempts |-> 0]

\* push_call of a transaction message
PushCall(m) ==
    /\ queue' = Append(queue, m)
    /\ rows' = Append(rows, m)

RemoveRow(n) == rows' = ElementsAt(rows, {i \in DOMAIN rows : rows[i].n # n})

\* The worker replaces the transaction id when an entry of the map waits for the
\* message; whether the send succeeds or not, the entry is used up.
Patched(m) ==
    [m EXCEPT !.tid = IF Mid(m) \in DOMAIN stopIds THEN stopIds[Mid(m)] ELSE m.tid,
              !.attempts = m.attempts + 1]

\* The worker sends the first message. A CSMS gives an id to every
\* StartTransaction.req it receives.
Send ==
    LET m == Patched(Head(queue))
    IN  /\ queue # <<>> /\ inFlight = None
        /\ inFlight' = m
        /\ queue' = Tail(queue)
        /\ stopIds' = Without(stopIds, Mid(m))
        /\ given' = IF m.type = "start" THEN [given EXCEPT ![m.s] = [s |-> m.s, k |-> m.attempts]]
                                        ELSE given
        /\ UNCHANGED <<persistent, memory, meterIds, pc, rx, ids, bounds, delivered, gaveUp>>

SendFails ==
    /\ queue # <<>> /\ inFlight = None
    /\ faults < MaxFaults /\ faults' = faults + 1
    /\ queue' = [queue EXCEPT ![1] = Patched(queue[1])]
    /\ stopIds' = Without(stopIds, Mid(queue[1]))
    /\ UNCHANGED <<persistent, memory, inFlight, meterIds, pc, rx, ids, samples,
                   restarts, history>>

\* handle_call_result, on the message thread: the handler runs afterwards.
ReceiveResult ==
    /\ inFlight # None /\ rx = None
    /\ RemoveRow(inFlight.n)
    /\ inFlight' = None
    /\ rx' = inFlight
    /\ delivered' = IF inFlight.type = "stop" THEN delivered \cup {inFlight.s} ELSE delivered
    /\ UNCHANGED <<table, memory, queue, stopIds, meterIds, pc, ids, bounds, given, gaveUp>>

\* Mutant: the transaction is not told the id of the retry.
MessageRetried_NotTold(old, new) == UNCHANGED txn

\* start_transaction_message_retry_callback: the object learns the new id. The
\* statement that would write it to the table binds no session id and changes
\* no row (database_handler.cpp:144).
MessageRetried(old, new) ==
    txn' = [s \in DOMAIN txn |->
               IF s \in TransactionOf(old) THEN [txn[s] EXCEPT !.startMid = new]
                                           ELSE txn[s]]

\* handle_timeout_or_callerror: the message is queued again under a new id, or
\* it is given up.
TimeoutOrCallError ==
    LET m == inFlight
        retry == [m EXCEPT !.gen = m.gen + 1]
    IN  /\ m # None
        /\ faults < MaxFaults /\ faults' = faults + 1
        /\ inFlight' = None
        /\ IF m.attempts < MaxAttempts
           THEN /\ queue' = <<retry>> \o queue
                /\ IF m.type = "start" THEN MessageRetried(Mid(m), Mid(retry))
                                       ELSE UNCHANGED txn
                /\ UNCHANGED <<rows, gaveUp>>
           ELSE /\ RemoveRow(m.n)
                /\ gaveUp' = IF m.type = "stop" THEN gaveUp \cup {m.s} ELSE gaveUp
                /\ UNCHANGED <<queue, txn>>
        /\ UNCHANGED <<table, active, stopped, stopIds, meterIds, pc, rx, ids,
                       samples, restarts, given, delivered>>

-----------------------------------------------------------------------------
(* The application starts and stops transactions.                          *)

\* on_transaction_started and start_transaction: the row is written first.
InsertTransaction(c) ==
    LET s == Len(table) + 1
    IN  /\ pc[c] = Idle /\ active[c] = None
        /\ s <= MaxSessions
        /\ table' = Append(table, [connector |-> c, tid |-> [s |-> s, k |-> 0], ack |-> FALSE,
                                   startMid |-> NewMid(ids + 1), stopMid |-> None])
        /\ ids' = ids + 1
        /\ pc' = [pc EXCEPT ![c] = [at |-> "starting", s |-> s, mid |-> None]]
        /\ UNCHANGED <<rows, memory, messages, rx, bounds, history>>

\* ... then the transaction is known, and StartTransaction.req is pushed.
StartTransaction(c) ==
    LET s == pc[c].s
    IN  /\ pc[c].at = "starting"
        /\ txn' = With(txn, s, Transaction(c, None, table[s].startMid, None, TRUE, FALSE))
        /\ active' = [active EXCEPT ![c] = s]
        /\ PushCall(Message("start", s, None, table[s].startMid.n))
        /\ pc' = [pc EXCEPT ![c] = Idle]
        /\ UNCHANGED <<table, stopped, inFlight, stopIds, meterIds, rx, ids, bounds,
                       history>>

\* The id that a StopTransaction.req for the object carries when it is built.
StopId(s) == IF txn[s].tid # None THEN txn[s].tid ELSE [s |-> s, k |-> 0]

\* on_transaction_stopped up to the push of StopTransaction.req.
PushStop(c) ==
    LET s == active[c]
    IN  /\ pc[c] = Idle /\ s # None
        /\ txn' = [txn EXCEPT ![s].active = FALSE]
        /\ PushCall(Message("stop", s, StopId(s), ids + 1))
        /\ ids' = ids + 1
        /\ pc' = [pc EXCEPT ![c] = [at |-> "stopping", s |-> s, mid |-> NewMid(ids + 1)]]
        /\ UNCHANGED <<table, active, stopped, inFlight, stopIds, meterIds, rx, bounds,
                       history>>

\* ... and what stop_transaction does after it.
FinishStop(c) ==
    LET s == pc[c].s
        mid == pc[c].mid
    IN  /\ pc[c].at = "stopping"
        /\ txn' = [txn EXCEPT ![s].finished = TRUE, ![s].stopMid = mid]
        /\ stopped' = stopped \cup {s}
        /\ active' = [active EXCEPT ![c] = None]
        /\ table' = [table EXCEPT ![s].stopMid = mid]
        /\ pc' = [pc EXCEPT ![c] = Idle]
        /\ UNCHANGED <<rows, messages, rx, ids, bounds, history>>

\* send_meter_value, called by the sample timers and triggers: without an id of
\* the CSMS the message is entered in the map, for the answer to find it.
SendMeterValue(c) ==
    LET s == active[c]
        m == Message("meter", s, txn[s].tid, ids + 1)
        key == txn[s].startMid
    IN  /\ s # None /\ pc[c] = Idle
        /\ samples < MaxSamples /\ samples' = samples + 1
        /\ PushCall(m)
        /\ ids' = ids + 1
        /\ meterIds' = IF txn[s].tid # None THEN meterIds
                       ELSE With(meterIds, key,
                                 (IF key \in DOMAIN meterIds THEN meterIds[key] ELSE {})
                                     \cup {Mid(m)})
        /\ UNCHANGED <<table, memory, inFlight, stopIds, pc, rx, faults, restarts, history>>

-----------------------------------------------------------------------------
(* The answers of the CSMS.                                                *)

\* notify_start_transaction_handled: the messages of the map that are queued get
\* the id.
QueuePatched(mid, tid) ==
    LET waiting == IF mid \in DOMAIN meterIds THEN meterIds[mid] ELSE {}
    IN  [i \in DOMAIN queue |->
            IF Mid(queue[i]) \in waiting THEN [queue[i] EXCEPT !.tid = tid] ELSE queue[i]]

\* handleStartTransactionResponse
HandleStartResponse ==
    LET mid == Mid(rx)
        tid == given[rx.s]
        found == TransactionOf(mid)
    IN  /\ rx # None /\ rx.type = "start"
        /\ rx' = None
        /\ IF found = {}
           THEN UNCHANGED <<txn, table, stopIds, queue, meterIds>>
           ELSE LET s == CHOOSE x \in found : TRUE
                IN  /\ stopIds' = IF txn[s].finished
                                  THEN With(stopIds, txn[s].stopMid, tid) ELSE stopIds
                    /\ queue' = QueuePatched(mid, tid)
                    /\ meterIds' = Without(meterIds, mid)
                    /\ txn' = [txn EXCEPT ![s].tid = tid]
                    /\ table' = [table EXCEPT ![s].tid = tid]
        /\ UNCHANGED <<rows, active, stopped, inFlight, pc, ids, bounds, history>>

\* Mutant: every row of the session's connector is acknowledged.
Acknowledged_ByConnector(tid) ==
    [s \in Sessions |->
        IF \E r \in Sessions : table[r].tid = tid /\ table[r].connector = table[s].connector
        THEN [table[s] EXCEPT !.ack = TRUE] ELSE table[s]]

\* update_transaction_csms_ack: the row is found by the id that was sent.
Acknowledged(tid) ==
    [s \in Sessions |-> IF table[s].tid = tid THEN [table[s] EXCEPT !.ack = TRUE]
                                              ELSE table[s]]

\* handleStopTransactionResponse, erase_stopped_transaction: the id of a retry is
\* not known to the transaction, which then stays in stopped_transactions.
HandleStopResponse ==
    /\ rx # None /\ rx.type = "stop"
    /\ rx' = None
    /\ table' = Acknowledged(rx.tid)
    /\ stopped' = {s \in stopped : txn[s].stopMid # Mid(rx)}
    /\ UNCHANGED <<rows, txn, active, messages, pc, ids, bounds, history>>

HandleMeterResponse ==
    /\ rx # None /\ rx.type = "meter"
    /\ rx' = None
    /\ UNCHANGED <<persistent, memory, messages, pc, ids, bounds, history>>

-----------------------------------------------------------------------------
(* The process dies and starts again: init(), with the sessions that the   *)
(* application wants to resume.                                            *)

Reload == [i \in DOMAIN rows |-> [rows[i] EXCEPT !.attempts = 0]]

\* Mutant: the stop of any transaction counts.
StopQueued_OfAny(s) == \E i \in DOMAIN rows : rows[i].type = "stop"

\* contains_stop_transaction_message: by the id in the row of the transaction.
StopQueued(s) == \E i \in DOMAIN rows : rows[i].type = "stop" /\ rows[i].tid = table[s].tid

\* The transactions that were not acknowledged, and of these the ones that
\* try_resume_transactions stops, in the order of the table.
Owed == {s \in Sessions : ~table[s].ack}
Orphans(resuming) == {s \in Owed : ~StopQueued(s) /\ s \notin resuming}
OrphanList(resuming) == Ordered(Orphans(resuming))

\* Their StopTransaction.req, with the id in the row, be it one of the CSMS or the
\* station's own.
OrphanStops(resuming) ==
    [i \in DOMAIN OrphanList(resuming) |->
        LET s == OrphanList(resuming)[i] IN Message("stop", s, table[s].tid, ids + i)]

\* What the row then says of the StopTransaction.req, and whether there is one.
StopMidAfter(resuming, s) ==
    IF s \in Orphans(resuming)
    THEN NewMid(ids + CHOOSE i \in DOMAIN OrphanList(resuming) : OrphanList(resuming)[i] = s)
    ELSE table[s].stopMid
EndedAfter(resuming, s) == s \in Orphans(resuming) \/ StopQueued(s)

\* The transaction that add_transaction leaves at connector c.
Latest(c) ==
    {s \in Owed : table[s].connector = c /\ \A r \in Owed : table[r].connector = c => r <= s}

\* try_resume_transactions: an object for each unacknowledged row. A
\* StopTransaction.req is queued unless there is one or the session is resumed.
Restart(resuming) ==
    /\ restarts < MaxRestarts /\ restarts' = restarts + 1
    /\ rows' = rows \o OrphanStops(resuming)
    /\ queue' = Reload \o OrphanStops(resuming)
    /\ ids' = ids + Len(OrphanList(resuming))
    /\ txn' = [s \in Owed |->
                  Transaction(table[s].connector, table[s].tid, table[s].startMid,
                              StopMidAfter(resuming, s), s \notin Orphans(resuming),
                              EndedAfter(resuming, s))]
    /\ active' = [c \in Connectors |->
                     IF \E s \in Latest(c) : ~EndedAfter(resuming, s)
                     THEN CHOOSE s \in Latest(c) : TRUE ELSE None]
    /\ stopped' = {s \in Owed : EndedAfter(resuming, s)}
    /\ table' = [s \in Sessions |->
                    IF s \in Orphans(resuming)
                    THEN [table[s] EXCEPT !.stopMid = StopMidAfter(resuming, s)] ELSE table[s]]
    /\ inFlight' = None /\ stopIds' = NoEntry /\ meterIds' = NoEntry
    /\ pc' = [c \in Connectors |-> Idle] /\ rx' = None
    /\ UNCHANGED <<samples, faults, history>>

\* The sessions whose transactions the application has not seen the end of.
Resumable == (Range(active) \ {None})
                 \cup {pc[c].s : c \in {d \in Connectors : pc[d].at = "starting"}}

-----------------------------------------------------------------------------
Init ==
    /\ table = <<>> /\ rows = <<>>
    /\ txn = NoEntry /\ active = [c \in Connectors |-> None] /\ stopped = {}
    /\ queue = <<>> /\ inFlight = None /\ stopIds = NoEntry /\ meterIds = NoEntry
    /\ pc = [c \in Connectors |-> Idle] /\ rx = None
    /\ ids = 0 /\ samples = 0 /\ faults = 0 /\ restarts = 0
    /\ given = [s \in 1..MaxSessions |-> None] /\ delivered = {} /\ gaveUp = {}

ApplicationNext ==
    \E c \in Connectors :
        \/ InsertTransaction(c) \/ StartTransaction(c)
        \/ PushStop(c) \/ FinishStop(c) \/ SendMeterValue(c)

QueueNext == Send \/ SendFails \/ ReceiveResult \/ TimeoutOrCallError

HandlerNext == HandleStartResponse \/ HandleStopResponse \/ HandleMeterResponse

Next ==
    \/ ApplicationNext \/ QueueNext \/ HandlerNext
    \/ \E resuming \in SUBSET Resumable : Restart(resuming)

Spec == Init /\ [][Next]_vars

-----------------------------------------------------------------------------
\* The types of the variables.
TypeOK ==
    /\ table \in Seq(Rows)
    /\ Len(table) <= MaxSessions
    /\ rows \in Seq(Messages) /\ queue \in Seq(Messages)
    /\ inFlight \in Messages \cup {None} /\ rx \in Messages \cup {None}
    /\ DOMAIN txn \subseteq Sessions
    /\ \A s \in DOMAIN txn : txn[s] \in Objects
    /\ active \in [Connectors -> DOMAIN txn \cup {None}]
    /\ stopped \subseteq DOMAIN txn
    /\ DOMAIN stopIds \subseteq Mids \cup {None}
    /\ \A mid \in DOMAIN stopIds : stopIds[mid] \in Tids
    /\ DOMAIN meterIds \subseteq Mids
    /\ \A mid \in DOMAIN meterIds : meterIds[mid] \subseteq Mids
    /\ pc \in [Connectors -> [at : {"idle", "starting", "stopping"},
                              s : Sessions \cup {None}, mid : Mids \cup {None}]]
    /\ ids \in Nat
    /\ samples \in 0..MaxSamples /\ faults \in 0..MaxFaults /\ restarts \in 0..MaxRestarts
    /\ given \in [1..MaxSessions -> Tids \cup {None}]
    /\ delivered \subseteq Sessions /\ gaveUp \subseteq Sessions

\* A StartTransaction.req that is queued, sent or answered.
StartsPending ==
    {m \in Range(queue) \cup ({inFlight, rx} \ {None}) : m.type = "start"}

\* However often a StartTransaction.req is sent, across retries and restarts, its
\* answer finds the one transaction it belongs to: the message's id of the moment is
\* the one that handleStartTransactionResponse will look for.
StartFindsItsTransaction ==
    \A m \in StartsPending : TransactionOf(Mid(m)) = {m.s}

\* A row is acknowledged, and so never looked at again after a restart, only when the
\* CSMS has answered a StopTransaction.req of that very transaction.
AckMeansStopped ==
    \A s \in Sessions : table[s].ack => s \in delivered

StopPending(s) == \E i \in DOMAIN rows : rows[i].type = "stop" /\ rows[i].s = s
InOperation(s) == \E c \in Connectors : pc[c].s = s

\* A transaction that is over is not forgotten: its StopTransaction.req is on disk
\* until the CSMS has answered it or the queue gave it up, wherever the process dies
\* between the row, the two pushes and the answers.
NoTransactionForgotten ==
    \A s \in Sessions :
        \/ table[s].ack \/ s \in Range(active) \/ InOperation(s)
        \/ StopPending(s)
        \/ s \in gaveUp \/ s \in delivered

\* After a restart a transaction whose StopTransaction.req is queued is only marked as
\* stopped: one transaction never has two StopTransaction.req in the queue.
OneStop ==
    \A i, j \in DOMAIN rows :
        rows[i].type = "stop" /\ rows[j].type = "stop" /\ rows[i].s = rows[j].s => i = j
=============================================================================
