--------------------------- MODULE Transactions2 ---------------------------
(***************************************************************************)
(* Transactions of an OCPP 2.x station: the EnhancedTransaction of an EVSE *)
(* and its row in the database, the TransactionEvents that are queued for  *)
(* it, remote starts, and what is left of all that after a crash.  The     *)
(* connectors and their StatusNotifications are those of ConnectorStatus2. *)
(*                                                                         *)
(* An event takes two steps: get_seq_no counts and stores, then the event  *)
(* is pushed.  The application, the meter timers and the message thread    *)
(* make events of the same transaction without a lock.                     *)
(***************************************************************************)
EXTENDS ConnectorStatus2, Sequences, SequencesExt

CONSTANTS
    Tokens,         \* id tokens
    Resume,         \* ResumeTransactionsOnBoot
    MaxTx           \* bound on transactions

ASSUME TxAssumption ==
    /\ Resume \in BOOLEAN
    /\ MaxTx \in Nat

VARIABLES
    tx,             \* Evse::transaction: [id, seq, token] or None
    row,            \* the TRANSACTIONS row of the EVSE, same form
    busy,           \* the event that each thread is making, or None
    sent,           \* for each transaction, the events that were queued, in order
    remote,         \* remote_start_id_per_evse: [token, id] or None
    asked,          \* RequestStartTransaction: id -> [evse, token]
    raced,          \* transactions of which two threads made an event at the same time
    interrupted     \* transactions of which an event was lost in a crash

txVars == <<tx, row, busy, sent, remote, asked, raced, interrupted>>
vars == <<statusVars, txVars>>

\* The application calls for one EVSE in order; each transaction has its timers.
AppOf(e) == <<"app", e>>
TimerOf(e) == <<"timer", e>>
MessageThread == <<"message", 0>>
Threads == {AppOf(e) : e \in Evses} \cup {TimerOf(e) : e \in Evses} \cup {MessageThread}

Ids == 1..MaxTx
EventTypes == {"Started", "Updated", "Ended"}
Transactions == [id : Ids, seq : Nat, token : BOOLEAN]
Activities == [evse : Evses, id : Ids, type : EventTypes \cup {"Opened", "Releasing"},
               token : Tokens \cup {None}, taken : Nat]

ASSUME NoneAssumption == None \notin Transactions /\ None \notin Activities

Making(id) == {t \in Threads : busy[t] # None /\ busy[t].id = id}

-----------------------------------------------------------------------------
(* Events *)

\* The new number is stored when the event is queued, not when it is taken.
TakeSeqNo_Unsaved(e) ==
    /\ tx' = [tx EXCEPT ![e].seq = @ + 1]
    /\ UNCHANGED row

\* EnhancedTransaction::get_seq_no, up to its last line
TakeSeqNo(e) ==
    /\ tx' = [tx EXCEPT ![e].seq = @ + 1]
    /\ row' = IF Resume /\ row[e] # None /\ row[e].id = tx[e].id
              THEN [row EXCEPT ![e].seq = tx[e].seq + 1]
              ELSE row

\* Thread t begins an event of the transaction of e; token is the idToken it carries, or None.
BeginEvent(t, e, type, token) ==
    /\ busy' = [busy EXCEPT ![t] = [evse |-> e, id |-> tx[e].id, type |-> type,
                                    token |-> token, taken |-> tx[e].seq]]
    /\ raced' = IF Making(tx[e].id) \ {t} # {} THEN raced \cup {tx[e].id} ELSE raced
    /\ TakeSeqNo(e)

\* "return this->seq_no - 1" reads the counter again, unless the compiler kept it.
SeqNos(b) ==
    {b.taken} \cup (IF tx[b.evse] # None /\ tx[b.evse].id = b.id THEN {tx[b.evse].seq - 1} ELSE {})

\* An event is for a remote start if it carries the token and the EVSE of one; only Started does.
RemoteOf(b) ==
    IF b.type = "Started" /\ remote[b.evse] # None /\ remote[b.evse].token = b.token /\ b.token # None
    THEN remote[b.evse].id
    ELSE 0

\* The remote start stays in the map after it was reported.
ForgetRemote_Kept(b) == UNCHANGED remote

ForgetRemote(b) ==
    remote' = IF RemoteOf(b) # 0 THEN [remote EXCEPT ![b.evse] = None] ELSE remote

\* transaction_event_req: the event is queued, and persisted by the queue.
PushEvent(t) ==
    /\ busy[t] # None
    /\ busy[t].type \in EventTypes
    /\ \E b \in {busy[t]}, n \in SeqNos(busy[t]) :
           /\ sent' = [sent EXCEPT ![b.id] = Append(@, [type |-> b.type, seq |-> n, remote |-> RemoteOf(b)])]
           /\ ForgetRemote(b)
           /\ busy' = [busy EXCEPT ![t] = IF b.type = "Ended" THEN [b EXCEPT !.type = "Releasing"] ELSE None]
    /\ UNCHANGED <<tx, row, asked, raced, interrupted>>
    /\ UNCHANGED statusVars

-----------------------------------------------------------------------------
(* Start and finish *)

\* open_transaction; the row is only written when transactions are to be resumed
OpenTransaction(e, token) ==
    LET t == [id |-> Len(sent) + 1, seq |-> 0, token |-> token # None]
    IN  /\ tx' = [tx EXCEPT ![e] = t]
        /\ row' = IF Resume THEN [row EXCEPT ![e] = t] ELSE row

\* on_transaction_started: the reservation is consumed, the transaction is opened ...
Start(e, token) ==
    /\ Len(sent) < MaxTx
    /\ busy[AppOf(e)] = None
    /\ tx[e] = None
    /\ ConnectorEvent(e, "reserved", FALSE)
    /\ OpenTransaction(e, token)
    /\ sent' = Append(sent, <<>>)
    /\ busy' = [busy EXCEPT ![AppOf(e)] = [evse |-> e, id |-> Len(sent) + 1, type |-> "Opened",
                                           token |-> token, taken |-> 0]]
    /\ UNCHANGED <<accepted, connected, phase, disconnectedAt, report, events>>
    /\ UNCHANGED <<remote, asked, raced, interrupted>>

\* ... and its first event is made.
Started(e) ==
    /\ busy[AppOf(e)] # None
    /\ busy[AppOf(e)].type = "Opened"
    /\ BeginEvent(AppOf(e), e, "Started", busy[AppOf(e)].token)
    /\ UNCHANGED <<sent, remote, asked, interrupted>>
    /\ UNCHANGED statusVars

\* on_transaction_finished: close_transaction stops the timers, the last event is made ...
Finish(e) ==
    /\ busy[AppOf(e)] = None
    /\ tx[e] # None
    /\ BeginEvent(AppOf(e), e, "Ended", None)
    /\ UNCHANGED <<sent, remote, asked, interrupted>>
    /\ UNCHANGED statusVars

\* ... and once it is queued, release_transaction deletes the row.
Release(e) ==
    /\ busy[AppOf(e)] # None
    /\ busy[AppOf(e)].type = "Releasing"
    /\ row' = IF row[e] # None /\ row[e].id = tx[e].id THEN [row EXCEPT ![e] = None] ELSE row
    /\ tx' = [tx EXCEPT ![e] = None]
    /\ busy' = [busy EXCEPT ![AppOf(e)] = None]
    /\ UNCHANGED <<sent, remote, asked, raced, interrupted>>
    /\ UNCHANGED statusVars

Finishing(e) == busy[AppOf(e)] # None /\ busy[AppOf(e)].type \in {"Ended", "Releasing"}

-----------------------------------------------------------------------------
(* Updates *)

statusButEvents == <<flags, reported, csms, accepted, connected, phase, disconnectedAt, report, stale>>

\* on_authorized: the token is reported once.
Authorized(e, token) ==
    /\ Spend
    /\ busy[AppOf(e)] = None
    /\ tx[e] # None
    /\ ~tx[e].token
    /\ busy' = [busy EXCEPT ![AppOf(e)] = [evse |-> e, id |-> tx[e].id, type |-> "Updated",
                                           token |-> token, taken |-> tx[e].seq]]
    /\ raced' = IF Making(tx[e].id) # {} THEN raced \cup {tx[e].id} ELSE raced
    /\ tx' = [tx EXCEPT ![e].token = TRUE, ![e].seq = @ + 1]
    /\ row' = IF Resume THEN [row EXCEPT ![e] = tx'[e]] ELSE row
    /\ UNCHANGED <<sent, remote, asked, interrupted>>
    /\ UNCHANGED statusButEvents

\* on_charging_state_changed
ChargingStateChanged(e) ==
    /\ Spend
    /\ busy[AppOf(e)] = None
    /\ tx[e] # None
    /\ BeginEvent(AppOf(e), e, "Updated", None)
    /\ UNCHANGED <<sent, remote, asked, interrupted>>
    /\ UNCHANGED statusButEvents

\* A meter timer of the transaction, until on_transaction_finished stops it.
MeterTimer(e) ==
    /\ Spend
    /\ tx[e] # None
    /\ busy[TimerOf(e)] = None
    /\ ~Finishing(e)
    /\ BeginEvent(TimerOf(e), e, "Updated", None)
    /\ UNCHANGED <<sent, remote, asked, interrupted>>
    /\ UNCHANGED statusButEvents

\* TriggerMessage(TransactionEvent)
TriggerEvent(e) ==
    /\ Spend
    /\ tx[e] # None
    /\ busy[MessageThread] = None
    /\ BeginEvent(MessageThread, e, "Updated", None)
    /\ UNCHANGED <<sent, remote, asked, interrupted>>
    /\ UNCHANGED statusButEvents

-----------------------------------------------------------------------------
(* Remote start *)

\* is_evse_connector_available
EvseAvailable(e) == tx[e] = None /\ Status(flags[e]) \notin {"Faulted", "Unavailable"}

\* RequestStartTransaction: the application decides whether the EVSE is reserved for another token,
\* and what the answer is, but the request is noted before it is asked.
RemoteStart(e, token, reserved) ==
    /\ Spend
    /\ busy[MessageThread] = None
    /\ asked' = Append(asked, [evse |-> e, token |-> token])
    /\ remote' = IF EvseAvailable(e) /\ ~reserved
                 THEN [remote EXCEPT ![e] = [token |-> token, id |-> Len(asked) + 1]]
                 ELSE remote
    /\ UNCHANGED <<tx, row, busy, sent, raced, interrupted>>
    /\ UNCHANGED statusButEvents

-----------------------------------------------------------------------------
(* Crash and restart *)

\* The EVSEs come up without their transactions.
Resumed_Dropped(e) == None

\* Evse's constructor: the row is resumed, or deleted if it should not be.
Resumed(e) == IF Resume THEN row[e] ELSE None

Crash ==
    /\ Spend
    /\ tx' = [e \in Evses |-> Resumed(e)]
    /\ row' = [e \in Evses |-> Resumed(e)]
    /\ busy' = [t \in Threads |-> None]
    /\ interrupted' = interrupted \cup {busy[t].id : t \in {u \in Threads : busy[u] # None}}
    /\ remote' = [e \in Evses |-> None]
    /\ UNCHANGED <<sent, asked, raced>>
    /\ StatusBooted
    /\ UNCHANGED csms

-----------------------------------------------------------------------------
Init ==
    /\ StatusInit
    /\ tx = [e \in Evses |-> None]
    /\ row = [e \in Evses |-> None]
    /\ busy = [t \in Threads |-> None]
    /\ sent = <<>>
    /\ remote = [e \in Evses |-> None]
    /\ asked = <<>>
    /\ raced = {}
    /\ interrupted = {}

\* A thread goes on with what it is in the middle of.
ThreadStep ==
    \/ \E t \in Threads : PushEvent(t)
    \/ \E e \in Evses : Started(e) \/ Release(e)

Next ==
    \/ StatusNext /\ UNCHANGED txVars
    \/ \E e \in Evses, token \in Tokens \cup {None} : Start(e, token)
    \/ \E e \in Evses, token \in Tokens : Authorized(e, token)
    \/ \E e \in Evses : Finish(e) \/ ChargingStateChanged(e) \/ MeterTimer(e) \/ TriggerEvent(e)
    \/ \E e \in Evses, token \in Tokens, reserved \in BOOLEAN : RemoteStart(e, token, reserved)
    \/ ThreadStep
    \/ Crash

Spec == Init /\ [][Next]_vars

\* Threads go on, and the application finishes every transaction.
Fairness == WF_vars(ThreadStep) /\ \A e \in Evses : WF_vars(Finish(e))

FairSpec == Spec /\ Fairness

-----------------------------------------------------------------------------
Types(id) == IF id \in DOMAIN sent THEN {event.type : event \in Range(sent[id])} ELSE {}

TypeOK ==
    /\ StatusTypeOK
    /\ tx \in [Evses -> Transactions \cup {None}]
    /\ row \in [Evses -> Transactions \cup {None}]
    /\ busy \in [Threads -> Activities \cup {None}]
    /\ sent \in Seq(Seq([type : EventTypes, seq : Nat, remote : 0..MaxEvents]))
    /\ Len(sent) <= MaxTx
    /\ remote \in [Evses -> [token : Tokens, id : 1..MaxEvents] \cup {None}]
    /\ asked \in Seq([evse : Evses, token : Tokens])
    /\ raced \subseteq Ids /\ interrupted \subseteq Ids

\* The events of a transaction carry growing sequence numbers, also when it was resumed after a crash
\* (get_seq_no stores the number before the event is queued), and without a crash in an event they
\* are numbered from 0 without a gap, the first is Started and the last, if any, the only Ended.
\* This leaves out the transactions of which two threads made an event at the same time.
EventsInOrder ==
    \A id \in 1..Len(sent) : id \notin raced =>
        /\ \A i, j \in 1..Len(sent[id]) : i < j => sent[id][i].seq < sent[id][j].seq
        /\ id \notin interrupted =>
             \A i \in 1..Len(sent[id]) :
                 /\ sent[id][i].seq = i - 1
                 /\ (sent[id][i].type = "Started") = (i = 1)
                 /\ sent[id][i].type = "Ended" => i = Len(sent[id])

\* A remote start is reported by at most one event, which is the Started of a transaction on the EVSE
\* and with the token of the request: transaction_event_req takes the entry out of the map.
RemoteStartOnce ==
    \A r \in 1..Len(asked) :
        LET hits == {h \in (1..Len(sent)) \X (1..2 + MaxEvents) :
                        h[2] <= Len(sent[h[1]]) /\ sent[h[1]][h[2]].remote = r}
        IN  Cardinality(hits) <= 1 /\ \A h \in hits : sent[h[1]][h[2]].type = "Started"

\* With ResumeTransactionsOnBoot, a transaction the CSMS heard to start is heard to end, whatever
\* crashes there are: its row outlives every crash until Ended is queued.
EveryTransactionEnds ==
    \A id \in Ids : "Started" \in Types(id) ~> "Ended" \in Types(id)

==============================================================================
