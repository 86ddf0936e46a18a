---------------------------- MODULE MessageQueue ----------------------------
(***************************************************************************)
(* The message queue of libocpp: ocpp::MessageQueue<M> of                  *)
(* include/ocpp/common/message_queue.hpp, with the type predicates of      *)
(* lib/ocpp/v16/message_queue.cpp and lib/ocpp/v2/message_queue.cpp and    *)
(* the two queue tables of database_handler_common.cpp.                    *)
(*                                                                         *)
(* Threads.  The worker thread (start()), the websocket's receive thread   *)
(* (receive() and the handler that follows it), the threads of the three   *)
(* timers, and the application and connectivity threads that push, pause   *)
(* and resume.  One action is one critical section of message_mutex, or    *)
(* one step a thread takes without it.  The worker is the only thread that *)
(* is interrupted while it holds the mutex: LockFree tells when the others *)
(* may enter.                                                              *)
(*                                                                         *)
(* Messages.  A message is the number of its push: 1, 2, ... in the order  *)
(* in which the application pushed them.  That number is also the order of *)
(* its row in the database, since SQLite scans a table in insertion order. *)
(* msgs[m] holds the fields of the ControlMessage for as long as the queue *)
(* or the database refers to it.  A unique id is a pair <<m, gen>>: gen    *)
(* counts the ids generated for m since it was built, so <<m, 0>> is its   *)
(* initial_unique_id, the key of its row.                                  *)
(***************************************************************************)
EXTENDS Integers, Sequences, FiniteSets, SequencesExt

CONSTANTS
    AppKinds,           \* kinds of message the application sends by itself
    TriggeredKinds,     \* kinds the CSMS asks for with a TriggerMessage
    TransactionKinds,   \* is_transaction_message
    UpdateKinds,        \* is_transaction_update_message
    BootKinds,          \* is_boot_notification_message
    SecurityKinds,      \* SecurityEventNotification
    ExternalNotify,     \* kinds whose response handler wakes the worker itself
    Discard,            \* message_types_discard_for_queueing
    QueueAll,           \* queue_all_messages
    IgnoreSecurityEvents,   \* argument of get_persisted_messages_from_db
    Threshold,          \* queues_total_size_threshold
    Configs,            \* values of [attempts, interval, timeout]
    BootInterval,       \* boot_notification_retry_interval_seconds
    DelayedResume,      \* whether message_queue_resume_delay is positive
    TimerRace,          \* whether a timer may expire just before it is cancelled,
                        \* or just before the worker blocks
    CsmsCalls,          \* ids of the CALLs the CSMS sends
    None,               \* no message, no id, no timer
    MaxMsgs,            \* bound: messages pushed
    MaxTime,            \* bound: the clock
    MaxResumes,         \* bound: pause_resume_ctr, when the connection is lost
    MaxRestarts,        \* bound: crashes and restarts of the process
    MaxFailures         \* bound: failed sends, CALLERRORs, and timeouts of a
                        \* BootNotification, which is retried without end

Kinds == AppKinds \cup TriggeredKinds

ASSUME KindsAssumption ==
    /\ TransactionKinds \subseteq Kinds
    /\ UpdateKinds \subseteq TransactionKinds
    /\ BootKinds \subseteq Kinds \ TransactionKinds
    /\ SecurityKinds \subseteq TransactionKinds
    /\ ExternalNotify \subseteq TransactionKinds
    /\ Discard \subseteq Kinds
    /\ QueueAll \in BOOLEAN
    /\ IgnoreSecurityEvents \in BOOLEAN
    /\ DelayedResume \in BOOLEAN
    /\ TimerRace \in BOOLEAN

ASSUME NumbersAssumption ==
    /\ Threshold \in Nat
    /\ BootInterval \in Nat
    /\ Configs \subseteq [attempts : Nat, interval : Nat, timeout : Nat]
    /\ Configs # {}
    /\ MaxMsgs \in Nat
    /\ MaxTime \in Nat
    /\ MaxResumes \in Nat
    /\ MaxRestarts \in Nat
    /\ MaxFailures \in Nat

\* None is a value of its own, different from every message, call and time.
ASSUME NoneAssumption == None \notin Int /\ None \notin CsmsCalls

VARIABLES
    pushed,         \* how many messages have been pushed
    msgs,           \* the control messages that are queued, in flight or stored
    tq, nq,         \* transaction_message_queue, normal_message_queue
    inFlight,       \* in_flight
    newMessage,     \* new_message
    dbT, dbN,       \* the tables TRANSACTION_QUEUE and NORMAL_QUEUE
    paused, resuming,
    ctr,            \* pause_resume_ctr
    resumeTimer,    \* resume_timer: the counter its callback was given
    resumeFired,    \* ... the counters of callbacks already dispatched
    lastRequest,    \* history: the last of pause() and resume()
    msgTimer,       \* in_flight_timeout_timer: its deadline
    msgFired,       \* ... the id it was set for, once its callback is dispatched
    wakeTimer,      \* notify_queue_timer: its deadline
    worker,         \* where the worker thread is
    selected,       \* ... and the message it is about to send
    rx,             \* where the receive thread is
    nextToSend,     \* next_message_to_send
    running,
    accepted,       \* is_registration_status_accepted, of the queue
    registered,     \* registration_status = Accepted, of the charge point
    config,         \* attempts, retry interval and message timeout
    up,             \* the process runs
    outstanding,    \* ids of CALLs the CSMS holds and has not answered
    now,            \* the clock
    restarts, failures

queue == <<pushed, msgs, tq, nq, inFlight, newMessage>>
db == <<dbT, dbN>>
control == <<paused, resuming, ctr, resumeTimer, resumeFired, lastRequest>>
timers == <<msgTimer, msgFired, wakeTimer>>
receiver == <<rx, nextToSend>>
process == <<running, accepted, registered, config, up>>
env == <<outstanding, now, restarts, failures>>
vars == <<queue, db, control, timers, worker, selected, receiver, process, env>>

Msgs == 1..pushed
Ids == (1..MaxMsgs) \X Nat
Kind(m) == msgs[m].kind
UniqueId(m) == <<m, msgs[m].gen>>
Transactional(m) == Kind(m) \in TransactionKinds

\* config.check_queue(messageType)
CheckQueue(kind) == QueueAll /\ kind \notin Discard

\* The message is persisted and sent again, if need be after a restart.
Kept(m) == Transactional(m) \/ CheckQueue(Kind(m))

\* allowed_to_send_message
AllowedToSend(m) ==
    /\ msgs[m].stall => accepted
    /\ msgs[m].timestamp <= now

\* Mutant: the worker releases message_mutex while it sends.
LockFree_WhileSending == up /\ worker # "blocking"

\* message_mutex is not held by the worker between two of its steps.
LockFree == up /\ worker \notin {"blocking", "sending"}

\* cv.notify_one and cv.notify_all: the worker is the only waiter.
Notified == IF worker = "waiting" THEN "check" ELSE worker

AtMost(t) == IF t < MaxTime THEN t ELSE MaxTime

CountFailure == failures < MaxFailures /\ failures' = failures + 1

-----------------------------------------------------------------------------
(* Which messages there are.                                               *)

Pending == ToSet(tq) \cup ToSet(nq) \cup ({inFlight} \ {None})

Live == Pending \cup dbT \cup dbN

\* Messages that nothing refers to any more are freed. The conjunct comes last
\* in an action: Live' depends on the other primed variables.
UpdateMessages(f) == msgs' = [m \in Live' |-> f[m]]

NewControlMessage(kind, stall) ==
    [kind |-> kind, gen |-> 0, attempts |-> 0, created |-> now,
     timestamp |-> now, stall |-> stall, promise |-> "open"]

-----------------------------------------------------------------------------
(* check_queue_sizes and the two ways to drop messages.                    *)

\* The number of messages one round of
\* drop_messages_from_normal_message_queue tries to drop.
DropBatch == IF Threshold \div 10 > 1 THEN Threshold \div 10 ELSE 1

\* How many messages the rounds drop from the front of a normal queue of
\* length n next to t transaction messages: whole batches, until the sum is
\* within the threshold or the normal queue is empty.
NormalDrops(n, t) ==
    LET excess == n + t - Threshold
        batches == (excess + DropBatch - 1) \div DropBatch
    IN  IF excess <= 0 THEN 0
        ELSE IF batches * DropBatch < n THEN batches * DropBatch ELSE n

\* The messages of S that were pushed after m.
Later(S, m) == {x \in S : x > m}

\* Mutant: messages of every kind are dropped.
UpdatesToDrop_AnyKind(S) == {m \in S : Cardinality(Later(S, m)) > 1}

\* The run of update messages of the queue S that ends with m.
UpdateRun(S, m) ==
    {x \in S : x <= m /\ \A y \in x..m : y \in S => Kind(y) \in UpdateKinds}

\* drop_update_messages_from_transactional_message_queue: of a run of update
\* messages the first, third, ... are dropped, but never one of the last two
\* messages of the queue. The queue S is in push order.
UpdatesToDrop(S) ==
    {m \in S : /\ Cardinality(Later(S, m)) > 1
               /\ Cardinality(UpdateRun(S, m)) % 2 = 1}

\* What the rounds leave of a transaction queue that may have `room' messages.
UpdatesKept(S, room) ==
    LET left[k \in 0..Cardinality(S)] ==
            IF k = 0 THEN S
            ELSE IF Cardinality(left[k - 1]) > room
                 THEN left[k - 1] \ UpdatesToDrop(left[k - 1])
                 ELSE left[k - 1]
    IN  left[Cardinality(S)]

\* The messages of S in the order in which they were pushed.
InPushOrder(S) ==
    {s \in [1..Cardinality(S) -> S] :
        /\ \A i, j \in DOMAIN s : i < j => s[i] < s[j]
        /\ ToSet(s) = S}

\* The queues t and n after check_queue_sizes, and the rows it removes.
CheckQueueSizes(t, n, rowsT, rowsN) ==
    LET cut == NormalDrops(Len(n), Len(t))
        normal == SubSeq(n, cut + 1, Len(n))
        cutRows == IF QueueAll THEN ToSet(SubSeq(n, 1, cut)) ELSE {}
        kept == UpdatesKept(ToSet(t), Threshold - Len(normal))
    IN  /\ nq' = normal
        /\ dbN' = rowsN \ cutRows
        /\ tq' \in InPushOrder(kept)
        /\ dbT' = rowsT \ (ToSet(t) \ kept)

-----------------------------------------------------------------------------
(* The application pushes messages.                                        *)

\* add_to_transaction_message_queue
AddToTransactionQueue(m) ==
    CheckQueueSizes(Append(tq, m), nq, dbT \cup {m}, dbN)

\* add_to_normal_message_queue: a BootNotification jumps the queue.
AddToNormalQueue(m, kind) ==
    CheckQueueSizes(tq, IF kind \in BootKinds THEN Cons(m, nq) ELSE Append(nq, m),
                    dbT, IF CheckQueue(kind) THEN dbN \cup {m} ELSE dbN)

\* push_call and push_call_async: a normal message is not queued while the
\* queue is offline; push_call_async then resolves its promise.
PushAllowed(kind) ==
    \/ kind \in TransactionKinds \cup BootKinds
    \/ ~paused
    \/ resuming
    \/ CheckQueue(kind)

PushCall(kind, stall) ==
    LET m == pushed + 1
    IN  /\ LockFree /\ running
        /\ pushed < MaxMsgs
        /\ PushAllowed(kind)
        /\ pushed' = m
        /\ IF kind \in TransactionKinds THEN AddToTransactionQueue(m)
                                        ELSE AddToNormalQueue(m, kind)
        /\ newMessage' = TRUE
        /\ worker' = Notified
        /\ UNCHANGED <<inFlight, control, timers, selected, receiver, process, env>>
        /\ UpdateMessages([x \in DOMAIN msgs \cup {m} |->
               IF x = m THEN NewControlMessage(kind, stall) ELSE msgs[x]])

\* get_message_transmission_priority
TransmissionPriority(kind, triggered) ==
    IF registered \/ kind \in BootKinds \/ triggered THEN "SendImmediately"
    ELSE IF kind \in TransactionKinds \/ QueueAll
         THEN "SendAfterRegistrationStatusAccepted"
         ELSE "Discard"

\* MessageDispatcher::dispatch_call. dispatch_call_async pushes only what is
\* sent immediately, with the same effect on the queue.
DispatchCall(kind, triggered) ==
    LET priority == TransmissionPriority(kind, triggered)
    IN  /\ priority # "Discard"
        /\ PushCall(kind, priority = "SendAfterRegistrationStatusAccepted")

-----------------------------------------------------------------------------
(* The worker thread.                                                      *)

\* The first message of the normal queue that may be sent, 0 if there is none.
FirstAllowedNormal == SelectInSeq(nq, AllowedToSend)

\* Transaction messages keep their order: only the first one is considered. It
\* loses against a BootNotification and against an older normal message.
TransactionSelected ==
    /\ tq # <<>>
    /\ AllowedToSend(Head(tq))
    /\ FirstAllowedNormal # 0 =>
          LET n == nq[FirstAllowedNormal]
          IN  /\ Kind(n) \notin BootKinds
              /\ msgs[Head(tq)].timestamp <= msgs[n].timestamp

Selection ==
    IF TransactionSelected THEN Head(tq)
    ELSE IF FirstAllowedNormal # 0 THEN nq[FirstAllowedNormal]
    ELSE None

\* The predicate of cv.wait.
WaitOver == ~running \/ (~paused /\ newMessage /\ inFlight = None)

\* The loop condition is read without the mutex.
WorkerExits == worker = "loop" /\ ~running /\ worker' = "done"

\* The predicate is false: the worker is about to block, still holding the
\* mutex, and is on the condition variable's list once it has released it.
WorkerWaits ==
    \/ /\ worker = "check" \/ (worker = "loop" /\ running)
       /\ ~WaitOver
       /\ worker' = "blocking"
    \/ worker = "blocking" /\ worker' = "waiting"

\* cv.wait may return without a notification.
SpuriousWakeup == worker = "waiting" /\ worker' = "check"

WorkerSleeps ==
    /\ up
    /\ WorkerExits \/ WorkerWaits \/ SpuriousWakeup
    /\ UNCHANGED <<queue, db, control, timers, selected, receiver, process, env>>

NothingToDo == (tq = <<>> /\ nq = <<>>) \/ paused \/ inFlight # None

\* The wait is over: the worker chooses a message. It goes round its loop when
\* there is none, when none may be sent yet (which clears new_message), and
\* when the answer to a CALL of the CSMS has to be sent first.
WorkerSelect ==
    /\ up
    /\ worker = "check" \/ (worker = "loop" /\ running)
    /\ WaitOver
    /\ \/ /\ NothingToDo
          /\ worker' = "loop"
          /\ UNCHANGED <<newMessage, selected>>
       \/ /\ ~NothingToDo
          /\ Selection = None
          /\ newMessage' = FALSE
          /\ worker' = "loop"
          /\ UNCHANGED selected
       \/ /\ ~NothingToDo
          /\ Selection # None
          /\ nextToSend # None
          /\ worker' = "loop"
          /\ UNCHANGED <<newMessage, selected>>
       \/ /\ ~NothingToDo
          /\ Selection # None
          /\ nextToSend = None
          /\ selected' = Selection
          /\ worker' = "sending"
          /\ UNCHANGED newMessage
    /\ UNCHANGED <<pushed, msgs, tq, nq, inFlight, db, control, timers, receiver,
                   process, env>>

\* The message went out: it leaves its queue, is in flight, and its timer runs.
WorkerSend ==
    LET m == selected
        attempts == msgs[m].attempts + 1
    IN  /\ up /\ worker = "sending"
        /\ inFlight' = m
        /\ msgs' = [msgs EXCEPT ![m].attempts = attempts]
        /\ IF Transactional(m)
           THEN tq' = Tail(tq) /\ UNCHANGED nq
           ELSE nq' = RemoveAt(nq, CHOOSE i \in DOMAIN nq : nq[i] = m) /\ UNCHANGED tq
        /\ newMessage' = (newMessage /\ ~(tq' = <<>> /\ nq' = <<>>))
        /\ msgTimer' = AtMost(now + config.timeout + config.interval * attempts)
        /\ outstanding' = outstanding \cup {UniqueId(m)}
        /\ worker' = "loop"
        /\ selected' = None
        /\ UNCHANGED <<pushed, db, control, msgFired, wakeTimer, receiver, process, now,
                       restarts, failures>>

\* Mutant: a message that is to be sent again is queued again.
NormalAfterFailure_Requeued(m) == IF Kept(m) THEN Cons(m, nq) ELSE Tail(nq)

\* A message that is to be kept has not left its queue; for any other one the
\* FIRST message of the normal queue is dropped (message_queue.hpp:545).
NormalAfterFailure(m) == IF Kept(m) THEN nq ELSE Tail(nq)

\* send_callback returned false, though a message the websocket still holds when
\* it gives up waiting may go out later: the queue is paused. The promise of a
\* message that is not to be kept is resolved.
WorkerSendFails ==
    LET m == selected
        kept == Kept(m)
    IN  /\ up /\ worker = "sending"
        /\ CountFailure
        /\ paused' = TRUE
        /\ nq' = NormalAfterFailure(m)
        /\ up' = (kept \/ msgs[m].promise = "open")
        /\ newMessage' = (newMessage /\ ~(tq = <<>> /\ nq' = <<>>))
        /\ msgTimer' = None
        /\ outstanding' \in {outstanding, outstanding \cup {UniqueId(m)}}
        /\ worker' = "loop"
        /\ selected' = None
        /\ UNCHANGED <<pushed, tq, inFlight, db, resuming, ctr, resumeTimer,
                       resumeFired, lastRequest, msgFired, wakeTimer, receiver,
                       running, accepted, registered, config, now, restarts>>
        /\ UpdateMessages([msgs EXCEPT ![m].attempts = @ + 1,
               ![m].promise = IF kept THEN @ ELSE "offline"])

-----------------------------------------------------------------------------
(* The receive thread: receive(), and the response handlers that touch the *)
(* queue.  rx is <<"idle">>, or the step the thread is at and the id it    *)
(* handles.                                                                *)

Idle == <<"idle">>

\* A CALL of the CSMS: its answer has to be the next message sent.
ReceiveCall(c) ==
    /\ up /\ rx = Idle
    /\ nextToSend' = c
    /\ rx' = <<"call", c>>
    /\ UNCHANGED <<queue, db, control, timers, worker, selected, process, env>>

\* push_call_result and push_call_error; the CALL may also be left unanswered,
\* and reset_next_message_to_send is then called instead. All three wake or
\* release the worker in the same way.
AnswerCall ==
    /\ up /\ rx[1] = "call"
    /\ nextToSend' = IF nextToSend = rx[2] THEN None ELSE nextToSend
    /\ rx' = Idle
    /\ worker' = Notified
    /\ UNCHANGED <<queue, db, control, timers, selected, process, env>>

\* A CALLRESULT or CALLERROR arrives: next_message_to_send is reset before
\* message_mutex is taken.
ReceiveAnswer(id, type) ==
    /\ up /\ rx = Idle
    /\ id \in outstanding
    /\ outstanding' = outstanding \ {id}
    /\ nextToSend' = None
    /\ rx' = <<type, id>>
    /\ \/ type = "result" /\ UNCHANGED failures
       \/ type = "error" /\ CountFailure
    /\ UNCHANGED <<queue, db, control, timers, worker, selected, process, now,
                   restarts>>

Matches(id) == inFlight # None /\ UniqueId(inFlight) = id

\* Without a message in flight, or for another id, the answer is ignored.
IgnoreAnswer ==
    /\ LockFree /\ rx[1] \in {"result", "error"}
    /\ ~Matches(rx[2])
    /\ rx' = Idle
    /\ UNCHANGED <<queue, db, control, timers, worker, selected, nextToSend,
                   process, env>>

\* reset_in_flight. Stopping the timer does not take back a callback that has
\* been dispatched, unless TimerRace excludes that race.
ResetInFlight ==
    /\ inFlight' = None
    /\ msgTimer' = None
    /\ msgFired' = IF TimerRace THEN msgFired ELSE None

\* What the receive thread still has to do after the CALLRESULT for kind: the
\* BootNotification handler sets the registration status, the StartTransaction
\* handler of OCPP 1.6 wakes the worker.
AfterResult(kind) ==
    IF kind \in BootKinds THEN <<"boot">>
    ELSE IF kind \in ExternalNotify THEN <<"notify">>
    ELSE Idle

\* handle_call_result
HandleCallResult ==
    LET m == inFlight
    IN  /\ LockFree /\ rx[1] = "result"
        /\ Matches(rx[2])
        /\ msgs[m].promise = "open"
        /\ dbT' = dbT \ {m}
        /\ dbN' = IF CheckQueue(Kind(m)) THEN dbN \ {m} ELSE dbN
        /\ ResetInFlight
        /\ worker' = IF Kind(m) \in ExternalNotify THEN worker ELSE Notified
        /\ rx' = AfterResult(Kind(m))
        /\ UNCHANGED <<pushed, tq, nq, newMessage, control, wakeTimer, selected,
                       nextToSend, process, env>>
        /\ UpdateMessages([msgs EXCEPT ![m].promise = "answered"])

\* std::promise::set_value throws when the promise has been resolved before,
\* and nothing on the receive thread catches it.
ResolveTwice ==
    /\ LockFree /\ rx[1] = "result"
    /\ Matches(rx[2])
    /\ msgs[inFlight].promise # "open"
    /\ up' = FALSE
    /\ UNCHANGED <<queue, db, control, timers, worker, selected, receiver,
                   running, accepted, registered, config, env>>

\* handleBootNotificationResponse: the registration is accepted, or it is pending
\* or rejected. The flag of the queue is only ever set.
HandleBootResponse ==
    /\ LockFree /\ rx = <<"boot">>
    /\ rx' = Idle
    /\ \/ registered' = TRUE /\ accepted' = TRUE /\ worker' = Notified
       \/ registered' = FALSE /\ UNCHANGED <<accepted, worker>>
    /\ UNCHANGED <<queue, db, control, timers, selected, nextToSend, running,
                   config, up, env>>

\* notify_start_transaction_handled
NotifyStartTransactionHandled ==
    /\ up /\ rx = <<"notify">>
    /\ rx' = Idle
    /\ worker' = Notified
    /\ UNCHANGED <<queue, db, control, timers, selected, nextToSend, process,
                   env>>

\* The CALLERROR matches the message in flight; the mutex is released before
\* handle_timeout_or_callerror takes it again.
CheckCallError ==
    /\ LockFree /\ rx[1] = "error"
    /\ Matches(rx[2])
    /\ rx' = <<"callerror", rx[2]>>
    /\ UNCHANGED <<queue, db, control, timers, worker, selected, nextToSend,
                   process, env>>

-----------------------------------------------------------------------------
(* handle_timeout_or_callerror                                             *)

AttemptsLeft(m) == msgs[m].attempts < config.attempts

\* Mutant: the message goes to the back of its queue.
RetryKept_AtBack(m) ==
    /\ IF Transactional(m) THEN tq' = Append(tq, m) /\ UNCHANGED nq
                           ELSE nq' = Append(nq, m) /\ UNCHANGED tq
    /\ wakeTimer' = now
    /\ msgs' = [msgs EXCEPT ![m].gen = @ + 1, ![m].timestamp = now]
    /\ UNCHANGED <<db, up>>

\* Mutant: every message goes to the normal queue.
RetryKept_Normal(m) ==
    /\ nq' = Cons(m, nq)
    /\ wakeTimer' = now
    /\ msgs' = [msgs EXCEPT ![m].gen = @ + 1, ![m].timestamp = now]
    /\ UNCHANGED <<tq, db, up>>

\* Mutant: nothing wakes the worker when the message is due.
RetryKept_NoTimer(m) ==
    /\ IF Transactional(m) THEN tq' = Cons(m, tq) /\ UNCHANGED nq
                           ELSE nq' = Cons(m, nq) /\ UNCHANGED tq
    /\ msgs' = [msgs EXCEPT ![m].gen = @ + 1, ![m].timestamp = now]
    /\ UNCHANGED <<wakeTimer, db, up>>

\* A message that is kept gets a new id, waits for interval * attempts and goes
\* back to the front of its queue.
RetryKept(m) ==
    LET due == IF config.interval > 0
               THEN msgs[m].timestamp + config.interval * msgs[m].attempts
               ELSE now
    IN  /\ IF Transactional(m) THEN tq' = Cons(m, tq) /\ UNCHANGED nq
                               ELSE nq' = Cons(m, nq) /\ UNCHANGED tq
        /\ wakeTimer' = AtMost(due)
        /\ msgs' = [msgs EXCEPT ![m].gen = @ + 1, ![m].timestamp = AtMost(due)]
        /\ UNCHANGED <<db, up>>

\* Mutant: the row stays.
GiveUp_KeepsRow(m, answer) ==
    /\ UNCHANGED <<tq, nq, db, wakeTimer, up>>
    /\ UpdateMessages([msgs EXCEPT ![m].promise = answer])

\* All attempts are used up: the promise is resolved and the row removed.
GiveUp(m, answer) ==
    /\ IF Transactional(m) THEN dbT' = dbT \ {m} /\ UNCHANGED dbN
                           ELSE dbN' = dbN \ {m} /\ UNCHANGED dbT
    /\ UNCHANGED <<tq, nq, wakeTimer, up>>
    /\ UpdateMessages([msgs EXCEPT ![m].promise = answer])

RetryBoot(m) ==
    LET due == AtMost(msgs[m].timestamp + BootInterval)
    IN  /\ msgs' = [msgs EXCEPT ![m].gen = @ + 1, ![m].timestamp = due]
        /\ nq' = Cons(m, nq)
        /\ wakeTimer' = due
        /\ UNCHANGED <<tq, db, up>>

DropUnkept(m, answer) ==
    /\ up' = (msgs[m].promise = "open")
    /\ UNCHANGED <<tq, nq, db, wakeTimer>>
    /\ UpdateMessages([msgs EXCEPT ![m].promise = answer])

\* answer is what the promise is resolved with: "answered" for a CALLERROR,
\* "offline" for a timeout. Without a message in flight the code dereferences
\* a null pointer, and the process dies.
HandleTimeoutOrCallError(answer, fired) ==
    /\ msgFired' = fired
    /\ \/ /\ inFlight = None
          /\ up' = FALSE
          /\ UNCHANGED <<queue, db, msgTimer, wakeTimer, worker>>
       \/ /\ inFlight # None
          /\ inFlight' = None
          /\ msgTimer' = None
          /\ worker' = Notified
          /\ UNCHANGED <<pushed, newMessage>>
          /\ \/ Kept(inFlight) /\ AttemptsLeft(inFlight) /\ RetryKept(inFlight)
             \/ Kept(inFlight) /\ ~AttemptsLeft(inFlight) /\ GiveUp(inFlight, answer)
             \/ ~Kept(inFlight) /\ Kind(inFlight) \in BootKinds /\ RetryBoot(inFlight)
             \/ ~Kept(inFlight) /\ Kind(inFlight) \notin BootKinds
                               /\ DropUnkept(inFlight, answer)

HandleCallError ==
    /\ LockFree /\ rx[1] = "callerror"
    /\ HandleTimeoutOrCallError("answered", IF TimerRace THEN msgFired ELSE None)
    /\ rx' = Idle
    /\ UNCHANGED <<control, selected, nextToSend, running, accepted,
                   registered, config, env>>
-----------------------------------------------------------------------------
(* The timers.                                                             *)

\* in_flight_timeout_timer expires: its callback is dispatched and waits for
\* message_mutex. It does not know which message it was set for; msgFired does.
TimeoutExpires ==
    /\ up /\ inFlight # None
    /\ msgTimer # None /\ msgTimer <= now
    /\ msgFired = None
    /\ IF Kind(inFlight) \in BootKinds THEN CountFailure ELSE UNCHANGED failures
    /\ msgTimer' = None
    /\ msgFired' = UniqueId(inFlight)
    /\ UNCHANGED <<queue, db, control, wakeTimer, worker, selected, receiver,
                   process, outstanding, now, restarts>>

TimeoutCallback ==
    /\ LockFree /\ msgFired # None
    /\ TimerRace \/ rx[1] # "callerror"
    /\ HandleTimeoutOrCallError("offline", None)
    /\ UNCHANGED <<control, selected, receiver, running, accepted, registered,
                   config, env>>

\* The callback of notify_queue_timer does not take message_mutex: its
\* notification is lost on a worker that has found the predicate false and does
\* not wait yet.
WakeTimerExpires ==
    /\ up
    /\ TimerRace \/ worker # "blocking"
    /\ wakeTimer # None /\ wakeTimer <= now
    /\ wakeTimer' = None
    /\ newMessage' = TRUE
    /\ worker' = Notified
    /\ UNCHANGED <<pushed, msgs, tq, nq, inFlight, db, control, msgTimer, msgFired,
                   selected, receiver, process, env>>

ResumeTimerExpires ==
    /\ up /\ resumeTimer # None
    /\ resumeTimer' = None
    /\ resumeFired' = resumeFired \cup {resumeTimer}
    /\ UNCHANGED <<queue, db, paused, resuming, ctr, lastRequest, timers,
                   worker, selected, receiver, process, env>>

\* Mutant: pause_resume_ctr is not compared.
ResumeNow_AnyCounter(expected) ==
    /\ LockFree
    /\ expected \in resumeFired
    /\ resumeFired' = resumeFired \ {expected}
    /\ paused' = FALSE /\ resuming' = FALSE /\ worker' = Notified
    /\ UNCHANGED <<queue, db, ctr, resumeTimer, lastRequest, timers, selected,
                   receiver, process, env>>

\* resume_now, called by the timer: it does nothing when pause() or resume()
\* has been called since.
ResumeNow(expected) ==
    /\ LockFree
    /\ expected \in resumeFired
    /\ resumeFired' = resumeFired \ {expected}
    /\ IF ctr = expected
       THEN paused' = FALSE /\ resuming' = FALSE /\ worker' = Notified
       ELSE UNCHANGED <<paused, resuming, worker>>
    /\ UNCHANGED <<queue, db, ctr, resumeTimer, lastRequest, timers, selected,
                   receiver, process, env>>

-----------------------------------------------------------------------------
(* pause(), resume(), stop() and the configuration setters.                *)

\* The connection is lost: answers that were on their way are lost with it.
Pause ==
    /\ LockFree /\ ctr < MaxResumes
    /\ ctr' = ctr + 1
    /\ resumeTimer' = None
    /\ paused' = TRUE
    /\ resuming' = FALSE
    /\ worker' = Notified
    /\ lastRequest' = "pause"
    /\ outstanding' = {}
    /\ UNCHANGED <<queue, db, resumeFired, timers, selected, receiver, process,
                   now, restarts, failures>>

\* The connection is back. Only the first resume() is never delayed.
Resume ==
    /\ LockFree /\ paused
    /\ ~resuming \/ ctr < MaxResumes
    /\ ctr' = ctr + 1
    /\ lastRequest' = "resume"
    /\ IF ctr > 0 /\ DelayedResume
       THEN /\ resuming' = TRUE
            /\ resumeTimer' = ctr + 1
            /\ UNCHANGED <<paused, worker>>
       ELSE /\ paused' = FALSE
            /\ resuming' = FALSE
            /\ worker' = Notified
            /\ UNCHANGED resumeTimer
    /\ UNCHANGED <<queue, db, resumeFired, timers, selected, receiver, process,
                   env>>

\* stop() clears running and notifies without message_mutex, then joins.
Stop ==
    /\ up /\ running /\ restarts < MaxRestarts
    /\ running' = FALSE
    /\ worker' = Notified
    /\ UNCHANGED <<queue, db, control, timers, selected, receiver, accepted,
                   registered, config, up, env>>

\* update_transaction_message_attempts, update_transaction_message_retry_interval
\* and update_message_timeout
UpdateConfig(c) ==
    /\ up /\ config # c
    /\ config' = c
    /\ UNCHANGED <<queue, db, control, timers, worker, selected, receiver,
                   running, accepted, registered, up, env>>

-----------------------------------------------------------------------------
(* The process dies or is stopped, at any point, and starts again.         *)

\* A row holds the message as it was pushed; it is sent only once the
\* registration has been accepted.
FromRow(msg) ==
    [msg EXCEPT !.gen = 0, !.attempts = 0, !.timestamp = msg.created,
                !.stall = TRUE, !.promise = "open"]

\* The constructor, get_persisted_messages_from_db and start(): the queues are
\* read back from the tables. Security events are removed if they are not to be
\* sent, and the table of normal messages is cleared without QueueAllMessages.
\* A restart inside the process keeps the charge point's registration status.
Restart ==
    LET ignored == IF IgnoreSecurityEvents
                   THEN {m \in dbT : Kind(m) \in SecurityKinds} ELSE {}
    IN  /\ restarts < MaxRestarts
        /\ restarts' = restarts + 1
        /\ dbT' = dbT \ ignored
        /\ dbN' = IF QueueAll THEN dbN ELSE {}
        /\ tq' \in InPushOrder(dbT \ ignored)
        /\ nq' \in InPushOrder(dbN)
        /\ newMessage' = (dbT # {} \/ dbN # {})
        /\ msgs' = [m \in (dbT \ ignored) \cup dbN |-> FromRow(msgs[m])]
        /\ inFlight' = None
        /\ paused' = TRUE /\ resuming' = FALSE /\ ctr' = 0
        /\ resumeTimer' = None /\ resumeFired' = {} /\ lastRequest' = "pause"
        /\ msgTimer' = None /\ msgFired' = None /\ wakeTimer' = None
        /\ worker' = "loop" /\ selected' = None
        /\ rx' = Idle /\ nextToSend' = None
        /\ running' = TRUE /\ accepted' = FALSE /\ up' = TRUE
        /\ registered' \in {FALSE, worker = "done" /\ registered}
        /\ outstanding' = {}
        /\ UNCHANGED <<pushed, config, now, failures>>

-----------------------------------------------------------------------------
Tick ==
    /\ now < MaxTime
    /\ now' = now + 1
    /\ UNCHANGED <<queue, db, control, timers, worker, selected, receiver,
                   process, outstanding, restarts, failures>>

Init ==
    /\ pushed = 0 /\ msgs = <<>> /\ tq = <<>> /\ nq = <<>> /\ inFlight = None
    /\ newMessage = FALSE
    /\ dbT = {} /\ dbN = {}
    /\ paused = TRUE /\ resuming = FALSE /\ ctr = 0
    /\ resumeTimer = None /\ resumeFired = {} /\ lastRequest = "pause"
    /\ msgTimer = None /\ msgFired = None /\ wakeTimer = None
    /\ worker = "loop" /\ selected = None
    /\ rx = Idle /\ nextToSend = None
    /\ running = TRUE /\ accepted = FALSE /\ registered = FALSE /\ up = TRUE
    /\ config \in Configs
    /\ outstanding = {}
    /\ now = 0 /\ restarts = 0 /\ failures = 0

WorkerNext ==
    \/ WorkerSleeps \/ WorkerSelect \/ WorkerSend \/ WorkerSendFails

ReceiveNext ==
    \/ \E c \in CsmsCalls : ReceiveCall(c)
    \/ AnswerCall
    \/ \E id \in outstanding, type \in {"result", "error"} : ReceiveAnswer(id, type)
    \/ IgnoreAnswer \/ HandleCallResult \/ ResolveTwice \/ HandleBootResponse
    \/ NotifyStartTransactionHandled \/ CheckCallError \/ HandleCallError

TimerNext ==
    \/ TimeoutExpires \/ TimeoutCallback \/ WakeTimerExpires
    \/ ResumeTimerExpires \/ \E e \in resumeFired : ResumeNow(e)

ControlNext ==
    \/ \E kind \in AppKinds : DispatchCall(kind, FALSE)
    \/ \E kind \in TriggeredKinds : DispatchCall(kind, TRUE)
    \/ Pause \/ Resume \/ Stop
    \/ \E c \in Configs : UpdateConfig(c)
    \/ Restart

Next == WorkerNext \/ ReceiveNext \/ TimerNext \/ ControlNext \/ Tick

Spec == Init /\ [][Next]_vars

\* The threads of the process run: the worker whenever it is not waiting on the
\* condition variable, the receive thread once it has a message, a timer once it
\* is due; a thread that waits for message_mutex gets it in the end, whatever
\* the worker does (strong fairness). The clock advances, and the websocket
\* reconnects after a disconnect or a failed send. The CSMS may leave any CALL
\* unanswered.
Fairness ==
    /\ WF_vars(worker # "waiting" /\ WorkerNext)
    /\ SF_vars(rx # Idle /\ ReceiveNext)
    /\ WF_vars(TimeoutExpires) /\ SF_vars(TimeoutCallback)
    /\ SF_vars(WakeTimerExpires)
    /\ WF_vars(ResumeTimerExpires) /\ SF_vars(\E e \in resumeFired : ResumeNow(e))
    /\ SF_vars(~resuming /\ Resume)
    /\ WF_vars(Tick)

FairSpec == Spec /\ Fairness
-----------------------------------------------------------------------------
(* Properties.                                                             *)

ControlMessages ==
    [kind : Kinds, gen : Nat, attempts : Nat, created : 0..MaxTime,
     timestamp : 0..MaxTime, stall : BOOLEAN,
     promise : {"open", "answered", "offline"}]

QueueTypeOK ==
    /\ pushed \in 0..MaxMsgs
    /\ Live \subseteq Msgs
    /\ msgs \in [Live -> ControlMessages]
    /\ tq \in Seq(Msgs) /\ \A m \in ToSet(tq) : Transactional(m)
    /\ nq \in Seq(Msgs) /\ \A m \in ToSet(nq) : ~Transactional(m)
    /\ \A m \in dbT : Transactional(m)
    /\ \A m \in dbN : ~Transactional(m)
    /\ inFlight \in Msgs \cup {None}
    /\ selected \in Live \cup {None}

ControlTypeOK ==
    /\ newMessage \in BOOLEAN
    /\ paused \in BOOLEAN /\ resuming \in BOOLEAN
    /\ ctr \in Nat
    /\ resumeTimer \in Nat \cup {None}
    /\ resumeFired \subseteq Nat
    /\ lastRequest \in {"pause", "resume"}
    /\ worker \in {"loop", "check", "blocking", "waiting", "sending", "done"}
    /\ running \in BOOLEAN /\ accepted \in BOOLEAN /\ registered \in BOOLEAN
    /\ config \in Configs
    /\ up \in BOOLEAN

EnvTypeOK ==
    /\ msgTimer \in 0..MaxTime \cup {None}
    /\ msgFired \in Ids \cup {None}
    /\ wakeTimer \in 0..MaxTime \cup {None}
    /\ rx \in {Idle, <<"boot">>, <<"notify">>} \cup ({"call"} \X CsmsCalls)
              \cup ({"result", "error", "callerror"} \X Ids)
    /\ nextToSend \in CsmsCalls \cup {None}
    /\ outstanding \subseteq Ids
    /\ now \in 0..MaxTime
    /\ restarts \in 0..MaxRestarts /\ failures \in 0..MaxFailures

\* Every variable has its type; a message is in the queue and in the table of
\* its kind, and its record lives exactly as long as something refers to it.
TypeOK == QueueTypeOK /\ ControlTypeOK /\ EnvTypeOK

\* Between choosing a message and erasing it from its queue, through the iterator it
\* keeps over send_callback, the worker keeps every other thread from the queues:
\* pushing to either end of a deque would invalidate the iterator.
IteratorsStand ==
    [][worker = "sending" /\ worker' = "sending" => UNCHANGED <<tq, nq>>]_vars

\* The message the worker has chosen is the head of the transaction queue or in
\* the normal queue, and nothing is in flight.
SelectionStands ==
    IF worker = "sending"
    THEN /\ inFlight = None
         /\ selected \in ToSet(tq) \cup ToSet(nq)
         /\ selected \in ToSet(tq) => selected = Head(tq)
    ELSE selected = None

PendingTransactions ==
    ToSet(tq) \cup {m \in {inFlight} \ {None} : Transactional(m)}

PendingNormal ==
    ToSet(nq) \cup {m \in {inFlight} \ {None} : ~Transactional(m)}

\* A transaction message has its row exactly as long as the queue owes its
\* delivery: a crash at any moment loses none, and none is sent again after it
\* has been answered, given up or dropped.
TransactionsPersisted == up => dbT = PendingTransactions

\* Transaction messages are delivered in the order in which they were pushed,
\* over retries, failed sends and restarts ("have to be delivered in
\* chronological order").
TransactionsInOrder ==
    up => /\ \A i, j \in DOMAIN tq : i < j => tq[i] < tq[j]
          /\ inFlight \in PendingTransactions =>
                \A i \in DOMAIN tq : inFlight < tq[i]

\* With QueueAllMessages the same holds of the normal messages that are kept.
NormalPersisted == up => dbN = {m \in PendingNormal : CheckQueue(Kind(m))}

\* A normal message is in the queue once, and not while it is in flight.
NormalOnce ==
    up => /\ IsInjective(nq)
          /\ inFlight \notin ToSet(nq)

\* A message that is queued or in flight has not been resolved: the message that is
\* dropped after a failed send is the one whose promise was resolved.
PendingUnresolved == up => \A m \in Pending : msgs[m].promise = "open"

\* Normal messages take other paths than transaction messages through retries,
\* failed sends, overflow and restarts: none of them is lost from the table, sent
\* twice or resolved while it still waits.
NormalDelivery == NormalPersisted /\ NormalOnce /\ PendingUnresolved

\* The message on offer to the CSMS, and what is stored, are the state of the
\* abstract delivery of transaction messages.
Delivery ==
    INSTANCE TransactionDelivery WITH
        Kinds <- TransactionKinds,
        Updates <- UpdateKinds,
        Ignored <- IF IgnoreSecurityEvents THEN SecurityKinds ELSE {},
        accepted <- pushed,
        owed <- [m \in dbT |-> Kind(m)],
        offered <- IF up /\ inFlight # None /\ inFlight \in dbT THEN inFlight ELSE None

\* The queue implements the delivery that TransactionDelivery promises, through
\* every interleaving of its threads, failed sends, lost answers and crashes:
\* only the oldest message is sent, none is forgotten unsent but updates at a full
\* queue and security events at a restart, and each is removed when it is done.
DeliversTransactions == Delivery!Spec

\* Only the latest of pause() and resume() counts: a resume timer that expired
\* before it was cancelled never resumes a queue that was paused after it.
LatestRequestCounts == up /\ ~paused => lastRequest = "resume"

\* The worker does not sleep on a message it could send now or later without
\* anything that is going to wake it: what was queued while offline is sent
\* afterwards.
NoLostWakeup ==
    up /\ worker = "waiting" /\ running /\ ~paused /\ inFlight = None /\ rx = Idle =>
        \/ wakeTimer # None
        \/ ~\E m \in ToSet(nq) \cup (IF tq = <<>> THEN {} ELSE {Head(tq)}) :
               msgs[m].stall => accepted

\* A dispatched timeout callback finds the message it was set for in flight.
TimeoutHitsItsMessage ==
    up /\ msgFired # None => inFlight # None /\ UniqueId(inFlight) = msgFired

\* While the worker sends a CALL, no CALL of the CSMS waits for its answer: the
\* next message sent after a CALL was received is the response to it.
ResponseFirst == up /\ worker = "sending" => nextToSend = None

\* A message that waits for the registration is sent only while the
\* registration status is Accepted.
StalledUntilAccepted ==
    up /\ worker = "sending" /\ msgs[selected].stall => registered

\* Every message that is queued is answered, given up or dropped in the end,
\* though answers are lost, sends fail and connections break.
EventuallyResolved ==
    \A m \in 1..MaxMsgs : m \in Pending ~> m \notin Pending

\* stop() ends the worker thread, so that it can join it.
StopEndsWorker == ~running ~> worker = "done" \/ running \/ ~up
=============================================================================
