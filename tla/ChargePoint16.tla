--------------------------- MODULE ChargePoint16 ---------------------------
(***************************************************************************)
(* The connectors of an OCPP 1.6 charge point: ChargePointFSM and          *)
(* ChargePointStates with their errors, the StatusNotifications that       *)
(* follow, the registration with the CSMS on which they depend, the        *)
(* availability changes of ChargePointImpl, scheduled or immediate, and    *)
(* the firmware update that takes the connectors out of service.           *)
(*                                                                         *)
(* Threads: the application (sessions, errors, firmware), the websocket's  *)
(* message thread (requests, answers), the timers.  A ChangeAvailability   *)
(* is handled in three steps between which the application may act.        *)
(*                                                                         *)
(* Connector 0 stands for the charge point.  A session ends with the       *)
(* process: resuming it is the subject of Transactions16.                  *)
(***************************************************************************)
EXTENDS Naturals, FiniteSets, Functions

CONSTANTS
    N,              \* number of connectors
    Errors, Faults, \* ids of errors, and those of them that are faults
    MaxEvents,      \* bound: sessions, requests, errors, lost connections, boots that
                    \* are refused or triggered, firmware updates and crashes together
    None

ASSUME ChargePointAssumption ==
    /\ N \in Nat \ {0} /\ Faults \subseteq Errors
    /\ MaxEvents \in Nat

Connectors == 1..N
All == 0..N
Types == {"Operative", "Inoperative"}

VARIABLES
    fsm,        \* state of each ChargePointFSM
    errors,     \* active_errors
    session,    \* "none", "session", "transaction" or "over" at each connector
    stopConfs,  \* StopTransaction.conf that are still to come, by connector
    queue,      \* change_availability_queue
    db,         \* availability of the connectors in the database
    rx,         \* the ChangeAvailability that is being handled
    wish,       \* enable_evse or disable_evse called and not yet obeyed
    pending,    \* firmware_update_is_pending
    ready,      \* all_connectors_unavailable_callback was called for the update
    timer,      \* status_notification_timers: the status to report
    reported,   \* the status that the CSMS knows
    online,
    state,      \* connection_state
    boot,       \* the BootNotification: "queued", "timer" or "none"
    used,       \* how many of the MaxEvents have happened
    requested   \* history: the availability last asked for

status == <<fsm, timer>>
availability == <<queue, db, wish>>
firmware == <<pending, ready>>
link == <<online, state, boot, reported>>
vars == <<status, errors, session, stopConfs, availability, rx, firmware, link, used,
          requested>>

Spend == used < MaxEvents /\ used' = used + 1

-----------------------------------------------------------------------------
(* ChargePointFSM                                                          *)

States == {"Available", "Preparing", "Charging", "SuspendedEV", "SuspendedEVSE",
           "Finishing", "Reserved", "Unavailable"}

ASSUME NoneAssumption == None \notin States \cup {"Faulted"}

\* FSM_DEF, event by event: the states an event is defined in, and where it leads.
\* The rows of Faulted are left out: Faulted is never the state, only shown.
Sources(event) ==
    CASE event = "UsageInitiated" -> {"Available", "Finishing", "Reserved", "Unavailable"}
      [] event = "StartCharging" ->
            {"Available", "Preparing", "SuspendedEV", "SuspendedEVSE", "Unavailable"}
      [] event = "PauseChargingEV" ->
            {"Available", "Preparing", "Charging", "SuspendedEVSE", "Unavailable"}
      [] event = "PauseChargingEVSE" ->
            {"Available", "Preparing", "Charging", "SuspendedEV", "Unavailable"}
      [] event = "ReserveConnector" -> {"Available"}
      [] event = "ReservationEnd" -> {"Reserved"}
      [] event = "TransactionStoppedAndUserActionRequired" ->
            {"Preparing", "Charging", "SuspendedEV", "SuspendedEVSE"}
      [] event = "ChangeAvailabilityToUnavailable" ->
            States \ {"Preparing", "Unavailable"}
      [] event = "BecomeAvailable" -> States \ {"Available"}
      [] OTHER -> {}

Destination ==
    [UsageInitiated |-> "Preparing", StartCharging |-> "Charging",
     PauseChargingEV |-> "SuspendedEV", PauseChargingEVSE |-> "SuspendedEVSE",
     ReserveConnector |-> "Reserved", ReservationEnd |-> "Available",
     TransactionStoppedAndUserActionRequired |-> "Finishing",
     ChangeAvailabilityToUnavailable |-> "Unavailable", BecomeAvailable |-> "Available"]

IsFaulted(errs) == errs \cap Faults # {}

\* get_state
Status(c) == IF IsFaulted(errors[c]) THEN "Faulted" ELSE fsm[c]

\* handle_event, for one event per connector at most. An event that changes the state
\* behind a fault is not reported.
Submit(event) ==
    LET moved == {c \in All : fsm[c] \in Sources(event[c])}
    IN  /\ fsm' = [c \in All |-> IF c \in moved THEN Destination[event[c]] ELSE fsm[c]]
        /\ timer' = [c \in All |-> IF c \in moved /\ ~IsFaulted(errors[c])
                                   THEN Destination[event[c]] ELSE timer[c]]

Only(c, event) == [x \in All |-> IF x = c THEN event ELSE "none"]
SubmitEvent(c, event) == Submit(Only(c, event))

\* on_error
OnError(c, e) ==
    /\ e \notin errors[c]
    /\ Spend
    /\ errors' = [errors EXCEPT ![c] = @ \cup {e}]
    /\ timer' = [timer EXCEPT ![c] = IF IsFaulted(errors'[c]) THEN "Faulted" ELSE fsm[c]]
    /\ UNCHANGED <<fsm, session, stopConfs, availability, rx, firmware, link, requested>>

\* What handle_error_cleared reports.
Cleared(c, errs) == IF IsFaulted(errs) THEN timer ELSE [timer EXCEPT ![c] = fsm[c]]

\* on_error_cleared
OnErrorCleared(c, e) ==
    /\ e \in errors[c]
    /\ errors' = [errors EXCEPT ![c] = @ \ {e}]
    /\ timer' = Cleared(c, errors'[c])
    /\ UNCHANGED <<fsm, session, stopConfs, availability, rx, firmware, link, used, requested>>

\* on_all_errors_cleared
OnAllErrorsCleared(c) ==
    /\ errors[c] # {}
    /\ errors' = [errors EXCEPT ![c] = {}]
    /\ timer' = [timer EXCEPT ![c] = fsm[c]]
    /\ UNCHANGED <<fsm, session, stopConfs, availability, rx, firmware, link, used, requested>>

-----------------------------------------------------------------------------
(* Registration and StatusNotification                                     *)

\* trigger_status_notifications
AllStatuses == [c \in All |-> Status(c)]

\* The timer of a status expires: status_notification, which the dispatcher drops while
\* the station is offline or not registered.
StatusTimer(c) ==
    /\ timer[c] # None
    /\ timer' = [timer EXCEPT ![c] = None]
    /\ reported' = IF online /\ state = "Booted" THEN [reported EXCEPT ![c] = timer[c]]
                                                 ELSE reported
    /\ UNCHANGED <<fsm, errors, session, stopConfs, availability, rx, firmware, online,
                   state, boot, used, requested>>

\* Mutant: a reconnect does not report the connectors.
ConnectedStatuses_None == timer

\* connected_callback in state Booted.
ConnectedStatuses == AllStatuses

\* connected_callback
Connected ==
    /\ ~online /\ online' = TRUE
    /\ state' = IF state = "Disconnected" THEN "Connected" ELSE state
    /\ timer' = IF state = "Booted" THEN ConnectedStatuses ELSE timer
    /\ UNCHANGED <<fsm, errors, session, stopConfs, availability, rx, firmware, boot,
                   reported, used, requested>>

Disconnected ==
    /\ online /\ online' = FALSE
    /\ Spend
    /\ UNCHANGED <<status, errors, session, stopConfs, availability, rx, firmware, state,
                   boot, reported, requested>>

\* handleBootNotificationResponse
BootAccepted ==
    /\ online /\ boot = "queued"
    /\ state' = "Booted" /\ boot' = "none"
    /\ timer' = AllStatuses
    /\ UNCHANGED <<fsm, errors, session, stopConfs, availability, rx, firmware, online,
                   reported, used, requested>>

BootNotAccepted(answer) ==
    /\ online /\ boot = "queued"
    /\ Spend
    /\ state' = answer /\ boot' = "timer"
    /\ UNCHANGED <<status, errors, session, stopConfs, availability, rx, firmware, online,
                   reported, requested>>

\* boot_notification_timer
BootTimer ==
    /\ boot = "timer" /\ boot' = "queued"
    /\ UNCHANGED <<status, errors, session, stopConfs, availability, rx, firmware, online,
                   state, reported, used, requested>>

\* TriggerMessage(BootNotification)
TriggerBoot ==
    /\ online /\ boot = "none" /\ state = "Booted"
    /\ Spend
    /\ boot' = "queued"
    /\ UNCHANGED <<status, errors, session, stopConfs, availability, rx, firmware, online,
                   state, reported, requested>>

-----------------------------------------------------------------------------
(* Availability                                                            *)

TransactionActive(c) == session[c] = "transaction"

\* should_be_scheduled_func
ToBeScheduled(c) == TransactionActive(c) \/ Status(c) = "Preparing"

\* handleChangeAvailabilityRequest and on_change_availability: which connectors can change
\* at once.
CheckChange(c, type) ==
    LET asked == IF c = 0 THEN Connectors ELSE {c}
        scheduled == {x \in asked : ToBeScheduled(x)}
    IN  /\ rx = <<"idle">>
        /\ Spend
        /\ rx' = <<"queue", type, scheduled, ({c} \cup asked) \ scheduled>>
        /\ UNCHANGED <<status, errors, session, stopConfs, availability, firmware, link,
                       requested>>

\* The others are queued, and every entry of the queue is written to the database.
QueueChange ==
    LET type == rx[2]
    IN  /\ rx[1] = "queue"
        /\ queue' = [c \in Connectors |->
                        IF c \in rx[3] THEN [type |-> type, persist |-> TRUE] ELSE queue[c]]
        /\ db' = [c \in All |-> IF c \in Connectors /\ queue'[c] # None
                                THEN queue'[c].type ELSE db[c]]
        /\ rx' = <<"execute", type, rx[4]>>
        /\ requested' = [c \in All |-> IF c \in rx[3] THEN type ELSE requested[c]]
        /\ UNCHANGED <<status, errors, session, stopConfs, wish, firmware, link, used>>

ZeroEvent(type) ==
    IF type = "Operative" THEN "BecomeAvailable" ELSE "ChangeAvailabilityToUnavailable"

\* execute_connectors_availability_change: the callback of a connector, the event of
\* connector 0.
ExecuteChange ==
    LET type == rx[2]
        cs == rx[3]
    IN  /\ rx[1] = "execute"
        /\ db' = [c \in All |-> IF c \in cs THEN type ELSE db[c]]
        /\ wish' = [c \in Connectors |-> IF c \in cs THEN type ELSE wish[c]]
        /\ SubmitEvent(0, IF 0 \in cs THEN ZeroEvent(type) ELSE "none")
        /\ rx' = <<"idle">>
        /\ requested' = [c \in All |-> IF c \in cs THEN type ELSE requested[c]]
        /\ UNCHANGED <<errors, session, stopConfs, queue, firmware, link, used>>

\* The application obeys and reports it: on_enabled, on_disabled.
Obey(c) ==
    /\ wish[c] # None
    /\ wish' = [wish EXCEPT ![c] = None]
    /\ SubmitEvent(c, ZeroEvent(wish[c]))
    /\ UNCHANGED <<errors, session, stopConfs, queue, db, rx, firmware, link, used, requested>>

\* Mutant: a queued change is executed, and stays queued.
Dequeued_Kept(c) == queue

\* execute_queued_availability_change: the queue, the database and the callback afterwards.
Dequeued(c) == [queue EXCEPT ![c] = None]
DbAfter(c) ==
    IF queue[c] # None /\ queue[c].persist THEN [db EXCEPT ![c] = queue[c].type] ELSE db
WishAfter(c) == IF queue[c] # None THEN [wish EXCEPT ![c] = queue[c].type] ELSE wish

-----------------------------------------------------------------------------
(* Sessions                                                                *)

\* on_session_started, after an authorization or a plug-in.
SessionStarted(c, authorized) ==
    /\ session[c] = "none"
    /\ Spend
    /\ session' = [session EXCEPT ![c] = "session"]
    /\ SubmitEvent(c, IF Status(c) # "Reserved" \/ authorized THEN "UsageInitiated" ELSE "none")
    /\ UNCHANGED <<errors, stopConfs, availability, rx, firmware, link, requested>>

\* on_transaction_started
TransactionStarted(c) ==
    /\ session[c] = "session"
    /\ session' = [session EXCEPT ![c] = "transaction"]
    /\ SubmitEvent(c, IF Status(c) = "Reserved" THEN "UsageInitiated" ELSE "none")
    /\ UNCHANGED <<errors, stopConfs, availability, rx, firmware, link, used, requested>>

\* on_resume_charging, on_suspend_charging_ev, on_suspend_charging_evse
Charging(c, event) ==
    /\ TransactionActive(c)
    /\ fsm[c] \in Sources(event)
    /\ SubmitEvent(c, event)
    /\ UNCHANGED <<errors, session, stopConfs, availability, rx, firmware, link, used, requested>>

\* on_transaction_stopped
TransactionStopped(c, unplugged) ==
    /\ TransactionActive(c)
    /\ session' = [session EXCEPT ![c] = "over"]
    /\ stopConfs' = [stopConfs EXCEPT ![c] = @ + 1]
    /\ SubmitEvent(c, IF unplugged THEN "none" ELSE "TransactionStoppedAndUserActionRequired")
    /\ UNCHANGED <<errors, availability, rx, firmware, link, used, requested>>

\* on_session_stopped
SessionStopped(c) ==
    /\ session[c] \in {"session", "over"}
    /\ session' = [session EXCEPT ![c] = "none"]
    /\ queue' = Dequeued(c) /\ db' = DbAfter(c) /\ wish' = WishAfter(c)
    /\ SubmitEvent(c, IF Status(c) \in {"Reserved", "Unavailable"} THEN "none"
                                                                  ELSE "BecomeAvailable")
    /\ UNCHANGED <<errors, stopConfs, rx, firmware, link, used, requested>>

\* on_plugin_timeout, on_reservation_start, on_reservation_end
Reservation(c, event) ==
    /\ \/ event = "TransactionStoppedAndUserActionRequired" /\ session[c] = "session"
       \/ event \in {"ReserveConnector", "ReservationEnd"} /\ session[c] = "none"
    /\ fsm[c] \in Sources(event)
    /\ SubmitEvent(c, event)
    /\ UNCHANGED <<errors, session, stopConfs, availability, rx, firmware, link, used, requested>>

-----------------------------------------------------------------------------
(* Firmware                                                                *)

Busy == {c \in Connectors : TransactionActive(c)}

\* change_all_connectors_to_unavailable_for_firmware_update, on a queue and on wishes.
TakenOut(q) ==
    [c \in Connectors |-> IF c \in Busy THEN [type |-> "Inoperative", persist |-> FALSE]
                                        ELSE q[c]]
Disabled(w) == [c \in Connectors |-> IF c \in Busy THEN w[c] ELSE "Inoperative"]

\* Mutant: only the last StopTransaction.conf of a station that is idle anyway counts.
StopConfReady_Session == ready \/ \A c \in Connectors : session[c] = "none"

StopConfReady == ready \/ Busy = {}

StopOwed(c) == stopConfs[c] > 0

\* handleStopTransactionResponse
StopConf(c) ==
    /\ StopOwed(c) /\ online /\ state = "Booted" /\ rx = <<"idle">>
    /\ stopConfs' = [stopConfs EXCEPT ![c] = @ - 1]
    /\ db' = DbAfter(c)
    /\ queue' = IF pending THEN TakenOut(Dequeued(c)) ELSE Dequeued(c)
    /\ wish' = IF pending THEN Disabled(WishAfter(c)) ELSE WishAfter(c)
    /\ ready' = IF pending THEN StopConfReady ELSE ready
    /\ UNCHANGED <<status, errors, session, rx, pending, link, used, requested>>

\* on_firmware_update_status_notification: Downloaded, or SignatureVerified.
FirmwareDownloaded ==
    /\ ~pending
    /\ Spend
    /\ pending' = TRUE /\ ready' = (Busy = {})
    /\ queue' = TakenOut(queue) /\ wish' = Disabled(wish)
    /\ UNCHANGED <<status, errors, session, stopConfs, db, rx, link, requested>>

\* The connectors that are restored after the update, and what becomes of their wishes.
Restored(w) == [c \in Connectors |-> IF db[c] = "Operative" THEN "Operative" ELSE w[c]]

\* InstallationFailed revokes the update; Installed leaves it pending, and takes the
\* connectors out once more before it restores them.
FirmwareEnds(failed) ==
    /\ pending /\ ready
    /\ Spend
    /\ pending' = ~failed /\ ready' = ~failed
    /\ queue' = IF failed THEN queue ELSE TakenOut(queue)
    /\ wish' = Restored(IF failed THEN wish ELSE Disabled(wish))
    /\ SubmitEvent(0, IF db[0] = "Operative" THEN "BecomeAvailable" ELSE "none")
    /\ UNCHANGED <<errors, session, stopConfs, db, rx, link, requested>>

-----------------------------------------------------------------------------
\* The process dies and starts again: init_state_machine, boot_notification.
Restart ==
    /\ Spend
    /\ fsm' = [c \in All |-> IF db[c] = "Operative" THEN "Available" ELSE "Unavailable"]
    /\ wish' = [c \in Connectors |-> db[c]]
    /\ timer' = [c \in All |-> None]
    /\ errors' = [c \in All |-> {}]
    /\ session' = [c \in Connectors |-> "none"]
    /\ stopConfs' = [c \in Connectors |-> stopConfs[c] + IF c \in Busy THEN 1 ELSE 0]
    /\ queue' = [c \in Connectors |-> None]
    /\ rx' = <<"idle">> /\ pending' = FALSE /\ ready' = FALSE
    /\ online' = FALSE /\ state' = "Disconnected" /\ boot' = "queued"
    /\ UNCHANGED <<db, reported, requested>>

Init ==
    /\ fsm = [c \in All |-> "Available"] /\ timer = [c \in All |-> None]
    /\ errors = [c \in All |-> {}]
    /\ session = [c \in Connectors |-> "none"] /\ stopConfs = [c \in Connectors |-> 0]
    /\ queue = [c \in Connectors |-> None] /\ wish = [c \in Connectors |-> None]
    /\ db = [c \in All |-> "Operative"] /\ requested = db
    /\ rx = <<"idle">> /\ pending = FALSE /\ ready = FALSE
    /\ reported = [c \in All |-> "Available"]
    /\ online = FALSE /\ state = "Disconnected" /\ boot = "queued"
    /\ used = 0

ErrorNext ==
    \E c \in All : \/ \E e \in Errors : OnError(c, e) \/ OnErrorCleared(c, e)
                   \/ OnAllErrorsCleared(c)

LinkNext ==
    \/ \E c \in All : StatusTimer(c)
    \/ Connected \/ Disconnected \/ BootAccepted \/ BootTimer \/ TriggerBoot
    \/ \E answer \in {"Pending", "Rejected"} : BootNotAccepted(answer)

AvailabilityNext ==
    \/ \E c \in All, type \in Types : CheckChange(c, type)
    \/ QueueChange \/ ExecuteChange
    \/ \E c \in Connectors : Obey(c)

SessionNext ==
    \E c \in Connectors :
        \/ \E authorized \in BOOLEAN : SessionStarted(c, authorized)
        \/ TransactionStarted(c)
        \/ \E e \in {"StartCharging", "PauseChargingEV", "PauseChargingEVSE"} : Charging(c, e)
        \/ \E unplugged \in BOOLEAN : TransactionStopped(c, unplugged)
        \/ SessionStopped(c)
        \/ \E e \in {"TransactionStoppedAndUserActionRequired", "ReserveConnector",
                     "ReservationEnd"} : Reservation(c, e)
        \/ StopConf(c)

FirmwareNext == FirmwareDownloaded \/ \E failed \in BOOLEAN : FirmwareEnds(failed)

Next ==
    \/ ErrorNext \/ LinkNext \/ AvailabilityNext \/ SessionNext \/ FirmwareNext \/ Restart

\* Timers fire, the message thread runs, the station reconnects and is accepted in the
\* end, and sessions end: the bounds make faults rare enough.
Fairness ==
    /\ WF_vars(Connected) /\ WF_vars(BootTimer) /\ SF_vars(BootAccepted)
    /\ WF_vars(QueueChange) /\ WF_vars(ExecuteChange)
    /\ \A c \in Connectors :
          /\ WF_vars(TransactionStopped(c, FALSE)) /\ SF_vars(SessionStopped(c))
          /\ SF_vars(StopConf(c))
    /\ \A c \in All : WF_vars(StatusTimer(c))

Spec == Init /\ [][Next]_vars
FairSpec == Spec /\ Fairness

-----------------------------------------------------------------------------
Shown == States \cup {"Faulted"}

\* The types of the variables.
TypeOK ==
    /\ fsm \in [All -> States] /\ timer \in [All -> Shown \cup {None}]
    /\ reported \in [All -> Shown]
    /\ errors \in [All -> SUBSET Errors]
    /\ session \in [Connectors -> {"none", "session", "transaction", "over"}]
    /\ stopConfs \in [Connectors -> 0..MaxEvents]
    /\ queue \in [Connectors -> [type : Types, persist : BOOLEAN] \cup {None}]
    /\ wish \in [Connectors -> Types \cup {None}]
    /\ db \in [All -> Types] /\ requested \in [All -> Types]
    /\ rx \in {<<"idle">>} \cup ({"queue"} \X Types \X (SUBSET Connectors) \X (SUBSET All))
                           \cup ({"execute"} \X Types \X (SUBSET All))
    /\ pending \in BOOLEAN /\ ready \in BOOLEAN /\ online \in BOOLEAN
    /\ state \in {"Disconnected", "Connected", "Pending", "Rejected", "Booted"}
    /\ boot \in {"queued", "timer", "none"}
    /\ used \in 0..MaxEvents

\* The CSMS is told: when a registered station is online and no report is under way, the
\* CSMS knows the state of every connector, whatever events came behind a fault, offline
\* or before the registration was accepted.
CsmsKnowsStatus ==
    online /\ state = "Booted" =>
        \A c \in All : timer[c] = None => reported[c] = Status(c)

\* A change that was scheduled because of a session is executed when that session ends, or
\* before, and is not executed again later.
ScheduledChangeExecuted ==
    \A c \in Connectors : queue[c] # None /\ session[c] # "none" ~> queue[c] = None

\* A firmware update that waits for transactions can be installed in the end: with the
\* last StopTransaction.conf the application is told that all connectors are unavailable.
UpdateProceeds == pending ~> ready \/ ~pending

\* The update of the firmware leaves the availability in the database as it was asked for,
\* so that the connectors can be restored from it afterwards.
FirmwareLeavesDb ==
    rx = <<"idle">> /\ pending => \A c \in All : db[c] = requested[c]
=============================================================================
