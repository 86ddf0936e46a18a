-------------------------- MODULE ConnectorStatus2 --------------------------
(***************************************************************************)
(* What the CSMS knows of the connectors of an OCPP 2.x station: the flags *)
(* that connector events set in ComponentStateManager, the status they add *)
(* up to, the status last reported, and the three occasions on which more  *)
(* than one connector is reported: a reconnection, an accepted boot and a  *)
(* TriggerMessage.  Every EVSE has one connector.                          *)
(*                                                                         *)
(* Connector events take the mutex of the connector; a report does not, so *)
(* it may read a status and send it after an event has changed it.         *)
(***************************************************************************)
EXTENDS Integers, FiniteSets

CONSTANTS
    Evses,              \* ids of the EVSEs
    OfflineThreshold,   \* TRUE when the variable OfflineThreshold is not 0
    MaxEvents,          \* bound on what comes from outside: connector events, lost connections, ...
    None

ASSUME StatusAssumption ==
    /\ Evses \subseteq Nat \ {0}
    /\ OfflineThreshold \in BOOLEAN
    /\ MaxEvents \in Nat

VARIABLES
    flags,          \* the conditions that hold at the connector of each EVSE
    reported,       \* last_connector_reported_statuses
    csms,           \* the last StatusNotification for the connector, or None
    accepted,       \* registration_status = Accepted
    connected,      \* is_websocket_connected()
    phase,          \* websocket thread: "off", "opened", "greeting" (in the connected callback), "on"
    disconnectedAt, \* time_disconnected is set
    report,         \* what the two threads that report have still to send
    stale,          \* connectors whose status changed between read and send, or whose boot report was lost
    events          \* how much of MaxEvents is used

statusVars == <<flags, reported, csms, accepted, connected, phase, disconnectedAt, report, stale, events>>

Conditions == {"occupied", "reserved", "unavailable", "faulted"}
Statuses == {"Available", "Occupied", "Reserved", "Unavailable", "Faulted"}
Reporters == {"websocket", "message"}

Spend == events < MaxEvents /\ events' = events + 1

Nothing == [todo |-> {}, changed |-> FALSE, read |-> None]

-----------------------------------------------------------------------------
(* ComponentStateManager *)

\* FullConnectorStatus::to_connector_status
Status(f) ==
    CASE "faulted" \in f -> "Faulted"
      [] "unavailable" \in f /\ "faulted" \notin f -> "Unavailable"
      [] "occupied" \in f /\ f \cap {"faulted", "unavailable"} = {} -> "Occupied"
      [] f = {"reserved"} -> "Reserved"
      [] f = {} -> "Available"

\* The callback that sends the StatusNotification returns false unless:
CanNotify == connected /\ accepted

\* The status is remembered as reported even when it could not be sent.
NotifyChange_Forgetful(e, f) ==
    /\ reported' = [reported EXCEPT ![e] = Status(f)]
    /\ csms' = IF CanNotify /\ reported[e] # Status(f) THEN [csms EXCEPT ![e] = Status(f)] ELSE csms
    /\ stale' = IF CanNotify /\ reported[e] # Status(f) THEN stale \ {e} ELSE stale

\* send_status_notification_single_connector_internal(e, only_if_changed = true), in a connector event
NotifyChange(e, f) ==
    IF CanNotify /\ reported[e] # Status(f)
    THEN /\ reported' = [reported EXCEPT ![e] = Status(f)]
         /\ csms' = [csms EXCEPT ![e] = Status(f)]
         /\ stale' = stale \ {e}
    ELSE UNCHANGED <<reported, csms, stale>>

\* set_connector_occupied sends nothing while the connector is reserved; the others always do.
ConnectorEvent(e, condition, holds) ==
    \E f \in {IF holds THEN flags[e] \cup {condition} ELSE flags[e] \ {condition}} :
        /\ flags' = [flags EXCEPT ![e] = f]
        /\ IF condition = "occupied" /\ "reserved" \in f
           THEN UNCHANGED <<reported, csms, stale>>
           ELSE NotifyChange(e, f)

\* on_session_started, on_faulted, on_unavailable, on_reserved and their opposites.
SubmitEvent(e, condition) ==
    /\ Spend
    /\ ConnectorEvent(e, condition, condition \notin flags[e])
    /\ UNCHANGED <<accepted, connected, phase, disconnectedAt, report>>

-----------------------------------------------------------------------------
(* send_status_notification_all_connectors, _changed_connectors and _single_connector *)

FirstOf(es) == CHOOSE e \in es : \A d \in es : e <= d

\* The loop skips a connector whose status is the one last reported, if only changes are asked for.
ReadStatus(r) ==
    /\ report[r].todo # {}
    /\ report[r].read = None
    /\ \E e \in {FirstOf(report[r].todo)} :
           report' = IF report[r].changed /\ reported[e] = Status(flags[e])
                     THEN [report EXCEPT ![r].todo = @ \ {e}]
                     ELSE [report EXCEPT ![r].read = Status(flags[e])]
    /\ UNCHANGED <<flags, reported, csms, accepted, connected, phase, disconnectedAt, stale, events>>

SendStatus(r) ==
    /\ report[r].read # None
    /\ \E e \in {FirstOf(report[r].todo)} :
           /\ report' = [report EXCEPT ![r].todo = @ \ {e}, ![r].read = None]
           /\ reported' = IF CanNotify THEN [reported EXCEPT ![e] = report[r].read] ELSE reported
           /\ csms' = IF CanNotify THEN [csms EXCEPT ![e] = report[r].read] ELSE csms
           /\ stale' = IF CanNotify /\ report[r].read = Status(flags[e]) THEN stale \ {e}
                       ELSE IF CanNotify \/ csms[e] # reported[e] THEN stale \cup {e}
                       ELSE stale
    /\ UNCHANGED <<flags, accepted, connected, phase, disconnectedAt, events>>

\* The queue was resumed since the start, so a message of the CSMS may wait to be handled, even if
\* the connection it came on is lost.
HasTalked == phase \in {"greeting", "on"} \/ disconnectedAt

\* The CSMS accepts the boot: every connector is reported.
BootAccepted ==
    /\ ~accepted
    /\ HasTalked
    /\ report["message"] = Nothing
    /\ accepted' = TRUE
    /\ report' = [report EXCEPT !["message"] = [todo |-> Evses, changed |-> FALSE, read |-> None]]
    /\ UNCHANGED <<flags, reported, csms, connected, phase, disconnectedAt, stale, events>>

\* TriggerMessage(StatusNotification)
TriggerStatus(e) ==
    /\ Spend
    /\ HasTalked
    /\ report["message"] = Nothing
    /\ report' = [report EXCEPT !["message"] = [todo |-> {e}, changed |-> FALSE, read |-> None]]
    /\ UNCHANGED <<flags, reported, csms, accepted, connected, phase, disconnectedAt, stale>>

-----------------------------------------------------------------------------
(* The connection *)

SocketOpens ==
    /\ phase = "off"
    /\ connected' = TRUE
    /\ phase' = "opened"
    /\ UNCHANGED <<flags, reported, csms, accepted, disconnectedAt, report, stale, events>>

SocketCloses ==
    /\ connected
    /\ Spend
    /\ connected' = FALSE
    /\ UNCHANGED <<flags, reported, csms, accepted, phase, disconnectedAt, report, stale>>

\* websocket_connected_callback: all connectors after a long disconnection, else those that changed.
Connected(long) ==
    /\ phase = "opened"
    /\ report' = IF accepted /\ disconnectedAt
                 THEN [report EXCEPT !["websocket"] = [todo |-> Evses, changed |-> ~long, read |-> None]]
                 ELSE report
    /\ phase' = "greeting"
    /\ UNCHANGED <<flags, reported, csms, accepted, connected, disconnectedAt, stale, events>>

ConnectedDone ==
    /\ phase = "greeting"
    /\ report["websocket"].todo = {}
    /\ report' = [report EXCEPT !["websocket"] = Nothing]
    /\ phase' = "on"
    /\ disconnectedAt' = FALSE
    /\ UNCHANGED <<flags, reported, csms, accepted, connected, stale, events>>

\* websocket_disconnected_callback
Disconnected ==
    /\ phase = "on"
    /\ ~connected
    /\ phase' = "off"
    /\ disconnectedAt' = (disconnectedAt \/ OfflineThreshold)
    /\ UNCHANGED <<flags, reported, csms, accepted, connected, report, stale, events>>

-----------------------------------------------------------------------------
\* The process starts: no flag is stored, and the cache of reported statuses is made from the flags.
StatusBooted ==
    /\ flags' = [e \in Evses |-> {}]
    /\ reported' = [e \in Evses |-> "Available"]
    /\ accepted' = FALSE
    /\ connected' = FALSE
    /\ phase' = "off"
    /\ disconnectedAt' = FALSE
    /\ report' = [r \in Reporters |-> Nothing]
    /\ stale' = {}

StatusInit ==
    /\ flags = [e \in Evses |-> {}]
    /\ reported = [e \in Evses |-> "Available"]
    /\ csms = [e \in Evses |-> None]
    /\ accepted = FALSE
    /\ connected = FALSE
    /\ phase = "off"
    /\ disconnectedAt = FALSE
    /\ report = [r \in Reporters |-> Nothing]
    /\ stale = {}
    /\ events = 0

\* The threads of the library: what they have begun they finish.
StatusSteps ==
    \/ \E r \in Reporters : ReadStatus(r) \/ SendStatus(r)
    \/ ConnectedDone

StatusNext ==
    \/ \E e \in Evses, c \in Conditions : SubmitEvent(e, c)
    \/ StatusSteps
    \/ BootAccepted
    \/ \E e \in Evses : TriggerStatus(e)
    \/ SocketOpens
    \/ SocketCloses
    \/ \E long \in BOOLEAN : Connected(long)
    \/ Disconnected

-----------------------------------------------------------------------------
StatusTypeOK ==
    /\ flags \in [Evses -> SUBSET Conditions]
    /\ reported \in [Evses -> Statuses]
    /\ csms \in [Evses -> Statuses \cup {None}]
    /\ accepted \in BOOLEAN /\ connected \in BOOLEAN /\ disconnectedAt \in BOOLEAN
    /\ phase \in {"off", "opened", "greeting", "on"}
    /\ report \in [Reporters -> [todo : SUBSET Evses, changed : BOOLEAN, read : Statuses \cup {None}]]
    /\ \A r \in Reporters : report[r].read # None => report[r].todo # {}
    /\ stale \subseteq Evses
    /\ events \in 0..MaxEvents

\* Once the station is connected and registered and no report is under way, the CSMS has the status of
\* every connector, through disconnections, restarts, faults and reservations, except that a plug-in
\* at a reserved connector is kept from it, and except for a report that was overtaken by an event
\* (send_status_notification_all_connectors holds no lock) or that found the connection gone.
CsmsView ==
    phase = "on" /\ CanNotify /\ (\A r \in Reporters : report[r].todo = {}) =>
        \A e \in Evses : e \notin stale /\ "reserved" \notin flags[e] => csms[e] = Status(flags[e])

==============================================================================
