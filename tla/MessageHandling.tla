--------------------------- MODULE MessageHandling --------------------------
(***************************************************************************)
(* What a charge point does with the messages of the CSMS, in both         *)
(* versions: MessageQueue::receive, then message_callback, which checks    *)
(* the registration and routes the message to the handler of its type; the *)
(* handler decodes the payload, executes it and answers.                   *)
(*                                                                         *)
(* receive and the rest of message_callback are two steps: the worker of   *)
(* the message queue and the callbacks of the connection run in between.   *)
(* While next_message_to_send holds the id of a CALL of the CSMS, the      *)
(* worker sends nothing but the answer, so a CALL that is neither answered *)
(* nor released silences the charge point.                                 *)
(***************************************************************************)
EXTENDS Types16, Messages2, TypesCommon

CONSTANTS OwnCalls,     \* the types of the CALLs that the charge point sends
          MaxIds        \* ids for them

ASSUME MaxIdsAssumption == MaxIds \in Nat \ {0}

VARIABLES
    version,               \* "1.6", "2.0.1" or "2.1"
    optional,              \* whether the optional blocks / feature profiles are there
    connection_state,      \* 1.6: ChargePointConnectionState
    registration_status,   \* the answer to the last BootNotification
    next_message_to_send,  \* the id of a CALL of the CSMS that must be answered first
    in_flight,             \* the own CALL that waits for its answer: [id, type]
    pending,               \* the own CALLs that the CSMS has not answered yet
    message,               \* the EnhancedMessage between receive and its handling
    last,                  \* the message handled last, with what became of it
    sent                   \* the frames sent in answer to it

vars == <<version, optional, connection_state, registration_status, next_message_to_send,
          in_flight, pending, message, last, sent>>

None == [none |-> TRUE]
Rng(s) == {s[i] : i \in DOMAIN s}
Ids == 1..MaxIds
CsmsId == 0               \* the id of the CALL of the CSMS under consideration
UnknownId == MaxIds + 1   \* MessageId("-1")
NoId == MaxIds + 2

-----------------------------------------------------------------------------
(* OCPP 2.x: the routes of ChargePoint::handle_message and what each functional block's handle_message accepts. *)

Routes2 ==
    [provisioning |-> {"BootNotificationResponse", "SetVariables", "GetVariables", "GetBaseReport",
                       "GetReport", "Reset", "SetNetworkProfile"},
     availability |-> {"ChangeAvailability", "HeartbeatResponse"},
     transaction |-> {"TransactionEventResponse", "GetTransactionStatus"},
     remote_transaction_control |-> {"RequestStartTransaction", "RequestStopTransaction",
                                     "UnlockConnector", "TriggerMessage"},
     data_transfer |-> {"DataTransfer"},
     diagnostics |-> {"GetLog", "CustomerInformation", "SetMonitoringBase", "SetMonitoringLevel",
                      "SetVariableMonitoring", "GetMonitoringReport", "ClearVariableMonitoring"},
     authorization |-> {"ClearCache", "SendLocalList", "GetLocalListVersion"},
     firmware_update |-> {"UpdateFirmware"},
     reservation |-> {"ReserveNow", "CancelReservation"},
     security |-> {"CertificateSigned", "SignCertificateResponse", "GetInstalledCertificateIds",
                   "InstallCertificate", "DeleteCertificate"},
     smart_charging |-> {"SetChargingProfile", "ClearChargingProfile", "GetChargingProfiles",
                         "GetCompositeSchedule", "NotifyEVChargingNeedsResponse"},
     display_message |-> {"GetDisplayMessages", "SetDisplayMessage", "ClearDisplayMessage"},
     tariff_and_cost |-> {"CostUpdated"},
     bidirectional |-> {"NotifyAllowedEnergyTransfer"}]

ProvisioningHandles == {"BootNotificationResponse", "SetVariables", "GetVariables",
                        "GetBaseReport", "GetReport", "Reset", "SetNetworkProfile"}
AvailabilityHandles == {"ChangeAvailability", "HeartbeatResponse"}
TransactionHandles == {"TransactionEventResponse", "GetTransactionStatus"}
RemoteTransactionControlHandles == {"RequestStartTransaction", "RequestStopTransaction",
                                    "UnlockConnector", "TriggerMessage"}
DataTransferHandles == {"DataTransfer"}
MonitoringHandles_NoReport == {"SetMonitoringBase", "SetMonitoringLevel", "SetVariableMonitoring",
                               "ClearVariableMonitoring"}
MonitoringHandles == {"SetMonitoringBase", "SetMonitoringLevel", "SetVariableMonitoring",
                      "GetMonitoringReport", "ClearVariableMonitoring"}
DiagnosticsHandles == {"GetLog", "CustomerInformation"}
AuthorizationHandles == {"ClearCache", "SendLocalList", "GetLocalListVersion"}
FirmwareUpdateHandles == {"UpdateFirmware"}
ReservationHandles == {"ReserveNow", "CancelReservation"}
SecurityHandles == {"CertificateSigned", "SignCertificateResponse", "GetInstalledCertificateIds",
                    "InstallCertificate", "DeleteCertificate"}
SmartChargingHandles == {"SetChargingProfile", "ClearChargingProfile", "GetChargingProfiles",
                         "GetCompositeSchedule", "NotifyEVChargingNeedsResponse"}
DisplayMessageHandles == {"GetDisplayMessages", "SetDisplayMessage", "ClearDisplayMessage"}
TariffAndCostHandles == {"CostUpdated"}
BidirectionalHandles == {"NotifyAllowedEnergyTransfer"}

\* The blocks that are created only if the device model says that they are available.
OptionalBlocks == {"reservation", "smart_charging", "display_message", "bidirectional"}

\* What the handle_message of a block accepts; everything else is MessageTypeNotImplementedException.
Handles(block, there) ==
    CASE block = "provisioning" -> ProvisioningHandles
      [] block = "availability" -> AvailabilityHandles
      [] block = "transaction" -> TransactionHandles
      [] block = "remote_transaction_control" -> RemoteTransactionControlHandles
      [] block = "data_transfer" -> DataTransferHandles
      [] block = "diagnostics" -> DiagnosticsHandles \union IF there THEN MonitoringHandles ELSE {}
      [] block = "authorization" -> AuthorizationHandles
      [] block = "firmware_update" -> FirmwareUpdateHandles
      [] block = "security" -> SecurityHandles
      [] block = "reservation" -> ReservationHandles
      [] block = "smart_charging" -> SmartChargingHandles
      [] block = "display_message" -> DisplayMessageHandles
      [] block = "tariff_and_cost" -> TariffAndCostHandles
      [] block = "bidirectional" -> BidirectionalHandles

\* ChargePoint::handle_message finds a block that is there and that accepts the type.
Routed2(type, there) ==
    \E block \in DOMAIN Routes2 :
        /\ type \in Routes2[block]
        /\ block \in OptionalBlocks => there
        /\ type \in Handles(block, there)

\* The messages that a registration that is Pending lets through to handle_message.
PendingAllows == {"GetVariables", "SetVariables", "GetBaseReport", "GetReport",
                  "NotifyReportResponse", "TriggerMessage"}

-----------------------------------------------------------------------------
(* OCPP 1.6: the types that each feature profile receives and the cases of handle_message. *)

CoreReceives == {"AuthorizeResponse", "BootNotificationResponse", "ChangeAvailability",
                 "ChangeConfiguration", "ClearCache", "DataTransfer", "DataTransferResponse",
                 "GetConfiguration", "HeartbeatResponse", "MeterValuesResponse",
                 "RemoteStartTransaction", "RemoteStopTransaction", "Reset",
                 "StartTransactionResponse", "StatusNotificationResponse",
                 "StopTransactionResponse", "UnlockConnector"}
OptionalReceives == {"GetDiagnostics", "DiagnosticsStatusNotificationResponse",
                     "FirmwareStatusNotificationResponse", "UpdateFirmware", "GetLocalListVersion",
                     "SendLocalList", "TriggerMessage", "CancelReservation", "ReserveNow",
                     "ClearChargingProfile", "GetCompositeSchedule", "SetChargingProfile",
                     "CertificateSigned", "DeleteCertificate", "ExtendedTriggerMessage",
                     "GetInstalledCertificateIds", "GetLog", "InstallCertificate",
                     "LogStatusNotificationResponse", "SecurityEventNotificationResponse",
                     "SignCertificateResponse", "SignedFirmwareStatusNotificationResponse",
                     "SignedUpdateFirmware"}

\* These are received even if their feature profile is not supported.
AlwaysReceives == {"GetLocalListVersion", "SendLocalList", "ReserveNow"}

SupportedMessageTypesReceiving(there) ==
    CoreReceives \union AlwaysReceives \union IF there THEN OptionalReceives ELSE {}

\* The cases of ChargePointImpl::handle_message that call a handler; the others do nothing.
Handles16 == {"CertificateSigned", "ChangeAvailability", "ChangeConfiguration", "ClearCache",
              "DataTransfer", "GetConfiguration", "RemoteStartTransaction",
              "RemoteStopTransaction", "Reset", "StartTransactionResponse",
              "StopTransactionResponse", "UnlockConnector", "SetChargingProfile",
              "GetCompositeSchedule", "ClearChargingProfile", "TriggerMessage", "GetDiagnostics",
              "UpdateFirmware", "GetInstalledCertificateIds", "DeleteCertificate",
              "InstallCertificate", "GetLog", "SignedUpdateFirmware", "ReserveNow",
              "CancelReservation", "ExtendedTriggerMessage", "SendLocalList",
              "GetLocalListVersion", "HeartbeatResponse"}

-----------------------------------------------------------------------------
(* The payloads that arrive, abstracted to what their decoding does: the exceptions it can throw  *)
(* and the enumerators of the members that the code looks at before the handler runs.             *)

\* The messages of a version, by the name of their struct.
Structs(v) == IF v = "1.6" THEN Structs16 ELSE AllMessages2
MessageTypes(v) == Rng((IF v = "1.6" THEN MessageType16 ELSE MessageType).enum)

\* A complete payload, one with only the required members or an unknown one more, and those with
\* one member missing, wrong or of each enumerator, and one that is not even an object.
Payloads(type) ==
    LET full == [f \in Fields(type) |-> WriteMember(FieldType(type, f), SampleMember(FieldType(type, f)))]
        Without(f) == JObject([g \in DOMAIN full \ {f} |-> full[g]])
        With(f, j) == JObject([g \in DOMAIN full \union {f} |-> IF g = f THEN j ELSE full[g]])
        Enumerators(f) == IF Kind(FieldType(type, f)) = "enum"
                          THEN {JString(e, 0) : e \in Rng(FieldType(type, f).enum)} ELSE {}
    IN  {JObject(full), ToJson(type, Sample(type, FALSE)), With("unknownKey", JNumber),
         JString("text", 0)}
          \union {Without(f) : f \in Fields(type)}
          \union UNION {{With(f, j) : j \in Wrong(FieldType(type, f)) \union Enumerators(f)}
                          : f \in Fields(type)}

\* What the code sees of a payload: the exceptions, the status of a BootNotificationResponse, the
\* message that a TriggerMessage requests.
TextOf(f, j) == IF f \in Keys(j) /\ j.fields[f].json = "string" THEN j.fields[f].text ELSE ""
Seen(type, j) == [errors |-> Errors(type, j), status |-> TextOf("status", j),
                  requested |-> TextOf("requestedMessage", j)]

Looked == {"BootNotificationResponse", "TriggerMessageRequest"}
SeenOf(v) ==
    {[name |-> name,
      seen |-> {[Seen(Structs(v)[name], j) EXCEPT !.status = IF name \in Looked THEN @ ELSE "",
                                                  !.requested = IF name \in Looked THEN @ ELSE ""]
                  : j \in Payloads(Structs(v)[name])}] : name \in DOMAIN Structs(v)}
Seen16 == SeenOf("1.6")
Seen2 == SeenOf("2.1")

\* The types of the CALLs, and what their handler can see of the payload.  A message whose type is
\* not known carries nothing that is looked at.
CallTypes(v) == {t \in MessageTypes(v) : (t \o "Request") \in DOMAIN Structs(v)}

\* The answers that the code of either version names.
AnswerTypes == {"AuthorizeResponse", "BootNotificationResponse", "DataTransferResponse",
                "MeterValuesResponse", "StatusNotificationResponse",
                "DiagnosticsStatusNotificationResponse", "FirmwareStatusNotificationResponse",
                "LogStatusNotificationResponse", "SecurityEventNotificationResponse",
                "SignCertificateResponse", "SignedFirmwareStatusNotificationResponse"}

\* No CALL has the name of an answer.
ASSUME NamesAssumption == \A v \in {"1.6", "2.0.1", "2.1"} : CallTypes(v) \intersect AnswerTypes = {}

SeenPayloads(v, name) ==
    IF name \in DOMAIN Structs(v)
    THEN UNION {entry.seen : entry \in {e \in IF v = "1.6" THEN Seen16 ELSE Seen2 : e.name = name}}
    ELSE {[errors |-> {}, status |-> "", requested |-> ""]}

-----------------------------------------------------------------------------
(* MessageQueue::receive *)

Frame(kind, id, code) == [kind |-> kind, id |-> id, code |-> code]

Idle == message = None

\* A CALL with an action that is known: the worker has to wait for its answer.
ReceiveCall(type) ==
    /\ Idle
    /\ message' = [messageTypeId |-> "CALL", messageType |-> type, id |-> CsmsId,
                   answers |-> "none"]
    /\ next_message_to_send' = CsmsId
    /\ last' = None
    /\ sent' = << >>
    /\ UNCHANGED <<version, optional, connection_state, registration_status, in_flight, pending>>

\* What is not a message at all: no JSON, too few elements, an action that is not known.
ReceiveInvalid(why) ==
    /\ Idle
    /\ last' = [messageTypeId |-> "invalid", why |-> why]
    /\ sent' = <<Frame("CALLERROR", UnknownId,
                       CASE version = "1.6" -> "GenericError"
                         [] why = "action" -> "FormationViolation"
                         [] OTHER -> "RpcFrameworkError")>>
    /\ UNCHANGED <<version, optional, connection_state, registration_status,
                   next_message_to_send, in_flight, pending, message>>

ReceiveAnswer_AnyId(call, kind) ==
    /\ Idle
    /\ call \in pending
    /\ pending' = pending \ {call}
    /\ next_message_to_send' = NoId
    /\ message' = [messageTypeId |-> kind, id |-> call.id, answers |-> call.type,
                   messageType |-> IF in_flight # None /\ kind = "CALLRESULT"
                                   THEN in_flight.type \o "Response" ELSE "InternalError"]
    /\ in_flight' = None
    /\ last' = None
    /\ sent' = << >>
    /\ UNCHANGED <<version, optional, connection_state, registration_status>>

\* The answer of the CSMS to one of the charge point's CALLs, the one in flight or one that has
\* timed out: only the one in flight gets its type and takes the CALL out of flight.
ReceiveAnswer(call, kind) ==
    LET matches == in_flight # None /\ in_flight.id = call.id
    IN  /\ Idle
        /\ call \in pending
        /\ pending' = pending \ {call}
        /\ next_message_to_send' = NoId
        /\ message' = [messageTypeId |-> kind, id |-> call.id, answers |-> call.type,
                       messageType |-> IF matches /\ kind = "CALLRESULT"
                                       THEN in_flight.type \o "Response" ELSE "InternalError"]
        /\ in_flight' = IF matches THEN None ELSE in_flight
        /\ last' = None
        /\ sent' = << >>
        /\ UNCHANGED <<version, optional, connection_state, registration_status>>

-----------------------------------------------------------------------------
(* The handlers.  An outcome is the answer, what happened in words, and the new registration. *)

Silent(what) == [answer |-> << >>, what |-> what, release |-> FALSE]
Answered(kind, code, what) == [answer |-> <<Frame(kind, message.id, code)>>, what |-> what,
                               release |-> FALSE]
Dropped == [answer |-> << >>, what |-> "dropped", release |-> TRUE]
OnlyToCall(outcome) == IF message.messageTypeId = "CALL" THEN outcome ELSE Silent("ignored")

NotImplemented_Silent == Silent("ignored")

\* send_not_implemented_error
NotImplemented == OnlyToCall(Answered("CALLERROR", "NotImplemented", "not implemented"))

\* The payload is decoded, then the handler runs, answers, and may throw before it has answered.
\* The catch clauses of message_callback answer a CALL; for a DeviceModelError, any message.
Execute2(seen, thrown) ==
    IF seen.errors # {}
    THEN OnlyToCall(Answered("CALLERROR", "FormationViolation", "undecodable"))
    ELSE IF thrown = "OutOfRange"
    THEN OnlyToCall(Answered("CALLERROR", "OccurrenceConstraintViolation", "failed"))
    ELSE IF thrown = "DeviceModelError" THEN Answered("CALLERROR", "GenericError", "failed")
    ELSE IF message.messageTypeId # "CALL" THEN Silent("executed")
    ELSE IF message.messageType = "NotifyAllowedEnergyTransfer" /\ version # "2.1"
    THEN Silent("ignored")
    ELSE Answered("CALLRESULT", "", "executed")

\* ChargePoint::handle_message
HandleMessage2(seen, thrown) ==
    IF Routed2(message.messageType, optional) THEN Execute2(seen, thrown) ELSE NotImplemented

SecurityError == Answered("CALLERROR", "SecurityError", "refused")

\* ChargePoint::message_callback after receive
MessageCallback2(seen, thrown) ==
    IF registration_status = "Accepted" THEN HandleMessage2(seen, thrown)
    ELSE IF message.messageType = "BootNotificationResponse" THEN Execute2(seen, thrown)
    ELSE CASE registration_status = "Pending" ->
            IF message.messageType \in PendingAllows THEN HandleMessage2(seen, thrown)
            ELSE IF message.messageType \in {"RequestStartTransaction", "RequestStopTransaction"}
            THEN Answered("CALLRESULT", "Rejected", "refused")
            ELSE SecurityError
      [] registration_status = "Rejected" ->
            IF message.messageType # "TriggerMessage" THEN SecurityError
            ELSE IF seen.errors # {} THEN Execute2(seen, thrown)
            ELSE IF seen.requested = "BootNotification" THEN HandleMessage2(seen, thrown)
            ELSE SecurityError

\* A handler of 1.6: TimePointParseException has no catch clause of its own.
Execute16(seen, thrown) ==
    IF message.messageType \notin Handles16 THEN Silent("ignored")
    ELSE IF seen.errors # {}
    THEN OnlyToCall(Answered("CALLERROR",
                             IF seen.errors = {"time"} THEN "GenericError"
                             ELSE "FormationViolation", "undecodable"))
    ELSE IF thrown # "nothing" THEN OnlyToCall(Answered("CALLERROR", "GenericError", "failed"))
    ELSE IF message.messageTypeId # "CALL" THEN Silent("executed")
    ELSE Answered("CALLRESULT", "", "executed")

\* handleBootNotificationResponse
BootNotification16(seen) == Silent(IF seen.errors = {} THEN "executed" ELSE "undecodable")

\* Before the registration, a CALL is not answered: reset_next_message_to_send.
NotYet == IF message.messageTypeId = "CALL" THEN Dropped ELSE Silent("ignored")

\* ChargePointImpl::message_callback after receive
MessageCallback16(seen, thrown) ==
    IF message.messageType \notin SupportedMessageTypesReceiving(optional)
    THEN OnlyToCall(Answered("CALLERROR", "NotSupported", "not implemented"))
    ELSE CASE connection_state = "Disconnected" -> Silent("ignored")
      [] connection_state = "Connected" ->
            IF message.messageType = "BootNotificationResponse"
            THEN BootNotification16(seen) ELSE NotYet
      [] connection_state = "Rejected" ->
            IF registration_status # "Rejected" THEN Silent("ignored")
            ELSE IF message.messageType = "BootNotificationResponse"
            THEN BootNotification16(seen) ELSE NotYet
      [] connection_state = "Pending" ->
            IF registration_status # "Pending" THEN Silent("ignored")
            ELSE IF message.messageType = "BootNotificationResponse"
            THEN BootNotification16(seen)
            ELSE IF message.messageType \in {"RemoteStartTransaction", "RemoteStopTransaction"}
            THEN Answered("CALLRESULT", "Rejected", "refused")
            ELSE Execute16(seen, thrown)
      [] connection_state = "Booted" -> Execute16(seen, thrown)

\* The registration after a BootNotificationResponse that could be decoded and that was not ignored.
BootAnswered(outcome, seen) ==
    /\ message.messageType = "BootNotificationResponse"
    /\ outcome.what \in {"executed", "failed"}

Handle(seen, thrown) ==
    LET outcome == IF version = "1.6" THEN MessageCallback16(seen, thrown)
                   ELSE MessageCallback2(seen, thrown)
    IN  /\ ~Idle
        /\ message' = None
        /\ last' = [message |-> message, seen |-> seen, thrown |-> thrown, what |-> outcome.what,
                    registered |-> registration_status, connection |-> connection_state]
        /\ sent' = outcome.answer
        /\ next_message_to_send' =
              IF outcome.release
                 \/ (outcome.answer # << >> /\ next_message_to_send = message.id)
              THEN NoId ELSE next_message_to_send
        /\ registration_status' =
              IF BootAnswered(outcome, seen) THEN seen.status ELSE registration_status
        /\ connection_state' =
              IF version = "1.6" /\ BootAnswered(outcome, seen)
              THEN (IF seen.status = "Accepted" THEN "Booted" ELSE seen.status)
              ELSE connection_state
        /\ UNCHANGED <<version, optional, in_flight, pending>>

-----------------------------------------------------------------------------
(* The charge point's own CALLs and the connection *)

\* The worker of the message queue: nothing is sent while a CALL of the CSMS waits for its answer,
\* and before the registration only BootNotifications.
SendCall(type, id) ==
    /\ in_flight = None
    /\ next_message_to_send = NoId
    /\ type = "BootNotification" \/ registration_status = "Accepted"
    /\ version = "1.6" => connection_state # "Disconnected"
    /\ \A call \in pending : call.id # id
    /\ in_flight' = [id |-> id, type |-> type]
    /\ pending' = pending \union {in_flight'}
    /\ UNCHANGED <<version, optional, connection_state, registration_status,
                   next_message_to_send, message, last, sent>>

\* in_flight_timeout_timer
Timeout ==
    /\ in_flight # None
    /\ in_flight' = None
    /\ UNCHANGED <<version, optional, connection_state, registration_status,
                   next_message_to_send, pending, message, last, sent>>

\* ChargePointImpl::connected_callback, run by the thread of the deferred callbacks: messages may
\* arrive before it.
ConnectedCallback ==
    /\ version = "1.6"
    /\ connection_state = "Disconnected"
    /\ connection_state' = "Connected"
    /\ UNCHANGED <<version, optional, registration_status, next_message_to_send, in_flight,
                   pending, message, last, sent>>

-----------------------------------------------------------------------------
(* Values that are kept as JSON: charging profiles, network profiles and the queued messages are  *)
(* written to the database with to_json and read back with from_json.                             *)

AllStructs == [s16 |-> Structs16, m2 |-> AllMessages2, t2 |-> DataTypes2,
               common |-> CommonStructs]
AllEnums == [e16 |-> Enums16, e2 |-> AllEnums2, common |-> CommonEnums]

\* Every table is well formed.
ASSUME TablesAssumption ==
    /\ \A g \in DOMAIN AllStructs : \A name \in DOMAIN AllStructs[g] : StructForm(AllStructs[g][name])
    /\ \A g \in DOMAIN AllEnums : \A name \in DOMAIN AllEnums[g] : EnumForm(AllEnums[g][name])

Store(value, errors, loaded) ==
    /\ Idle
    /\ last' = [messageTypeId |-> "stored", value |-> value, errors |-> errors, loaded |-> loaded]
    /\ sent' = << >>
    /\ UNCHANGED <<version, optional, connection_state, registration_status,
                   next_message_to_send, in_flight, pending, message>>

StoreStruct(type, v) ==
    \E j \in {ToJson(type, v)} : Store(v, Errors(type, j), FromJson(type, j))

StoreEnum(type, e) ==
    \E j \in {WriteValue(type, e)} : Store(e, ValueErrors(type, j), ReadValue(type, j))

Fresh == /\ in_flight = None /\ pending = {} /\ last = None /\ sent = << >> /\ ~optional
         /\ version = "2.1"

Init ==
    /\ version \in {"1.6", "2.0.1", "2.1"}
    /\ optional \in BOOLEAN
    /\ connection_state = "Disconnected"
    /\ registration_status = IF version = "1.6" THEN "Pending" ELSE "Rejected"
    /\ next_message_to_send = NoId
    /\ in_flight = None
    /\ pending = {}
    /\ message = None
    /\ last = None
    /\ sent = << >>

Next ==
    \/ \E type \in CallTypes(version) : ReceiveCall(type)
    \/ \E why \in {"json", "elements", "action"} : ReceiveInvalid(why)
    \/ \E call \in pending, kind \in {"CALLRESULT", "CALLERROR"} : ReceiveAnswer(call, kind)
    \/ /\ ~Idle
       /\ \E seen \in SeenPayloads(version, IF message.messageTypeId = "CALL"
                                              THEN message.messageType \o "Request"
                                              ELSE message.messageType),
             thrown \in {"nothing", "OutOfRange", "DeviceModelError"} : Handle(seen, thrown)
    \/ \E type \in OwnCalls, id \in Ids : SendCall(type, id)
    \/ Timeout
    \/ ConnectedCallback
    \/ /\ Fresh
       /\ \E g \in DOMAIN AllStructs : \E name \in DOMAIN AllStructs[g], full \in BOOLEAN :
             StoreStruct(AllStructs[g][name], Sample(AllStructs[g][name], full))
    \/ /\ Fresh
       /\ \E g \in DOMAIN AllEnums : \E name \in DOMAIN AllEnums[g] :
             \E e \in 1..Len(AllEnums[g][name].enum) : StoreEnum(AllEnums[g][name], e)

Spec == Init /\ [][Next]_vars

-----------------------------------------------------------------------------
(* Properties *)

\* Types of the variables.
TypeOK ==
    /\ version \in {"1.6", "2.0.1", "2.1"}
    /\ optional \in BOOLEAN
    /\ connection_state \in {"Disconnected", "Connected", "Rejected", "Pending", "Booted"}
    /\ registration_status \in {"Accepted", "Pending", "Rejected"}
    /\ next_message_to_send \in {NoId, CsmsId}
    /\ in_flight \in {None} \union pending \union [id : Ids, type : OwnCalls]
    /\ pending \subseteq [id : Ids, type : OwnCalls]
    /\ message = None \/ message.messageTypeId \in {"CALL", "CALLRESULT", "CALLERROR"}
    /\ Len(sent) <= 1

Handled == last # None /\ "message" \in DOMAIN last
HandledCall == Handled /\ last.message.messageTypeId = "CALL"

\* The CALL is one that the code ignores without an answer: in 1.6 before connected_callback or
\* before the registration, in 2.0.1 a message of 2.1.
Ignored(m, connection) ==
    \/ version = "1.6" /\ connection \in {"Disconnected", "Connected", "Rejected"}
    \/ version = "2.0.1" /\ m.messageType = "NotifyAllowedEnergyTransfer"

\* Every CALL of the CSMS gets exactly one answer, with its own id (message_callback and the
\* handlers), but for the CALLs that are ignored.
AnsweredOnce ==
    HandledCall /\ ~Ignored(last.message, last.connection) =>
        Len(sent) = 1 /\ sent[1].id = last.message.id

\* Somebody is there to handle a CALL of this type.
HasHandler(type) ==
    IF version = "1.6" THEN type \in Handles16 /\ (optional \/ type \in CoreReceives)
    ELSE \E block \in DOMAIN Routes2 : type \in Routes2[block] /\ optional

\* The code of a CALLERROR tells why: FormationViolation that the payload does not decode,
\* NotImplemented or NotSupported that the charge point does not have everything there is, or no
\* handler for this type, SecurityError that the registration is not accepted.  Once it is, a CALL
\* that has a handler, that decodes and whose handler does not throw is executed
\* (message_callback, handle_message, and the handle_message of every functional block).
ErrorTellsWhy ==
    HandledCall =>
        /\ \A i \in DOMAIN sent :
             /\ sent[i].code = "FormationViolation" => last.seen.errors # {}
             /\ sent[i].code \in {"NotImplemented", "NotSupported"} =>
                  ~HasHandler(last.message.messageType)
             /\ sent[i].code = "SecurityError" => last.registered # "Accepted"
        /\ /\ HasHandler(last.message.messageType)
           /\ last.seen.errors = {} /\ last.thrown = "nothing"
           /\ last.registered = "Accepted"
           /\ ~Ignored(last.message, last.connection)
           => last.what = "executed"

\* An answer is taken for the answer to the CALL that it answers, however late it is: receive
\* compares the ids, so a CALLRESULT that comes after its timeout is not taken for the next one's.
AnswerToItsCall ==
    message # None /\ message.messageTypeId = "CALLRESULT" /\ message.messageType # "InternalError"
        => message.messageType = message.answers \o "Response"

\* When a CALL has been handled, the worker may send again: the CALL was answered or released
\* (reset_next_message_to_send), but for a CALL handled before connected_callback in 1.6 and for a
\* message of 2.1 that a 2.0.1 connection ignores.
Silenced(m, connection) ==
    \/ version = "1.6" /\ connection = "Disconnected"
    \/ version = "2.0.1" /\ m.messageType = "NotifyAllowedEnergyTransfer"
Released ==
    message # None /\ message' = None /\ ~Silenced(message, connection_state)
        => next_message_to_send' = NoId

\* A CALL of the CSMS comes to an end: it gets exactly one answer, and the worker, which waits for
\* that answer to be sent first, is released, on every path through message_callback and the
\* handlers that does not ignore the CALL.
CallsEnd == [][AnsweredOnce' /\ Released]_vars

\* What to_json writes, from_json reads back to the same value, for every type and every
\* enumerator of both versions (the tables of ocpp_types.cpp, ocpp_enums.cpp and the messages).
RoundTrip ==
    last # None /\ "loaded" \in DOMAIN last => last.errors = {} /\ last.loaded = last.value

\* Violated: a CALL is always answered or released, so the charge point is never silenced.
NeverSilenced == Idle => next_message_to_send = NoId

\* Violated: a CALLERROR only follows on a CALL.
CallErrorOnlyAfterCall ==
    Handled /\ sent # << >> /\ sent[1].kind = "CALLERROR" => last.message.messageTypeId = "CALL"
=============================================================================
