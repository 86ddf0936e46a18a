------------------------ MODULE MessageHandling_proofs ------------------------
(***************************************************************************)
(* Proofs about MessageHandling: every CALL of the CSMS is answered once   *)
(* and releases the worker, the error codes say why, and an answer is      *)
(* taken for the answer to its own CALL, for every set of own CALLs, every *)
(* number of ids and every order of the steps.                             *)
(***************************************************************************)
EXTENDS MessageHandling, TLAPS

-----------------------------------------------------------------------------
(* An answer and its CALL.                                                 *)

\* The CALL in flight is the only one the CSMS may answer under its id.
FlightInv ==
    /\ in_flight # None => \A call \in pending : call.id = in_flight.id => call = in_flight
    /\ AnswerToItsCall

LEMMA FlightInit == Init => FlightInv
BY DEF Init, FlightInv, AnswerToItsCall

LEMMA FlightStep ==
    ASSUME FlightInv, [Next]_vars
    PROVE  FlightInv'
<1> USE DEF FlightInv
<1>1. ASSUME NEW type, ReceiveCall(type) PROVE FlightInv'
  BY <1>1 DEF ReceiveCall, AnswerToItsCall
<1>2. ASSUME NEW why, ReceiveInvalid(why) PROVE FlightInv'
  BY <1>2 DEF ReceiveInvalid, AnswerToItsCall
<1>3. ASSUME NEW call \in pending, NEW kind, ReceiveAnswer(call, kind) PROVE FlightInv'
  BY <1>3 DEF ReceiveAnswer, AnswerToItsCall
<1>4. ASSUME NEW seen, NEW thrown, Handle(seen, thrown) PROVE FlightInv'
  BY <1>4 DEF Handle, AnswerToItsCall
<1>5. ASSUME NEW type, NEW id, SendCall(type, id) PROVE FlightInv'
  BY <1>5 DEF SendCall, AnswerToItsCall
<1>6. CASE Timeout
  BY <1>6 DEF Timeout, AnswerToItsCall
<1>7. CASE ConnectedCallback
  BY <1>7 DEF ConnectedCallback, AnswerToItsCall
<1>8. ASSUME NEW v, NEW errors, NEW loaded, Store(v, errors, loaded) PROVE FlightInv'
  BY <1>8 DEF Store, AnswerToItsCall
<1>9. CASE UNCHANGED vars
  BY <1>9 DEF vars, AnswerToItsCall
<1> QED
  BY <1>1, <1>2, <1>3, <1>4, <1>5, <1>6, <1>7, <1>8, <1>9 DEF Next, StoreStruct, StoreEnum

\* An answer is taken for the answer to the CALL that it answers, however late it is: receive
\* compares the ids, and an id stays taken until the CSMS has answered, the timeout of its CALL or
\* not.
THEOREM AnswersFindTheirCall == Spec => []AnswerToItsCall
<1>1. FlightInv => AnswerToItsCall
  BY DEF FlightInv
<1> QED  BY <1>1, FlightInit, FlightStep, PTL DEF Spec

-----------------------------------------------------------------------------
(* The registration that a BootNotificationResponse brings.                *)

Versions == {"1.6", "2.0.1", "2.1"}
Statuses == {"Accepted", "Pending", "Rejected"}

\* The BootNotificationResponse of either version has a status that is required.
LEMMA BootStruct ==
    ASSUME NEW v \in Versions
    PROVE  /\ "BootNotificationResponse" \in DOMAIN Structs(v)
           /\ LET type == Structs(v)["BootNotificationResponse"]
              IN  /\ "status" \in DOMAIN type.required
                  /\ type.required["status"] = [enum |-> <<"Accepted", "Pending", "Rejected">>]
<1>1. CASE v = "1.6"
  <2>1. Structs(v) = Structs16
    BY <1>1 DEF Structs
  <2>2. /\ "BootNotificationResponse" \in DOMAIN Structs16
        /\ Structs16["BootNotificationResponse"] = BootNotificationMessage16.Response
    BY DEF Structs16
  <2>3. /\ "status" \in DOMAIN BootNotificationMessage16.Response.required
        /\ BootNotificationMessage16.Response.required["status"]
              = [enum |-> <<"Accepted", "Pending", "Rejected">>]
    BY DEF BootNotificationMessage16, RegistrationStatus16
  <2> QED  BY <2>1, <2>2, <2>3
<1>2. CASE v # "1.6"
  <2>1. Structs(v) = AllMessages2
    BY <1>2 DEF Structs
  <2>2. /\ "BootNotificationResponse" \in DOMAIN AllMessages2
        /\ AllMessages2["BootNotificationResponse"] = BootNotificationMessage.Response
    BY DEF AllMessages2
  <2>3. /\ "status" \in DOMAIN BootNotificationMessage.Response.required
        /\ BootNotificationMessage.Response.required["status"]
              = [enum |-> <<"Accepted", "Pending", "Rejected">>]
    BY DEF BootNotificationMessage, RegistrationStatusEnum
  <2> QED  BY <2>1, <2>2, <2>3
<1> QED  BY <1>1, <1>2

\* What from_json reads without an exception as a required enum is the text of an enumerator.
LEMMA RequiredEnum ==
    ASSUME NEW type, NEW f \in DOMAIN type.required, NEW e, NEW j,
           type.required[f] = [enum |-> e], Errors(type, j) = {}
    PROVE  f \in Keys(j) /\ j.fields[f].json = "string" /\ \E i \in 1..Len(e) : e[i] = j.fields[f].text
<1>1. DOMAIN type.required \subseteq Keys(j)
  <2> SUFFICES ASSUME ~(DOMAIN type.required \subseteq Keys(j)) PROVE "json" \in Errors(type, j)
    OBVIOUS
  <2> QED  BY DEF Errors, Exceptions
<1>2. f \in Fields(type) \intersect Keys(j) /\ FieldType(type, f) = [enum |-> e]
  BY <1>1 DEF Fields, FieldType
<1> DEFINE m == j.fields[f]
           t == [enum |-> e]
<1>3. \A x \in Exceptions : x \notin MemberErrors(t, m)
  BY <1>2 DEF Errors
<1>4. Kind(t) = "enum"
  BY DEF Kind
<1> HIDE DEF m, t
<1>5. MemberErrors(t, m) = ValueErrors(t, m)
  BY <1>4 DEF MemberErrors
<1>6. m.json = "string"
  <2> SUFFICES ASSUME m.json # "string" PROVE ValueErrors(t, m) = {"json"}
    BY <1>3, <1>5 DEF Exceptions
  <2> QED  BY <1>4 DEF ValueErrors
<1>7. IsEnumString(t, m.text)
  <2> SUFFICES ASSUME ~IsEnumString(t, m.text) PROVE ValueErrors(t, m) = {"enum"}
    BY <1>3, <1>5 DEF Exceptions
  <2> QED  BY <1>4, <1>6 DEF ValueErrors
<1> QED  BY <1>2, <1>6, <1>7 DEF IsEnumString, m, t

\* The handlers see the status of a BootNotificationResponse that can be decoded.
LEMMA BootStatus ==
    ASSUME NEW v \in Versions, NEW seen \in SeenPayloads(v, "BootNotificationResponse"),
           seen.errors = {}
    PROVE  seen.status \in Statuses
<1> DEFINE name == "BootNotificationResponse"
           w == IF v = "1.6" THEN "1.6" ELSE "2.1"
           type == Structs(w)[name]
<1>1. Structs(v) = Structs(w) /\ w \in Versions
  BY DEF Structs, Versions
<1>2. name \in DOMAIN Structs(v)
  BY BootStruct
<1>3. PICK entry \in SeenOf(w) : entry.name = name /\ seen \in entry.seen
  BY <1>2 DEF SeenPayloads, Seen16, Seen2
<1>4. PICK j \in Payloads(type) :
        seen = [Seen(type, j) EXCEPT !.status = IF name \in Looked THEN @ ELSE "",
                                     !.requested = IF name \in Looked THEN @ ELSE ""]
  <2> DEFINE View(n, j) == [Seen(Structs(w)[n], j) EXCEPT
                               !.status = IF n \in Looked THEN @ ELSE "",
                               !.requested = IF n \in Looked THEN @ ELSE ""]
  <2>1. SeenOf(w) = {[name |-> n, seen |-> {View(n, j) : j \in Payloads(Structs(w)[n])}]
                        : n \in DOMAIN Structs(w)}
    BY DEF SeenOf
  <2> HIDE DEF View
  <2>2. PICK n \in DOMAIN Structs(w) :
            entry = [name |-> n, seen |-> {View(n, j) : j \in Payloads(Structs(w)[n])}]
    BY <1>3, <2>1
  <2>3. n = name /\ seen \in {View(n, j) : j \in Payloads(Structs(w)[n])}
    BY <1>3, <2>2
  <2>4. PICK j \in Payloads(type) : seen = View(name, j)
    BY <2>3
  <2> QED  BY <2>4 DEF View
<1>5. seen.errors = Errors(type, j) /\ seen.status = TextOf("status", j)
  BY <1>4 DEF Seen, Looked
<1>6. /\ "status" \in DOMAIN type.required
      /\ type.required["status"] = [enum |-> <<"Accepted", "Pending", "Rejected">>]
  BY <1>1, BootStruct
<1> HIDE DEF type
<1>7. /\ "status" \in Keys(j) /\ j.fields["status"].json = "string"
      /\ \E i \in 1..3 : <<"Accepted", "Pending", "Rejected">>[i] = j.fields["status"].text
  BY <1>5, <1>6, RequiredEnum
<1>8. seen.status = j.fields["status"].text
  BY <1>5, <1>7 DEF TextOf
<1> QED  BY <1>7, <1>8 DEF Statuses

-----------------------------------------------------------------------------
(* The message between receive and its handling.                           *)

\* The registration is one of the three, and a 1.6 charge point that has been answered is in the
\* state of that answer.
RegistrationInv ==
    /\ version \in Versions
    /\ optional \in BOOLEAN
    /\ registration_status \in Statuses
    /\ connection_state \in {"Disconnected", "Connected", "Rejected", "Pending", "Booted"}
    /\ version = "1.6" =>
          /\ connection_state \in {"Rejected", "Pending"} => registration_status = connection_state
          /\ connection_state = "Booted" => registration_status = "Accepted"

\* A CALL has the id that the worker waits for, if it waits; while an answer is handled it does not.
MessageInv ==
    /\ next_message_to_send \in {NoId, CsmsId}
    /\ message # None =>
          IF message.messageTypeId = "CALL"
          THEN message.id = CsmsId /\ message.messageType \in CallTypes(version)
          ELSE next_message_to_send = NoId

HandlingInv == RegistrationInv /\ MessageInv

\* What Next allows a handler to see.
SeenNow ==
    SeenPayloads(version, IF message.messageTypeId = "CALL" THEN message.messageType \o "Request"
                          ELSE message.messageType)
Throwable == {"nothing", "OutOfRange", "DeviceModelError"}

LEMMA HandlingInit == Init => HandlingInv
BY DEF Init, HandlingInv, RegistrationInv, MessageInv, Versions, Statuses

\* The tables of 1.6: a type that is received and has no case in handle_message is an answer.
LEMMA ReceivedAreHandled ==
    ASSUME NEW type \in SupportedMessageTypesReceiving(optional), optional \in BOOLEAN,
           type \notin AnswerTypes
    PROVE  type \in Handles16
<1>1. type \in CoreReceives \union AlwaysReceives \union OptionalReceives
  BY DEF SupportedMessageTypesReceiving
<1>2. CASE type \in CoreReceives
  BY <1>2 DEF CoreReceives, Handles16, AnswerTypes
<1>3. CASE type \in AlwaysReceives
  BY <1>3 DEF AlwaysReceives, Handles16, AnswerTypes
<1>4. CASE type \in OptionalReceives
  BY <1>4 DEF OptionalReceives, Handles16, AnswerTypes
<1> QED  BY <1>1, <1>2, <1>3, <1>4

\* A CALL is not a BootNotificationResponse, and its type is not that of an answer.
LEMMA CallIsNoAnswer ==
    ASSUME HandlingInv, message # None, message.messageTypeId = "CALL"
    PROVE  message.messageType \notin AnswerTypes /\ message.messageType # "BootNotificationResponse"
<1>1. message.messageType \in CallTypes(version) /\ version \in {"1.6", "2.0.1", "2.1"}
  BY DEF HandlingInv, RegistrationInv, MessageInv, Versions
<1>2. message.messageType \notin AnswerTypes
  BY <1>1, NamesAssumption
<1> QED  BY <1>2 DEF AnswerTypes

\* The outcomes of message_callback.
Outcome(seen, thrown) ==
    IF version = "1.6" THEN MessageCallback16(seen, thrown) ELSE MessageCallback2(seen, thrown)

\* A handler that answers does so once, with the id of the message.
OnceOrSilent(o) ==
    /\ o.answer = << >> \/ \E kind, code : o.answer = <<Frame(kind, message.id, code)>>
    /\ o.release \in BOOLEAN

LEMMA Outcomes ==
    /\ \A what : OnceOrSilent(Silent(what))
    /\ \A kind, code, what :
          /\ OnceOrSilent(Answered(kind, code, what))
          /\ Answered(kind, code, what).answer = <<Frame(kind, message.id, code)>>
          /\ Answered(kind, code, what).what = what
    /\ OnceOrSilent(Dropped) /\ Dropped.release
    /\ \A what : Silent(what).what = what /\ Silent(what).answer = << >>
    /\ Dropped.answer = << >> /\ Dropped.what = "dropped"
BY DEF OnceOrSilent, Silent, Answered, Dropped

-----------------------------------------------------------------------------
(* What becomes of a CALL.                                                 *)

AnsweredHere(o) == \E kind, code : o.answer = <<Frame(kind, message.id, code)>>

\* The code of the answer is justified.
Told(o, seen) ==
    \A i \in DOMAIN o.answer :
        /\ o.answer[i].code = "FormationViolation" => seen.errors # {}
        /\ o.answer[i].code \in {"NotImplemented", "NotSupported"} => ~HasHandler(message.messageType)
        /\ o.answer[i].code = "SecurityError" => registration_status # "Accepted"

LEMMA ToldOutcomes ==
    ASSUME NEW seen
    PROVE  /\ \A what : Told(Silent(what), seen)
           /\ Told(Dropped, seen)
           /\ \A kind, code, what :
                 /\ code = "FormationViolation" => seen.errors # {}
                 /\ code \in {"NotImplemented", "NotSupported"} => ~HasHandler(message.messageType)
                 /\ code = "SecurityError" => registration_status # "Accepted"
                 => Told(Answered(kind, code, what), seen)
           /\ \A kind, code, what : AnsweredHere(Answered(kind, code, what))
<1>1. \A what : Told(Silent(what), seen)
  BY DEF Told, Silent
<1>2. Told(Dropped, seen)
  BY DEF Told, Dropped
<1>3. ASSUME NEW kind, NEW code, NEW what,
             code = "FormationViolation" => seen.errors # {},
             code \in {"NotImplemented", "NotSupported"} => ~HasHandler(message.messageType),
             code = "SecurityError" => registration_status # "Accepted"
      PROVE  Told(Answered(kind, code, what), seen)
  <2>1. \A i \in DOMAIN Answered(kind, code, what).answer :
           Answered(kind, code, what).answer[i].code = code
    BY DEF Answered, Frame
  <2> QED  BY <1>3, <2>1 DEF Told
<1>4. ASSUME NEW kind, NEW code, NEW what
      PROVE  AnsweredHere(Answered(kind, code, what))
  BY DEF AnsweredHere, Answered
<1> QED  BY <1>1, <1>2, <1>3, <1>4

\* The routes of 2.x and what the blocks accept agree when every block is there.
LEMMA RoutesAreHandled ==
    ASSUME NEW block \in DOMAIN Routes2
    PROVE  Routes2[block] \subseteq Handles(block, TRUE)
<1>1. block \in {"provisioning", "availability", "transaction", "remote_transaction_control",
                 "data_transfer", "diagnostics", "authorization", "firmware_update", "reservation",
                 "security", "smart_charging", "display_message", "tariff_and_cost",
                 "bidirectional"}
  BY DEF Routes2
<1>2. CASE block = "provisioning"
  BY <1>2 DEF Routes2, Handles, ProvisioningHandles
<1>3. CASE block = "availability"
  BY <1>3 DEF Routes2, Handles, AvailabilityHandles
<1>4. CASE block = "transaction"
  BY <1>4 DEF Routes2, Handles, TransactionHandles
<1>5. CASE block = "remote_transaction_control"
  BY <1>5 DEF Routes2, Handles, RemoteTransactionControlHandles
<1>6. CASE block = "data_transfer"
  BY <1>6 DEF Routes2, Handles, DataTransferHandles
<1>7. CASE block = "diagnostics"
  BY <1>7 DEF Routes2, Handles, DiagnosticsHandles, MonitoringHandles
<1>8. CASE block = "authorization"
  BY <1>8 DEF Routes2, Handles, AuthorizationHandles
<1>9. CASE block = "firmware_update"
  BY <1>9 DEF Routes2, Handles, FirmwareUpdateHandles
<1>10. CASE block = "reservation"
  BY <1>10 DEF Routes2, Handles, ReservationHandles
<1>11. CASE block = "security"
  BY <1>11 DEF Routes2, Handles, SecurityHandles
<1>12. CASE block = "smart_charging"
  BY <1>12 DEF Routes2, Handles, SmartChargingHandles
<1>13. CASE block = "display_message"
  BY <1>13 DEF Routes2, Handles, DisplayMessageHandles
<1>14. CASE block = "tariff_and_cost"
  BY <1>14 DEF Routes2, Handles, TariffAndCostHandles
<1>15. CASE block = "bidirectional"
  BY <1>15 DEF Routes2, Handles, BidirectionalHandles
<1> QED
  BY <1>1, <1>2, <1>3, <1>4, <1>5, <1>6, <1>7, <1>8, <1>9, <1>10, <1>11, <1>12, <1>13, <1>14, <1>15

LEMMA HandledAreRouted ==
    ASSUME version # "1.6", HasHandler(message.messageType), optional \in BOOLEAN
    PROVE  Routed2(message.messageType, optional)
<1>1. optional = TRUE /\ \E block \in DOMAIN Routes2 : message.messageType \in Routes2[block]
  BY DEF HasHandler
<1> QED  BY <1>1, RoutesAreHandled DEF Routed2

\* The tables of 1.6: what has a handler is received.
LEMMA HandledAreReceived ==
    ASSUME version = "1.6", HasHandler(message.messageType), optional \in BOOLEAN
    PROVE  message.messageType \in SupportedMessageTypesReceiving(optional)
<1>1. message.messageType \in Handles16 /\ (optional \/ message.messageType \in CoreReceives)
  BY DEF HasHandler
<1>2. CASE message.messageType \in CoreReceives
  BY <1>2 DEF SupportedMessageTypesReceiving
<1>3. CASE message.messageType \notin CoreReceives
  <2>1. message.messageType \in OptionalReceives
    BY <1>1, <1>3 DEF Handles16, CoreReceives, OptionalReceives
  <2> QED  BY <1>1, <1>3, <2>1 DEF SupportedMessageTypesReceiving
<1> QED  BY <1>2, <1>3

\* A 2.x charge point that executes a CALL.
LEMMA Execute2Call ==
    ASSUME message.messageTypeId = "CALL", version # "1.6", NEW seen, NEW thrown \in Throwable
    PROVE  LET o == Execute2(seen, thrown)
           IN  /\ AnsweredHere(o) \/ (version # "2.1" /\ message.messageType = "NotifyAllowedEnergyTransfer")
               /\ Told(o, seen)
               /\ seen.errors = {} /\ thrown = "nothing" /\ AnsweredHere(o) => o.what = "executed"
<1>1. CASE seen.errors # {}
  BY <1>1, ToldOutcomes DEF Execute2, OnlyToCall
<1>2. CASE seen.errors = {} /\ thrown = "OutOfRange"
  BY <1>2, ToldOutcomes DEF Execute2, OnlyToCall
<1>3. CASE seen.errors = {} /\ thrown = "DeviceModelError"
  BY <1>3, ToldOutcomes DEF Execute2
<1>4. CASE seen.errors = {} /\ thrown = "nothing"
  <2>1. CASE message.messageType = "NotifyAllowedEnergyTransfer" /\ version # "2.1"
    <3>1. Execute2(seen, thrown) = Silent("ignored")
      BY <1>4, <2>1 DEF Execute2
    <3>2. ~AnsweredHere(Silent("ignored"))
      BY DEF AnsweredHere, Silent
    <3> QED  BY <2>1, <3>1, <3>2, ToldOutcomes
  <2>2. CASE ~(message.messageType = "NotifyAllowedEnergyTransfer" /\ version # "2.1")
    <3>1. Execute2(seen, thrown) = Answered("CALLRESULT", "", "executed")
      BY <1>4, <2>2 DEF Execute2
    <3>2. Answered("CALLRESULT", "", "executed").what = "executed"
      BY DEF Answered
    <3>3. Told(Answered("CALLRESULT", "", "executed"), seen)
      BY ToldOutcomes
    <3>4. AnsweredHere(Answered("CALLRESULT", "", "executed"))
      BY ToldOutcomes
    <3> QED  BY <3>1, <3>2, <3>3, <3>4
  <2> QED  BY <2>1, <2>2
<1> QED  BY <1>1, <1>2, <1>3, <1>4 DEF Throwable

LEMMA NotImplementedCall ==
    ASSUME message.messageTypeId = "CALL", ~HasHandler(message.messageType), NEW seen
    PROVE  AnsweredHere(NotImplemented) /\ Told(NotImplemented, seen)
<1>1. NotImplemented = Answered("CALLERROR", "NotImplemented", "not implemented")
  BY DEF NotImplemented, OnlyToCall
<1> QED  BY <1>1, ToldOutcomes

\* The fate of a CALL that has the outcome o.
CallFate(o, seen, thrown) ==
    /\ AnsweredHere(o) \/ Ignored(message, connection_state)
    /\ AnsweredHere(o) \/ o.release \/ Silenced(message, connection_state)
    /\ Told(o, seen)
    /\ /\ HasHandler(message.messageType)
       /\ seen.errors = {} /\ thrown = "nothing"
       /\ registration_status = "Accepted"
       /\ ~Ignored(message, connection_state)
       => o.what = "executed"

LEMMA HandleMessage2Call ==
    ASSUME HandlingInv, message # None, message.messageTypeId = "CALL", version # "1.6",
           NEW seen, NEW thrown \in Throwable
    PROVE  CallFate(HandleMessage2(seen, thrown), seen, thrown)
<1>1. version \in Versions /\ optional \in BOOLEAN
  BY DEF HandlingInv, RegistrationInv
<1>2. CASE Routed2(message.messageType, optional)
  <2>1. HandleMessage2(seen, thrown) = Execute2(seen, thrown)
    BY <1>2 DEF HandleMessage2
  <2>2. version # "2.1" /\ message.messageType = "NotifyAllowedEnergyTransfer"
          => Ignored(message, connection_state) /\ Silenced(message, connection_state)
    BY <1>1 DEF Ignored, Silenced, Versions
  <2> QED  BY <2>1, <2>2, Execute2Call DEF CallFate
<1>3. CASE ~Routed2(message.messageType, optional)
  <2>1. HandleMessage2(seen, thrown) = NotImplemented
    BY <1>3 DEF HandleMessage2
  <2>2. ~HasHandler(message.messageType)
    BY <1>1, <1>3, HandledAreRouted
  <2> QED  BY <2>1, <2>2, NotImplementedCall DEF CallFate
<1> QED  BY <1>2, <1>3

\* ChargePoint::message_callback: what it does with a CALL.
LEMMA Callback2Call ==
    ASSUME HandlingInv, message # None, message.messageTypeId = "CALL", version # "1.6",
           NEW seen, NEW thrown \in Throwable
    PROVE  CallFate(MessageCallback2(seen, thrown), seen, thrown)
<1>1. registration_status \in Statuses
  BY DEF HandlingInv, RegistrationInv
<1>2. message.messageType # "BootNotificationResponse"
  BY CallIsNoAnswer
<1>3. CallFate(HandleMessage2(seen, thrown), seen, thrown)
  BY HandleMessage2Call
<1>4. registration_status # "Accepted" => CallFate(SecurityError, seen, thrown)
  BY ToldOutcomes DEF SecurityError, CallFate
<1>5. registration_status # "Accepted"
         => CallFate(Answered("CALLRESULT", "Rejected", "refused"), seen, thrown)
  BY ToldOutcomes DEF CallFate
<1>6. registration_status # "Accepted" /\ seen.errors # {}
         => CallFate(Execute2(seen, thrown), seen, thrown)
  <2> SUFFICES ASSUME registration_status # "Accepted", seen.errors # {}
               PROVE  CallFate(Execute2(seen, thrown), seen, thrown)
    OBVIOUS
  <2>1. Execute2(seen, thrown) = Answered("CALLERROR", "FormationViolation", "undecodable")
    BY DEF Execute2, OnlyToCall
  <2> QED  BY <2>1, ToldOutcomes DEF CallFate
<1>7. CASE registration_status = "Accepted"
  BY <1>3, <1>7 DEF MessageCallback2
<1>8. CASE registration_status = "Pending"
  BY <1>2, <1>3, <1>4, <1>5, <1>8 DEF MessageCallback2
<1>9. CASE registration_status = "Rejected"
  BY <1>2, <1>3, <1>4, <1>6, <1>9 DEF MessageCallback2
<1> QED  BY <1>1, <1>7, <1>8, <1>9 DEF Statuses

LEMMA Execute16Call ==
    ASSUME message.messageTypeId = "CALL", message.messageType \in Handles16, NEW seen,
           NEW thrown \in Throwable
    PROVE  LET o == Execute16(seen, thrown)
           IN  /\ AnsweredHere(o)
               /\ Told(o, seen)
               /\ seen.errors = {} /\ thrown = "nothing" => o.what = "executed"
<1>1. CASE seen.errors # {}
  <2>1. CASE seen.errors = {"time"}
    <3>1. Execute16(seen, thrown) = Answered("CALLERROR", "GenericError", "undecodable")
      BY <1>1, <2>1 DEF Execute16, OnlyToCall
    <3> QED  BY <1>1, <3>1, ToldOutcomes
  <2>2. CASE seen.errors # {"time"}
    <3>1. Execute16(seen, thrown) = Answered("CALLERROR", "FormationViolation", "undecodable")
      BY <1>1, <2>2 DEF Execute16, OnlyToCall
    <3> QED  BY <1>1, <3>1, ToldOutcomes
  <2> QED  BY <2>1, <2>2
<1>2. CASE seen.errors = {} /\ thrown # "nothing"
  <2>1. Execute16(seen, thrown) = Answered("CALLERROR", "GenericError", "failed")
    BY <1>2 DEF Execute16, OnlyToCall
  <2> QED  BY <1>2, <2>1, ToldOutcomes
<1>3. CASE seen.errors = {} /\ thrown = "nothing"
  <2>1. Execute16(seen, thrown) = Answered("CALLRESULT", "", "executed")
    BY <1>3 DEF Execute16
  <2>2. Answered("CALLRESULT", "", "executed").what = "executed"
    BY DEF Answered
  <2> QED  BY <2>1, <2>2, ToldOutcomes
<1> QED  BY <1>1, <1>2, <1>3

\* ChargePointImpl::message_callback: what it does with a CALL.
LEMMA Callback16Call ==
    ASSUME HandlingInv, message # None, message.messageTypeId = "CALL", version = "1.6",
           NEW seen, NEW thrown \in Throwable
    PROVE  CallFate(MessageCallback16(seen, thrown), seen, thrown)
<1> DEFINE type == message.messageType
<1>1. /\ optional \in BOOLEAN
      /\ connection_state \in {"Disconnected", "Connected", "Rejected", "Pending", "Booted"}
      /\ connection_state \in {"Rejected", "Pending"} => registration_status = connection_state
  BY DEF HandlingInv, RegistrationInv
<1>2. type # "BootNotificationResponse" /\ type \notin AnswerTypes
  BY CallIsNoAnswer
<1>3. CASE type \notin SupportedMessageTypesReceiving(optional)
  <2>1. MessageCallback16(seen, thrown) = Answered("CALLERROR", "NotSupported", "not implemented")
    BY <1>3 DEF MessageCallback16, OnlyToCall
  <2>2. ~HasHandler(type)
    BY <1>1, <1>3, HandledAreReceived
  <2> QED  BY <2>1, <2>2, ToldOutcomes DEF CallFate
<1>4. CASE type \in SupportedMessageTypesReceiving(optional)
  <2>1. type \in Handles16
    BY <1>1, <1>2, <1>4, ReceivedAreHandled
  <2>2. CASE connection_state = "Disconnected"
    <3>1. MessageCallback16(seen, thrown) = Silent("ignored")
      BY <1>4, <2>2 DEF MessageCallback16
    <3>2. Ignored(message, connection_state) /\ Silenced(message, connection_state)
      BY <2>2 DEF Ignored, Silenced
    <3> QED  BY <3>1, <3>2, ToldOutcomes DEF CallFate
  <2>3. CASE connection_state \in {"Connected", "Rejected"}
    <3>1. MessageCallback16(seen, thrown) = Dropped
      BY <1>1, <1>2, <1>4, <2>3 DEF MessageCallback16, NotYet
    <3>2. Ignored(message, connection_state) /\ Dropped.release
      BY <2>3 DEF Ignored, Dropped
    <3> QED  BY <3>1, <3>2, ToldOutcomes DEF CallFate
  <2>4. CallFate(Execute16(seen, thrown), seen, thrown)
    BY <2>1, Execute16Call DEF CallFate
  <2>5. CASE connection_state = "Pending"
    <3>1. CASE type \in {"RemoteStartTransaction", "RemoteStopTransaction"}
      <4>1. MessageCallback16(seen, thrown) = Answered("CALLRESULT", "Rejected", "refused")
        BY <1>1, <1>2, <1>4, <2>5, <3>1 DEF MessageCallback16
      <4> QED  BY <1>1, <2>5, <4>1, ToldOutcomes DEF CallFate
    <3>2. CASE type \notin {"RemoteStartTransaction", "RemoteStopTransaction"}
      BY <1>1, <1>2, <1>4, <2>4, <2>5, <3>2 DEF MessageCallback16
    <3> QED  BY <3>1, <3>2
  <2>6. CASE connection_state = "Booted"
    BY <1>4, <2>4, <2>6 DEF MessageCallback16
  <2> QED  BY <1>1, <2>2, <2>3, <2>5, <2>6
<1> QED  BY <1>3, <1>4

\* The outcome of the CALL that is handled.
LEMMA CallHandled ==
    ASSUME HandlingInv, message # None, message.messageTypeId = "CALL",
           NEW seen, NEW thrown \in Throwable
    PROVE  CallFate(Outcome(seen, thrown), seen, thrown)
BY Callback16Call, Callback2Call DEF Outcome

\* A BootNotificationResponse that is executed could be decoded.
LEMMA BootDecoded ==
    ASSUME HandlingInv, message # None, NEW seen \in SeenNow, NEW thrown \in Throwable,
           BootAnswered(Outcome(seen, thrown), seen)
    PROVE  seen.status \in Statuses
<1> DEFINE o == Outcome(seen, thrown)
<1>1. message.messageType = "BootNotificationResponse" /\ o.what \in {"executed", "failed"}
  BY DEF BootAnswered
<1>2. message.messageTypeId # "CALL"
  BY <1>1, CallIsNoAnswer
<1>3. version \in Versions /\ seen \in SeenPayloads(version, "BootNotificationResponse")
  BY <1>1, <1>2 DEF SeenNow, HandlingInv, RegistrationInv
<1>4. /\ \A what : Silent(what).what = what
      /\ NotYet = Silent("ignored") /\ NotImplemented = Silent("ignored")
      /\ \A kind, code, what : OnlyToCall(Answered(kind, code, what)) = Silent("ignored")
  BY <1>2 DEF Silent, NotYet, NotImplemented, OnlyToCall
<1>5. CASE version = "1.6" /\ seen.errors # {}
  <2>1. o = MessageCallback16(seen, thrown)
    BY <1>5 DEF Outcome
  <2>2. BootNotification16(seen) = Silent("undecodable")
    BY <1>5 DEF BootNotification16
  <2>3. "BootNotificationResponse" \notin Handles16
    BY DEF Handles16
  <2>4. Execute16(seen, thrown) = Silent("ignored")
    BY <1>1, <2>3 DEF Execute16
  <2>5. connection_state \in {"Disconnected", "Connected", "Rejected", "Pending", "Booted"}
    BY DEF HandlingInv, RegistrationInv
  <2>6. o = Silent("ignored") \/ o = Silent("undecodable")
    <3>1. CASE message.messageType \notin SupportedMessageTypesReceiving(optional)
      BY <1>4, <2>1, <3>1 DEF MessageCallback16
    <3>2. CASE message.messageType \in SupportedMessageTypesReceiving(optional)
      <4> USE <3>2 DEF MessageCallback16
      <4>1. CASE connection_state = "Disconnected"
        BY <2>1, <4>1
      <4>2. CASE connection_state = "Connected"
        BY <1>1, <2>1, <2>2, <4>2
      <4>3. CASE connection_state = "Rejected"
        BY <1>1, <2>1, <2>2, <4>3
      <4>4. CASE connection_state = "Pending"
        BY <1>1, <2>1, <2>2, <4>4
      <4>5. CASE connection_state = "Booted"
        BY <2>1, <2>4, <4>5
      <4> QED  BY <2>5, <4>1, <4>2, <4>3, <4>4, <4>5
    <3> QED  BY <3>1, <3>2
  <2>7. o.what \in {"ignored", "undecodable"}
    BY <1>4, <2>6
  <2> QED  BY <1>1, <2>7
<1>6. CASE version # "1.6" /\ seen.errors # {}
  <2>1. o = MessageCallback2(seen, thrown)
    BY <1>6 DEF Outcome
  <2>2. Execute2(seen, thrown) = Silent("ignored")
    BY <1>4, <1>6 DEF Execute2
  <2>3. HandleMessage2(seen, thrown) = Silent("ignored")
    BY <1>4, <2>2 DEF HandleMessage2
  <2>4. o = Silent("ignored")
    BY <1>1, <2>1, <2>2, <2>3 DEF MessageCallback2
  <2>5. o.what = "ignored"
    BY <1>4, <2>4
  <2> QED  BY <1>1, <2>5
<1> QED  BY <1>3, <1>5, <1>6, BootStatus

\* Handle, with its outcome.
LEMMA HandleOutcome ==
    ASSUME NEW seen, NEW thrown, Handle(seen, thrown)
    PROVE  LET o == Outcome(seen, thrown)
           IN  /\ message # None /\ message' = None
               /\ last' = [message |-> message, seen |-> seen, thrown |-> thrown, what |-> o.what,
                           registered |-> registration_status, connection |-> connection_state]
               /\ sent' = o.answer
               /\ next_message_to_send' =
                     IF o.release \/ (o.answer # << >> /\ next_message_to_send = message.id)
                     THEN NoId ELSE next_message_to_send
               /\ registration_status' = IF BootAnswered(o, seen) THEN seen.status
                                         ELSE registration_status
               /\ connection_state' =
                     IF version = "1.6" /\ BootAnswered(o, seen)
                     THEN (IF seen.status = "Accepted" THEN "Booted" ELSE seen.status)
                     ELSE connection_state
               /\ UNCHANGED <<version, optional, in_flight, pending>>
BY DEF Handle, Outcome, Idle

\* The invariant of the registration and of the message that is being handled.
LEMMA HandlingStep ==
    ASSUME HandlingInv, [Next]_vars
    PROVE  HandlingInv'
<1> USE DEF HandlingInv
<1>1. ASSUME NEW type \in CallTypes(version), ReceiveCall(type) PROVE HandlingInv'
  BY <1>1 DEF ReceiveCall, RegistrationInv, MessageInv
<1>2. ASSUME NEW why, ReceiveInvalid(why) PROVE HandlingInv'
  BY <1>2 DEF ReceiveInvalid, RegistrationInv, MessageInv
<1>3. ASSUME NEW call \in pending, NEW kind \in {"CALLRESULT", "CALLERROR"},
             ReceiveAnswer(call, kind)
      PROVE  HandlingInv'
  <2>1. message'.messageTypeId # "CALL" /\ next_message_to_send' = NoId
    BY <1>3 DEF ReceiveAnswer
  <2>2. RegistrationInv'
    BY <1>3 DEF ReceiveAnswer, RegistrationInv
  <2> QED  BY <2>1, <2>2 DEF MessageInv
<1>4. ASSUME NEW seen \in SeenNow, NEW thrown \in Throwable, Handle(seen, thrown)
      PROVE  HandlingInv'
  <2>1. MessageInv'
    BY <1>4, HandleOutcome DEF MessageInv
  <2>2. CASE BootAnswered(Outcome(seen, thrown), seen)
    <3>1. seen.status \in Statuses
      BY <1>4, <2>2, BootDecoded, HandleOutcome
    <3> QED  BY <1>4, <2>1, <2>2, <3>1, HandleOutcome DEF RegistrationInv, Statuses
  <2>3. CASE ~BootAnswered(Outcome(seen, thrown), seen)
    BY <1>4, <2>1, <2>3, HandleOutcome DEF RegistrationInv
  <2> QED  BY <2>2, <2>3
<1>5. ASSUME NEW type, NEW id, SendCall(type, id) PROVE HandlingInv'
  BY <1>5 DEF SendCall, RegistrationInv, MessageInv
<1>6. CASE Timeout
  BY <1>6 DEF Timeout, RegistrationInv, MessageInv
<1>7. CASE ConnectedCallback
  BY <1>7 DEF ConnectedCallback, RegistrationInv, MessageInv
<1>8. ASSUME NEW v, NEW errors, NEW loaded, Store(v, errors, loaded) PROVE HandlingInv'
  BY <1>8 DEF Store, RegistrationInv, MessageInv
<1>9. CASE UNCHANGED vars
  BY <1>9 DEF vars, RegistrationInv, MessageInv
<1> QED
  BY <1>1, <1>2, <1>3, <1>4, <1>5, <1>6, <1>7, <1>8, <1>9
  DEF Next, StoreStruct, StoreEnum, SeenNow, Throwable

-----------------------------------------------------------------------------
(* What has been sent.                                                     *)

SentInv == HandlingInv /\ AnsweredOnce /\ ErrorTellsWhy

LEMMA SentInit == Init => SentInv
<1> SUFFICES ASSUME Init PROVE AnsweredOnce /\ ErrorTellsWhy
  BY HandlingInit DEF SentInv
<1>1. ~HandledCall
  BY DEF Init, HandledCall, Handled
<1> QED  BY <1>1 DEF AnsweredOnce, ErrorTellsWhy

\* A step that leaves the last message and what was sent alone keeps both.
LEMMA SentKept ==
    ASSUME SentInv, UNCHANGED <<version, optional, last, sent>>
    PROVE  AnsweredOnce' /\ ErrorTellsWhy'
BY DEF SentInv, AnsweredOnce, ErrorTellsWhy, HandledCall, Handled, Ignored, HasHandler

\* So does one that forgets the last message.
LEMMA SentForgotten ==
    ASSUME last' = None \/ "message" \notin DOMAIN last'
    PROVE  AnsweredOnce' /\ ErrorTellsWhy'
BY DEF AnsweredOnce, ErrorTellsWhy, HandledCall, Handled

\* Handling a message: its fate is what was sent.
LEMMA SentHandled ==
    ASSUME HandlingInv, NEW seen \in SeenNow, NEW thrown \in Throwable, Handle(seen, thrown)
    PROVE  AnsweredOnce' /\ ErrorTellsWhy' /\ Released
<1> DEFINE o == Outcome(seen, thrown)
<1>1. /\ message # None /\ message' = None
      /\ last'.message = message /\ last'.seen = seen /\ last'.thrown = thrown
      /\ last'.what = o.what /\ last'.registered = registration_status
      /\ last'.connection = connection_state
      /\ sent' = o.answer /\ version' = version /\ optional' = optional
      /\ next_message_to_send' =
            IF o.release \/ (o.answer # << >> /\ next_message_to_send = message.id)
            THEN NoId ELSE next_message_to_send
  BY HandleOutcome
<1>2. /\ \A t : HasHandler(t)' = HasHandler(t)
      /\ \A m, c : Ignored(m, c)' = Ignored(m, c)
  BY <1>1 DEF HasHandler, Ignored
<1> HIDE DEF o
<1>3. CASE message.messageTypeId = "CALL"
  <2>1. CallFate(o, seen, thrown)
    BY <1>1, <1>3, CallHandled DEF o
  <2>2. AnsweredOnce'
    <3> SUFFICES ASSUME ~Ignored(last.message, last.connection)'
                 PROVE  Len(sent') = 1 /\ sent'[1].id = last'.message.id
      BY DEF AnsweredOnce
    <3>1. ~Ignored(message, connection_state)
      BY <1>1, <1>2
    <3>2. PICK kind, code : o.answer = <<Frame(kind, message.id, code)>>
      BY <2>1, <3>1 DEF CallFate, AnsweredHere
    <3> QED  BY <1>1, <3>2 DEF Frame
  <2>3. ErrorTellsWhy'
    BY <1>1, <1>2, <2>1 DEF ErrorTellsWhy, CallFate, Told
  <2>4. Released
    <3> SUFFICES ASSUME ~Silenced(message, connection_state) PROVE next_message_to_send' = NoId
      BY DEF Released
    <3>1. AnsweredHere(o) \/ o.release
      BY <2>1 DEF CallFate
    <3>2. AnsweredHere(o) => o.answer # << >>
      BY DEF AnsweredHere
    <3>3. next_message_to_send \in {NoId, message.id}
      BY <1>1, <1>3 DEF HandlingInv, MessageInv
    <3> QED  BY <1>1, <3>1, <3>2, <3>3
  <2> QED  BY <2>2, <2>3, <2>4
<1>4. CASE message.messageTypeId # "CALL"
  <2>1. ~HandledCall'
    BY <1>1, <1>4 DEF HandledCall
  <2>2. AnsweredOnce' /\ ErrorTellsWhy'
    BY <2>1 DEF AnsweredOnce, ErrorTellsWhy
  <2>3. next_message_to_send = NoId
    BY <1>1, <1>4 DEF HandlingInv, MessageInv
  <2> QED  BY <1>1, <2>2, <2>3 DEF Released
<1> QED  BY <1>3, <1>4

LEMMA SentStep ==
    ASSUME SentInv, [Next]_vars
    PROVE  SentInv' /\ Released
<1> SUFFICES AnsweredOnce' /\ ErrorTellsWhy' /\ Released
  BY HandlingStep DEF SentInv
<1>1. ASSUME NEW type \in CallTypes(version), ReceiveCall(type)
      PROVE  AnsweredOnce' /\ ErrorTellsWhy' /\ Released
  BY <1>1, SentForgotten DEF ReceiveCall, Released, Idle
<1>2. ASSUME NEW why, ReceiveInvalid(why)
      PROVE  AnsweredOnce' /\ ErrorTellsWhy' /\ Released
  <2>1. "message" \notin DOMAIN last'
    BY <1>2 DEF ReceiveInvalid
  <2> QED  BY <1>2, <2>1, SentForgotten DEF ReceiveInvalid, Released, Idle
<1>3. ASSUME NEW call \in pending, NEW kind, ReceiveAnswer(call, kind)
      PROVE  AnsweredOnce' /\ ErrorTellsWhy' /\ Released
  BY <1>3, SentForgotten DEF ReceiveAnswer, Released, Idle
<1>4. ASSUME NEW seen \in SeenNow, NEW thrown \in Throwable, Handle(seen, thrown)
      PROVE  AnsweredOnce' /\ ErrorTellsWhy' /\ Released
  BY <1>4, SentHandled DEF SentInv
<1>5. ASSUME NEW type, NEW id, SendCall(type, id)
      PROVE  AnsweredOnce' /\ ErrorTellsWhy' /\ Released
  BY <1>5, SentKept DEF SendCall, Released
<1>6. ASSUME Timeout PROVE AnsweredOnce' /\ ErrorTellsWhy' /\ Released
  BY <1>6, SentKept DEF Timeout, Released
<1>7. ASSUME ConnectedCallback PROVE AnsweredOnce' /\ ErrorTellsWhy' /\ Released
  BY <1>7, SentKept DEF ConnectedCallback, Released
<1>8. ASSUME NEW v, NEW errors, NEW loaded, Store(v, errors, loaded)
      PROVE  AnsweredOnce' /\ ErrorTellsWhy' /\ Released
  <2>1. "message" \notin DOMAIN last'
    BY <1>8 DEF Store
  <2> QED  BY <1>8, <2>1, SentForgotten DEF Store, Released, Idle
<1>9. ASSUME UNCHANGED vars PROVE AnsweredOnce' /\ ErrorTellsWhy' /\ Released
  BY <1>9, SentKept DEF vars, Released
<1> QED
  BY <1>1, <1>2, <1>3, <1>4, <1>5, <1>6, <1>7, <1>8, <1>9
  DEF Next, StoreStruct, StoreEnum, SeenNow, Throwable

\* The code of a CALLERROR tells why: FormationViolation that the payload does not decode,
\* NotImplemented or NotSupported that there is no handler, SecurityError that the registration is
\* not accepted; and a CALL that has a handler, decodes and does not throw is executed once it is
\* (message_callback and handle_message of both versions, and of every functional block).
THEOREM ErrorsTellWhy == Spec => []ErrorTellsWhy
<1>1. SentInv => ErrorTellsWhy
  BY DEF SentInv
<1> QED  BY <1>1, SentInit, SentStep, PTL DEF Spec

\* A CALL of the CSMS comes to an end: it gets exactly one answer, and the worker, which waits for
\* that answer to be sent first, is released, on every path through message_callback and the
\* handlers that does not ignore the CALL.
THEOREM CallsComeToAnEnd == Spec => CallsEnd
<1>1. SentInv /\ [Next]_vars => [AnsweredOnce' /\ Released]_vars
  BY SentStep DEF SentInv
<1> QED  BY <1>1, SentInit, SentStep, PTL DEF Spec, CallsEnd

-----------------------------------------------------------------------------
(* Conversions: what to_json writes, from_json reads back.                 *)

\* The C++ values of a type, as the conversions see them.
IsValue(type, v) ==
    CASE Kind(type) = "enum" -> v \in 1..Len(type.enum)
      [] Kind(type) = "datetime" -> v = [timepoint |-> "time"]
      [] Kind(type) = "cistring" -> \E d, n : n \in 0..type.ci /\ v = [data |-> d, length |-> n]
      [] Kind(type) = "text" -> \E d, n : v = [data |-> d, length |-> n]
      [] Kind(type) = "struct" -> v = JNested({})
      [] Kind(type) = "bool" -> v = JBool
      [] OTHER -> v = JNumber
IsMember(type, v) ==
    IF Kind(type) # "many" THEN IsValue(type, v)
    ELSE v = [i \in DOMAIN v |-> v[i]] /\ \A i \in DOMAIN v : IsValue(type.many, v[i])

\* The values of a struct: its required members, and some of the optional ones.
IsStruct(type, v) ==
    /\ v = [f \in DOMAIN v |-> v[f]]
    /\ DOMAIN type.required \subseteq DOMAIN v /\ DOMAIN v \subseteq Fields(type)
    /\ \A f \in DOMAIN v : IsMember(FieldType(type, f), v[f])

\* A well formed type is of exactly one kind.
LEMMA Kinds ==
    ASSUME NEW type, ValueForm(type)
    PROVE  /\ Kind(type) \in {"number", "bool", "text", "datetime", "json", "cistring", "enum", "struct"}
           /\ Kind(type) = "cistring" => type.ci \in Nat
           /\ Kind(type) = "enum" => EnumForm(type)
<1>1. CASE DOMAIN type = {"scalar"} /\ type.scalar \in {"number", "bool", "text", "datetime", "json"}
  BY <1>1 DEF Kind
<1>2. CASE DOMAIN type = {"ci"} /\ type.ci \in Nat
  <2>1. Kind(type) = "cistring"
    BY <1>2 DEF Kind
  <2> QED  BY <1>2, <2>1
<1>3. CASE EnumForm(type)
  <2>1. Kind(type) = "enum"
    BY <1>3 DEF Kind, EnumForm
  <2> QED  BY <1>3, <2>1
<1>4. CASE DOMAIN type = {"required", "optional"}
  <2>1. Kind(type) = "struct"
    BY <1>4 DEF Kind
  <2> QED  BY <2>1
<1> QED  BY <1>1, <1>2, <1>3, <1>4 DEF ValueForm

\* An enumerator is found again by its string: no other one has it.
LEMMA EnumRoundTrip ==
    ASSUME NEW type, EnumForm(type), NEW e \in 1..Len(type.enum)
    PROVE  /\ IsEnumString(type, EnumToString(type, e))
           /\ StringToEnum(type, EnumToString(type, e)) = e
<1>1. DOMAIN type.enum = 1..Len(type.enum)
  BY DEF EnumForm
<1> QED  BY <1>1 DEF EnumForm, IsEnumString, EnumToString, StringToEnum

\* A value is written and read back without an exception.
LEMMA ValueRoundTrip ==
    ASSUME NEW type, ValueForm(type), NEW v, IsValue(type, v)
    PROVE  /\ ValueErrors(type, WriteValue(type, v)) = {}
           /\ ReadValue(type, WriteValue(type, v)) = v
<1>1. /\ Kind(type) \in {"number", "bool", "text", "datetime", "json", "cistring", "enum", "struct"}
      /\ Kind(type) = "cistring" => type.ci \in Nat
      /\ Kind(type) = "enum" => EnumForm(type)
  BY Kinds
<1>2. CASE Kind(type) \in {"number", "json"}
  <2>1. v = JNumber /\ WriteValue(type, v) = v
    BY <1>2 DEF IsValue, WriteValue
  <2> QED  BY <1>2, <2>1 DEF ValueErrors, ReadValue, JNumber
<1>3. CASE Kind(type) = "bool"
  <2>1. v = JBool /\ WriteValue(type, v) = v
    BY <1>3 DEF IsValue, WriteValue
  <2> QED  BY <1>3, <2>1 DEF ValueErrors, ReadValue, JBool
<1>4. CASE Kind(type) = "struct"
  <2>1. v = JNested({}) /\ WriteValue(type, v) = v
    BY <1>4 DEF IsValue, WriteValue
  <2> QED  BY <1>4, <2>1 DEF ValueErrors, ReadValue, JNested
<1>5. CASE Kind(type) = "text"
  <2>1. PICK d, n : v = [data |-> d, length |-> n]
    BY <1>5 DEF IsValue
  <2>2. WriteValue(type, v) = JString(d, n)
    BY <1>5, <2>1 DEF WriteValue
  <2> QED  BY <1>5, <2>1, <2>2 DEF ValueErrors, ReadValue, JString
<1>6. CASE Kind(type) = "cistring"
  <2>1. PICK d, n : n \in 0..type.ci /\ v = [data |-> d, length |-> n]
    BY <1>6 DEF IsValue
  <2>2. WriteValue(type, v) = JString(d, n)
    BY <1>6, <2>1 DEF WriteValue
  <2>3. ~(n > type.ci)
    BY <1>1, <1>6, <2>1
  <2>4. JString(d, n).length = n /\ JString(d, n).json = "string" /\ JString(d, n).text = d
    BY DEF JString
  <2>5. ValueErrors(type, JString(d, n)) = {}
    BY <1>6, <2>3, <2>4 DEF ValueErrors
  <2>6. ReadValue(type, JString(d, n)) = [data |-> d, length |-> n]
    BY <1>6, <2>4 DEF ReadValue
  <2> QED  BY <2>1, <2>2, <2>5, <2>6
<1>7. CASE Kind(type) = "datetime"
  <2>1. v = [timepoint |-> "time"]
    BY <1>7 DEF IsValue
  <2>2. WriteValue(type, v) = JString("time", 0)
    BY <1>7, <2>1 DEF WriteValue
  <2> QED  BY <1>7, <2>1, <2>2 DEF ValueErrors, ReadValue, JString
<1>8. CASE Kind(type) = "enum"
  <2>1. v \in 1..Len(type.enum) /\ EnumForm(type)
    BY <1>1, <1>8 DEF IsValue
  <2>2. WriteValue(type, v) = JString(EnumToString(type, v), 0)
    BY <1>8 DEF WriteValue
  <2>3. /\ JString(EnumToString(type, v), 0).json = "string"
        /\ JString(EnumToString(type, v), 0).text = EnumToString(type, v)
    BY DEF JString
  <2>4. /\ IsEnumString(type, EnumToString(type, v))
        /\ StringToEnum(type, EnumToString(type, v)) = v
    BY <2>1, EnumRoundTrip
  <2>5. ValueErrors(type, WriteValue(type, v)) = {}
    BY <1>8, <2>2, <2>3, <2>4 DEF ValueErrors
  <2>6. ReadValue(type, WriteValue(type, v)) = v
    BY <1>8, <2>2, <2>3, <2>4 DEF ReadValue
  <2> QED  BY <2>5, <2>6
<1> QED  BY <1>1, <1>2, <1>3, <1>4, <1>5, <1>6, <1>7, <1>8

\* So is a member of a struct, a vector of values included.
LEMMA MemberRoundTrip ==
    ASSUME NEW type, MemberForm(type), NEW v, IsMember(type, v)
    PROVE  /\ MemberErrors(type, WriteMember(type, v)) = {}
           /\ ReadMember(type, WriteMember(type, v)) = v
<1>1. CASE ValueForm(type)
  <2>1. Kind(type) # "many"
    BY <1>1, Kinds
  <2>2. IsValue(type, v)
    BY <2>1 DEF IsMember
  <2>3. /\ ValueErrors(type, WriteValue(type, v)) = {}
        /\ ReadValue(type, WriteValue(type, v)) = v
    BY <1>1, <2>2, ValueRoundTrip
  <2> QED  BY <2>1, <2>3 DEF MemberErrors, ReadMember, WriteMember
<1>2. CASE DOMAIN type = {"many"} /\ ValueForm(type.many)
  <2>1. Kind(type) = "many"
    BY <1>2 DEF Kind
  <2> DEFINE W == [i \in DOMAIN v |-> WriteValue(type.many, v[i])]
             R == [i \in DOMAIN W |-> ReadValue(type.many, W[i])]
  <2>2. v = [i \in DOMAIN v |-> v[i]] /\ \A i \in DOMAIN v : IsValue(type.many, v[i])
    BY <2>1 DEF IsMember
  <2>3. \A i \in DOMAIN v : /\ ValueErrors(type.many, W[i]) = {}
                            /\ ReadValue(type.many, W[i]) = v[i]
    BY <1>2, <2>2, ValueRoundTrip
  <2>4. WriteMember(type, v) = JArray(W)
    BY <2>1 DEF WriteMember
  <2>5. JArray(W).json = "array" /\ JArray(W).items = W
    BY DEF JArray
  <2>6. DOMAIN W = DOMAIN v
    OBVIOUS
  <2>7. R = v
    <3>1. R = [i \in DOMAIN v |-> v[i]]
      BY <2>3, <2>6
    <3> QED  BY <2>2, <3>1
  <2> HIDE DEF W
  <2>8. MemberErrors(type, JArray(W)) = UNION {ValueErrors(type.many, W[i]) : i \in DOMAIN W}
    BY <2>1, <2>5 DEF MemberErrors
  <2>9. UNION {ValueErrors(type.many, W[i]) : i \in DOMAIN W} = {}
    BY <2>3, <2>6
  <2>10. ReadMember(type, JArray(W)) = R
    BY <2>1, <2>5 DEF ReadMember
  <2> QED  BY <2>4, <2>7, <2>8, <2>9, <2>10
<1> QED  BY <1>1, <1>2 DEF MemberForm

\* Every value of a struct is read back as it was written, without an exception: to_json and
\* from_json are inverse on every type whose table is well formed, whichever of its optional members
\* are set and whatever the members are.
THEOREM StructRoundTrip ==
    ASSUME NEW type, StructForm(type), NEW v, IsStruct(type, v)
    PROVE  /\ Errors(type, ToJson(type, v)) = {}
           /\ FromJson(type, ToJson(type, v)) = v
<1> DEFINE W == [f \in DOMAIN v |-> WriteMember(FieldType(type, f), v[f])]
           j == JObject(W)
<1>1. /\ v = [f \in DOMAIN v |-> v[f]]
      /\ DOMAIN type.required \subseteq DOMAIN v /\ DOMAIN v \subseteq Fields(type)
  BY DEF IsStruct
<1>2. ToJson(type, v) = j
  BY DEF ToJson
<1>3. j.json = "object" /\ j.fields = W /\ DOMAIN W = DOMAIN v
  BY DEF JObject
<1>4. Keys(j) = DOMAIN v /\ Fields(type) \intersect Keys(j) = DOMAIN v
  BY <1>1, <1>3 DEF Keys
<1>5. \A f \in DOMAIN v : /\ MemberErrors(FieldType(type, f), W[f]) = {}
                          /\ ReadMember(FieldType(type, f), W[f]) = v[f]
  <2> SUFFICES ASSUME NEW f \in DOMAIN v
               PROVE  /\ MemberErrors(FieldType(type, f), W[f]) = {}
                      /\ ReadMember(FieldType(type, f), W[f]) = v[f]
    OBVIOUS
  <2>1. MemberForm(FieldType(type, f)) /\ IsMember(FieldType(type, f), v[f])
    BY <1>1 DEF StructForm, IsStruct
  <2>2. W[f] = WriteMember(FieldType(type, f), v[f])
    OBVIOUS
  <2> HIDE DEF W
  <2> QED  BY <2>1, <2>2, MemberRoundTrip
<1> HIDE DEF W, j
<1>6. Errors(type, j) = {}
  BY <1>1, <1>3, <1>4, <1>5 DEF Errors
<1>7. FromJson(type, j) = v
  <2>1. FromJson(type, j) = [f \in DOMAIN v |-> ReadMember(FieldType(type, f), W[f])]
    BY <1>3, <1>4 DEF FromJson
  <2>2. [f \in DOMAIN v |-> ReadMember(FieldType(type, f), W[f])] = [f \in DOMAIN v |-> v[f]]
    BY <1>5
  <2> QED  BY <1>1, <2>1, <2>2
<1> QED  BY <1>2, <1>6, <1>7

\* The samples are values of their types.
LEMMA SampleIsValue ==
    ASSUME NEW type, ValueForm(type)
    PROVE  IsValue(type, SampleValue(type))
<1>1. /\ Kind(type) \in {"number", "bool", "text", "datetime", "json", "cistring", "enum", "struct"}
      /\ Kind(type) = "cistring" => type.ci \in Nat
      /\ Kind(type) = "enum" => EnumForm(type)
  BY Kinds
<1>2. CASE Kind(type) = "enum"
  <2>1. Len(type.enum) \in 1..Len(type.enum)
    BY <1>1, <1>2 DEF EnumForm
  <2> QED  BY <1>2, <2>1 DEF IsValue, SampleValue
<1>3. CASE Kind(type) = "cistring"
  <2>1. SampleValue(type) = [data |-> "text", length |-> type.ci]
    BY <1>3 DEF SampleValue
  <2>2. type.ci \in 0..type.ci
    BY <1>1, <1>3
  <2>3. \E d, n : n \in 0..type.ci /\ SampleValue(type) = [data |-> d, length |-> n]
    BY <2>1, <2>2
  <2> QED  BY <1>3, <2>3 DEF IsValue
<1>4. CASE Kind(type) = "text"
  <2>1. SampleValue(type) = [data |-> "text", length |-> 0]
    BY <1>4 DEF SampleValue
  <2>2. \E d, n : SampleValue(type) = [data |-> d, length |-> n]
    BY <2>1
  <2> QED  BY <1>4, <2>2 DEF IsValue
<1>5. CASE Kind(type) \in {"number", "bool", "datetime", "json", "struct"}
  BY <1>5 DEF IsValue, SampleValue
<1> QED  BY <1>1, <1>2, <1>3, <1>4, <1>5

LEMMA SampleIsMember ==
    ASSUME NEW type, MemberForm(type)
    PROVE  IsMember(type, SampleMember(type))
<1>1. CASE ValueForm(type)
  <2>1. Kind(type) # "many"
    BY <1>1, Kinds
  <2> QED  BY <1>1, <2>1, SampleIsValue DEF IsMember, SampleMember
<1>2. CASE DOMAIN type = {"many"} /\ ValueForm(type.many)
  <2>1. Kind(type) = "many"
    BY <1>2 DEF Kind
  <2> DEFINE x == SampleValue(type.many)
  <2>2. SampleMember(type) = <<x, x>>
    BY <2>1 DEF SampleMember
  <2>3. IsValue(type.many, x)
    BY <1>2, SampleIsValue
  <2> HIDE DEF x
  <2>4. /\ <<x, x>> = [i \in DOMAIN <<x, x>> |-> <<x, x>>[i]]
        /\ \A i \in DOMAIN <<x, x>> : <<x, x>>[i] = x
    OBVIOUS
  <2> QED  BY <2>1, <2>2, <2>3, <2>4 DEF IsMember
<1> QED  BY <1>1, <1>2 DEF MemberForm

LEMMA SampleIsStruct ==
    ASSUME NEW type, StructForm(type), NEW full \in BOOLEAN
    PROVE  IsStruct(type, Sample(type, full))
<1> DEFINE D == IF full THEN Fields(type) ELSE DOMAIN type.required
           v == [f \in D |-> SampleMember(FieldType(type, f))]
<1>1. Sample(type, full) = v
  BY DEF Sample
<1>2. DOMAIN type.required \subseteq D /\ D \subseteq Fields(type)
  BY DEF Fields
<1>3. \A f \in D : IsMember(FieldType(type, f), SampleMember(FieldType(type, f)))
  BY <1>2, SampleIsMember DEF StructForm
<1> HIDE DEF D
<1>4. DOMAIN v = D /\ \A f \in D : v[f] = SampleMember(FieldType(type, f))
  OBVIOUS
<1>5. v = [f \in DOMAIN v |-> v[f]]
  OBVIOUS
<1> HIDE DEF v
<1> QED  BY <1>1, <1>2, <1>3, <1>4, <1>5 DEF IsStruct

LEMMA RoundTripStep ==
    ASSUME RoundTrip, [Next]_vars
    PROVE  RoundTrip'
<1>1. ASSUME last' = None \/ "loaded" \notin DOMAIN last' PROVE RoundTrip'
  BY <1>1 DEF RoundTrip
<1>2. ASSUME last' = last PROVE RoundTrip'
  BY <1>2 DEF RoundTrip
<1>3. ASSUME NEW v, Store(v, {}, v) PROVE RoundTrip'
  BY <1>3 DEF Store, RoundTrip
<1>4. ASSUME NEW type, ReceiveCall(type) PROVE RoundTrip'
  BY <1>1, <1>4 DEF ReceiveCall
<1>5. ASSUME NEW why, ReceiveInvalid(why) PROVE RoundTrip'
  BY <1>1, <1>5 DEF ReceiveInvalid
<1>6. ASSUME NEW call \in pending, NEW kind, ReceiveAnswer(call, kind) PROVE RoundTrip'
  BY <1>1, <1>6 DEF ReceiveAnswer
<1>7. ASSUME NEW seen, NEW thrown, Handle(seen, thrown) PROVE RoundTrip'
  BY <1>1, <1>7, HandleOutcome
<1>8. ASSUME NEW type, NEW id, SendCall(type, id) PROVE RoundTrip'
  BY <1>2, <1>8 DEF SendCall
<1>9. CASE Timeout
  BY <1>2, <1>9 DEF Timeout
<1>10. CASE ConnectedCallback
  BY <1>2, <1>10 DEF ConnectedCallback
<1>11. ASSUME NEW g \in DOMAIN AllStructs, NEW name \in DOMAIN AllStructs[g], NEW full \in BOOLEAN,
              StoreStruct(AllStructs[g][name], Sample(AllStructs[g][name], full))
       PROVE  RoundTrip'
  <2> DEFINE type == AllStructs[g][name]
             v == Sample(type, full)
  <2>1. StructForm(type)
    BY TablesAssumption
  <2>2. Store(v, Errors(type, ToJson(type, v)), FromJson(type, ToJson(type, v)))
    BY <1>11 DEF StoreStruct
  <2> HIDE DEF type
  <2>3. Errors(type, ToJson(type, v)) = {} /\ FromJson(type, ToJson(type, v)) = v
    BY <2>1, SampleIsStruct, StructRoundTrip
  <2> QED  BY <1>3, <2>2, <2>3
<1>12. ASSUME NEW g \in DOMAIN AllEnums, NEW name \in DOMAIN AllEnums[g],
              NEW e \in 1..Len(AllEnums[g][name].enum), StoreEnum(AllEnums[g][name], e)
       PROVE  RoundTrip'
  <2> DEFINE type == AllEnums[g][name]
  <2>1. EnumForm(type)
    BY TablesAssumption
  <2>2. Store(e, ValueErrors(type, WriteValue(type, e)), ReadValue(type, WriteValue(type, e)))
    BY <1>12 DEF StoreEnum
  <2>3. e \in 1..Len(type.enum)
    OBVIOUS
  <2> HIDE DEF type
  <2>4. Kind(type) = "enum"
    BY <2>1 DEF EnumForm, Kind
  <2>5. ValueForm(type) /\ IsValue(type, e)
    BY <2>1, <2>3, <2>4 DEF ValueForm, IsValue
  <2>6. ValueErrors(type, WriteValue(type, e)) = {} /\ ReadValue(type, WriteValue(type, e)) = e
    BY <2>5, ValueRoundTrip
  <2> QED  BY <1>3, <2>2, <2>6
<1>13. CASE UNCHANGED vars
  BY <1>2, <1>13 DEF vars
<1> QED
  BY <1>4, <1>5, <1>6, <1>7, <1>8, <1>9, <1>10, <1>11, <1>12, <1>13 DEF Next

\* What to_json writes, from_json reads back to the same value, for every type and every enumerator
\* of both versions: charging profiles, network profiles and queued messages survive the database.
THEOREM RoundTrips == Spec => []RoundTrip
<1>1. Init => RoundTrip
  BY DEF Init, RoundTrip
<1> QED  BY <1>1, RoundTripStep, PTL DEF Spec

=============================================================================
