------------------------ MODULE ChargePoint16_proofs ------------------------
(***************************************************************************)
(* Proofs about ChargePoint16, for any number of connectors, errors and    *)
(* events: the types of its variables, and that the CSMS knows the status  *)
(* of every connector of a registered station that is online.              *)
(***************************************************************************)
EXTENDS ChargePoint16, TLAPS

-----------------------------------------------------------------------------
(* The state machine *)

LEMMA DestinationIsState ==
    ASSUME NEW e, NEW s \in Sources(e)
    PROVE  Destination[e] \in States
<1>1. e \in {"UsageInitiated", "StartCharging", "PauseChargingEV", "PauseChargingEVSE", "ReserveConnector",
             "ReservationEnd", "TransactionStoppedAndUserActionRequired", "ChangeAvailabilityToUnavailable",
             "BecomeAvailable"}
  BY DEF Sources
<1>2. QED
  BY <1>1 DEF Destination, States

\* The types of what the state machines and their timers hold.
StatusTypes ==
    /\ fsm \in [All -> States] /\ timer \in [All -> Shown \cup {None}]
    /\ reported \in [All -> Shown]
    /\ errors \in [All -> SUBSET Errors]

\* Whatever events are submitted, the states and the timers keep their types; a status that is to be
\* reported is the one the connector shows, and a connector without one shows what it showed.
LEMMA SubmitParts ==
    ASSUME NEW event, Submit(event), StatusTypes, UNCHANGED errors
    PROVE  /\ fsm' \in [All -> States] /\ timer' \in [All -> Shown \cup {None}]
           /\ \A c \in All : /\ timer'[c] # timer[c] => timer'[c] = Status(c)'
                             /\ timer'[c] = timer[c] => timer'[c] = Status(c)' \/ Status(c)' = Status(c)
<1> DEFINE moved == {c \in All : fsm[c] \in Sources(event[c])}
<1>1. /\ fsm' = [c \in All |-> IF c \in moved THEN Destination[event[c]] ELSE fsm[c]]
      /\ timer' = [c \in All |-> IF c \in moved /\ ~IsFaulted(errors[c]) THEN Destination[event[c]] ELSE timer[c]]
  BY DEF Submit
<1>2. \A c \in moved : Destination[event[c]] \in States
  BY DestinationIsState
<1> HIDE DEF moved
<1>3. fsm' \in [All -> States] /\ timer' \in [All -> Shown \cup {None}]
  BY <1>1, <1>2 DEF StatusTypes, Shown
<1>4. ASSUME NEW c \in All
      PROVE  /\ timer'[c] # timer[c] => timer'[c] = Status(c)'
             /\ timer'[c] = timer[c] => timer'[c] = Status(c)' \/ Status(c)' = Status(c)
  <2>1. CASE IsFaulted(errors[c])
    BY <1>1, <2>1 DEF Status, IsFaulted
  <2>2. CASE ~IsFaulted(errors[c]) /\ c \in moved
    BY <1>1, <2>2 DEF Status, IsFaulted
  <2>3. CASE ~IsFaulted(errors[c]) /\ c \notin moved
    BY <1>1, <2>3 DEF Status, IsFaulted
  <2>4. QED
    BY <2>1, <2>2, <2>3
<1>5. QED
  BY <1>3, <1>4

-----------------------------------------------------------------------------
(* Types *)

\* Every StopTransaction.conf that is owed, and every session that may still lead to one, stands for
\* one of the events that were spent: there are never more than MaxEvents.
StopsSpent ==
    \A c \in Connectors :
        stopConfs[c] + (IF session[c] \in {"session", "transaction"} THEN 1 ELSE 0) <= used

TypeInv == TypeOK /\ StopsSpent

LEMMA TypesOf ==
    ASSUME TypeInv
    PROVE  /\ StatusTypes
           /\ session \in [Connectors -> {"none", "session", "transaction", "over"}]
           /\ stopConfs \in [Connectors -> 0..MaxEvents]
           /\ queue \in [Connectors -> [type : Types, persist : BOOLEAN] \cup {None}]
           /\ wish \in [Connectors -> Types \cup {None}]
           /\ db \in [All -> Types] /\ requested \in [All -> Types]
           /\ rx \in {<<"idle">>} \cup ({"queue"} \X Types \X (SUBSET Connectors) \X (SUBSET All))
                                  \cup ({"execute"} \X Types \X (SUBSET All))
           /\ used \in 0..MaxEvents
           /\ MaxEvents \in Nat /\ Connectors \subseteq All
BY ChargePointAssumption DEF TypeInv, TypeOK, StatusTypes, Connectors, All

\* The steps that submit events.
LEMMA SubmitSteps ==
    ASSUME NEW event, Submit(event), TypeInv, UNCHANGED <<errors, reported>>
    PROVE  StatusTypes'
BY SubmitParts, TypesOf DEF StatusTypes

\* execute_queued_availability_change keeps the types.
LEMMA QueuedChangeTypes ==
    ASSUME TypeInv, NEW c \in Connectors
    PROVE  /\ Dequeued(c) \in [Connectors -> [type : Types, persist : BOOLEAN] \cup {None}]
           /\ DbAfter(c) \in [All -> Types]
           /\ WishAfter(c) \in [Connectors -> Types \cup {None}]
<1>1. /\ queue \in [Connectors -> [type : Types, persist : BOOLEAN] \cup {None}]
      /\ wish \in [Connectors -> Types \cup {None}] /\ db \in [All -> Types] /\ c \in All
  BY TypesOf
<1>2. queue[c] # None => queue[c].type \in Types
  BY <1>1
<1>3. QED
  BY <1>1, <1>2 DEF Dequeued, DbAfter, WishAfter

\* So does the update of the firmware.
LEMMA FirmwareTypes ==
    ASSUME NEW q \in [Connectors -> [type : Types, persist : BOOLEAN] \cup {None}],
           NEW w \in [Connectors -> Types \cup {None}]
    PROVE  /\ TakenOut(q) \in [Connectors -> [type : Types, persist : BOOLEAN] \cup {None}]
           /\ Disabled(w) \in [Connectors -> Types \cup {None}]
           /\ Restored(w) \in [Connectors -> Types \cup {None}]
<1>1. \E persist \in BOOLEAN : persist = FALSE
  OBVIOUS
<1>2. PICK entry \in [type : Types, persist : BOOLEAN] : entry = [type |-> "Inoperative", persist |-> FALSE]
  BY <1>1 DEF Types
<1>3. TakenOut(q) = [c \in Connectors |-> IF c \in Busy THEN entry ELSE q[c]]
  BY <1>2 DEF TakenOut
<1>4. TakenOut(q) \in [Connectors -> [type : Types, persist : BOOLEAN] \cup {None}]
  BY <1>3
<1>5. "Operative" \in Types /\ "Inoperative" \in Types
  BY DEF Types
<1>6. QED
  BY <1>4, <1>5 DEF Disabled, Restored

LEMMA NextTypeInv == TypeInv /\ [Next]_vars => TypeInv'
<1> SUFFICES ASSUME TypeInv, [Next]_vars
             PROVE  TypeInv'
  OBVIOUS
<1> DEFINE Entries == [type : Types, persist : BOOLEAN] \cup {None}
           Sessions == {"none", "session", "transaction", "over"}
           Handled == {<<"idle">>} \cup ({"queue"} \X Types \X (SUBSET Connectors) \X (SUBSET All))
                                   \cup ({"execute"} \X Types \X (SUBSET All))
           RegTypes == /\ pending \in BOOLEAN /\ ready \in BOOLEAN /\ online \in BOOLEAN
                       /\ state \in {"Disconnected", "Connected", "Pending", "Rejected", "Booted"}
                       /\ boot \in {"queued", "timer", "none"}
           ChangeTypes == /\ queue \in [Connectors -> Entries] /\ wish \in [Connectors -> Types \cup {None}]
                          /\ db \in [All -> Types] /\ requested \in [All -> Types] /\ rx \in Handled
           StopTypes == /\ session \in [Connectors -> Sessions]
                        /\ stopConfs \in [Connectors -> Nat]
                        /\ used \in 0..MaxEvents
                        /\ StopsSpent
<1>1. StatusTypes /\ RegTypes /\ ChangeTypes /\ StopTypes /\ MaxEvents \in Nat /\ Connectors \subseteq All
      /\ session \in [Connectors -> Sessions] /\ used \in 0..MaxEvents
  <2>1. stopConfs \in [Connectors -> Nat]
    BY TypesOf
  <2>2. QED
    BY <2>1, TypesOf DEF TypeInv, TypeOK
<1>2. ASSUME StatusTypes', RegTypes', ChangeTypes', StopTypes'
      PROVE  TypeInv'
  <2>1. stopConfs' \in [Connectors -> 0..MaxEvents]
    <3>1. ASSUME NEW c \in Connectors
          PROVE  stopConfs'[c] \in 0..MaxEvents
      <4>1. stopConfs'[c] \in Nat /\ used' \in 0..MaxEvents
        BY <1>2
      <4>2. PICK k \in {0, 1} : stopConfs'[c] + k <= used'
        BY <1>2 DEF StopsSpent
      <4>3. QED
        BY <1>1, <4>1, <4>2
    <3>2. QED
      BY <1>2, <3>1
  <2>2. QED
    BY <1>2, <2>1 DEF TypeInv, TypeOK, StatusTypes
<1>3. UNCHANGED <<fsm, timer, reported, errors>> => StatusTypes'
  BY <1>1 DEF StatusTypes
<1>4. UNCHANGED <<pending, ready, online, state, boot>> => RegTypes'
  BY <1>1
<1>5. UNCHANGED <<availability, requested, rx>> => ChangeTypes'
  BY <1>1 DEF availability
<1>6. UNCHANGED <<session, stopConfs>> /\ (UNCHANGED used \/ Spend) => StopTypes'
  <2>1. SUFFICES ASSUME UNCHANGED <<session, stopConfs>>, UNCHANGED used \/ Spend
                 PROVE  StopTypes'
    OBVIOUS
  <2>2. used' \in 0..MaxEvents /\ used <= used'
    BY <1>1, <2>1 DEF Spend
  <2>3. \A c \in Connectors : stopConfs[c] \in Nat
    BY <1>1
  <2>4. StopsSpent'
    BY <1>1, <2>1, <2>2, <2>3 DEF StopsSpent
  <2>5. QED
    BY <1>1, <2>1, <2>2, <2>4
<1> HIDE DEF RegTypes, ChangeTypes, StopTypes, Handled
<1>7. CASE UNCHANGED vars
  <2>1. UNCHANGED <<fsm, timer, reported, errors>> /\ UNCHANGED <<pending, ready, online, state, boot>>
        /\ UNCHANGED <<availability, requested, rx>> /\ UNCHANGED <<session, stopConfs>> /\ UNCHANGED used
    BY <1>7 DEF vars, status, availability, firmware, link
  <2>2. QED
    BY <1>2, <1>3, <1>4, <1>5, <1>6, <2>1
<1>8. CASE ErrorNext
  <2>1. /\ UNCHANGED <<pending, ready, online, state, boot>> /\ UNCHANGED <<availability, requested, rx>>
        /\ UNCHANGED <<session, stopConfs>> /\ (UNCHANGED used \/ Spend)
    BY <1>8 DEF ErrorNext, OnError, OnErrorCleared, OnAllErrorsCleared, firmware, link
  <2>2. ASSUME NEW c \in All, NEW e \in Errors, OnError(c, e) \/ OnErrorCleared(c, e)
        PROVE  StatusTypes'
    <3>1. errors' \in [All -> SUBSET Errors]
      BY <1>1, <2>2 DEF OnError, OnErrorCleared, StatusTypes
    <3>2. /\ timer' = timer \/ timer' = [timer EXCEPT ![c] = "Faulted"] \/ timer' = [timer EXCEPT ![c] = fsm[c]]
          /\ UNCHANGED <<fsm, reported>>
      BY <1>1, <2>2 DEF OnError, OnErrorCleared, Cleared, link
    <3>3. QED
      BY <1>1, <3>1, <3>2 DEF StatusTypes, Shown
  <2>3. ASSUME NEW c \in All, OnAllErrorsCleared(c)
        PROVE  StatusTypes'
    BY <1>1, <2>3 DEF OnAllErrorsCleared, StatusTypes, Shown, link
  <2>4. StatusTypes'
    BY <1>8, <2>2, <2>3 DEF ErrorNext
  <2>5. QED
    BY <1>2, <1>4, <1>5, <1>6, <2>1, <2>4
<1>9. CASE LinkNext
  <2>1. /\ UNCHANGED <<availability, requested, rx>> /\ UNCHANGED <<session, stopConfs>>
        /\ (UNCHANGED used \/ Spend) /\ UNCHANGED <<fsm, errors>>
    BY <1>9 DEF LinkNext, StatusTimer, Connected, Disconnected, BootAccepted, BootTimer, TriggerBoot, BootNotAccepted,
                status
  <2>2. RegTypes'
    BY <1>1, <1>9 DEF LinkNext, StatusTimer, Connected, Disconnected, BootAccepted, BootTimer, TriggerBoot,
                      BootNotAccepted, firmware, RegTypes
  <2>3. AllStatuses \in [All -> Shown]
    BY <1>1 DEF AllStatuses, Status, StatusTypes, Shown
  <2>4. \/ UNCHANGED <<timer, reported>>
        \/ timer' = AllStatuses /\ UNCHANGED reported
        \/ \E c \in All : /\ timer[c] # None /\ timer' = [timer EXCEPT ![c] = None]
                          /\ reported' = reported \/ reported' = [reported EXCEPT ![c] = timer[c]]
    BY <1>9 DEF LinkNext, StatusTimer, Connected, ConnectedStatuses, Disconnected, BootAccepted, BootTimer, TriggerBoot,
                BootNotAccepted, status
  <2>5. StatusTypes'
    BY <1>1, <2>1, <2>3, <2>4 DEF StatusTypes
  <2>6. QED
    BY <1>2, <1>5, <1>6, <2>1, <2>2, <2>5
<1>10. CASE AvailabilityNext
  <2>1. /\ UNCHANGED <<pending, ready, online, state, boot>> /\ UNCHANGED <<session, stopConfs>>
        /\ (UNCHANGED used \/ Spend) /\ UNCHANGED <<errors, reported>>
    BY <1>10 DEF AvailabilityNext, CheckChange, QueueChange, ExecuteChange, Obey, firmware, link
  <2>2. UNCHANGED <<fsm, timer>> \/ \E event : Submit(event)
    BY <1>10 DEF AvailabilityNext, CheckChange, QueueChange, ExecuteChange, Obey, SubmitEvent, status
  <2>3. StatusTypes'
    BY <1>3, <2>1, <2>2, SubmitSteps
  <2>4. ASSUME NEW c \in All, NEW type \in Types, CheckChange(c, type)
        PROVE  ChangeTypes'
    <3>1. UNCHANGED <<queue, wish, db, requested>>
      BY <2>4 DEF CheckChange, availability
    <3>2. PICK a \in SUBSET Connectors, b \in SUBSET All : rx' = <<"queue", type, a, b>>
      <4>1. PICK asked \in SUBSET Connectors : asked = IF c = 0 THEN Connectors ELSE {c}
        <5>1. c # 0 => c \in Connectors
          BY ChargePointAssumption DEF All, Connectors
        <5>2. (IF c = 0 THEN Connectors ELSE {c}) \in SUBSET Connectors
          BY <5>1
        <5>3. QED
          BY <5>2
      <4>2. rx' = <<"queue", type, {x \in asked : ToBeScheduled(x)}, ({c} \cup asked) \ {x \in asked : ToBeScheduled(x)}>>
        BY <2>4, <4>1 DEF CheckChange
      <4>3. {x \in asked : ToBeScheduled(x)} \in SUBSET Connectors
            /\ ({c} \cup asked) \ {x \in asked : ToBeScheduled(x)} \in SUBSET All
        BY <1>1, <4>1
      <4>4. QED
        BY <4>2, <4>3
    <3>3. rx' \in Handled
      BY <3>2 DEF Handled
    <3>4. QED
      BY <1>1, <3>1, <3>3 DEF ChangeTypes
  <2>5. ASSUME QueueChange
        PROVE  ChangeTypes'
    <3>1. /\ rx[1] = "queue" /\ UNCHANGED wish
          /\ queue' = [c \in Connectors |-> IF c \in rx[3] THEN [type |-> rx[2], persist |-> TRUE] ELSE queue[c]]
          /\ db' = [c \in All |-> IF c \in Connectors /\ queue'[c] # None THEN queue'[c].type ELSE db[c]]
          /\ rx' = <<"execute", rx[2], rx[4]>>
          /\ requested' = [c \in All |-> IF c \in rx[3] THEN rx[2] ELSE requested[c]]
      BY <2>5 DEF QueueChange
    <3>2. rx[2] \in Types /\ rx[3] \in SUBSET Connectors /\ rx[4] \in SUBSET All
      <4>1. rx \in {"queue"} \X Types \X (SUBSET Connectors) \X (SUBSET All)
        BY <1>1, <3>1 DEF ChangeTypes, Handled
      <4>2. QED
        BY <4>1
    <3>3. queue' \in [Connectors -> Entries]
      <4>1. \E persist \in BOOLEAN : persist = TRUE
        OBVIOUS
      <4>2. PICK entry \in [type : Types, persist : BOOLEAN] : entry = [type |-> rx[2], persist |-> TRUE]
        BY <3>2, <4>1
      <4>3. queue' = [c \in Connectors |-> IF c \in rx[3] THEN entry ELSE queue[c]]
        BY <3>1, <4>2
      <4>4. QED
        BY <1>1, <4>3 DEF ChangeTypes
    <3>4. db' \in [All -> Types] /\ requested' \in [All -> Types] /\ wish' \in [Connectors -> Types \cup {None}]
      BY <1>1, <3>1, <3>2, <3>3 DEF ChangeTypes
    <3>5. rx' \in Handled
      BY <3>1, <3>2 DEF Handled
    <3>6. QED
      BY <3>3, <3>4, <3>5 DEF ChangeTypes
  <2>6. ASSUME ExecuteChange
        PROVE  ChangeTypes'
    <3>1. /\ rx[1] = "execute" /\ UNCHANGED queue
          /\ db' = [c \in All |-> IF c \in rx[3] THEN rx[2] ELSE db[c]]
          /\ wish' = [c \in Connectors |-> IF c \in rx[3] THEN rx[2] ELSE wish[c]]
          /\ rx' = <<"idle">>
          /\ requested' = [c \in All |-> IF c \in rx[3] THEN rx[2] ELSE requested[c]]
      BY <2>6 DEF ExecuteChange
    <3>2. rx[2] \in Types
      <4>1. rx \in {"execute"} \X Types \X (SUBSET All)
        BY <1>1, <3>1 DEF ChangeTypes, Handled
      <4>2. QED
        BY <4>1
    <3>3. rx' \in Handled
      BY <3>1 DEF Handled
    <3>4. QED
      BY <1>1, <3>1, <3>2, <3>3 DEF ChangeTypes
  <2>7. ASSUME NEW c \in Connectors, Obey(c)
        PROVE  ChangeTypes'
    BY <1>1, <2>7 DEF Obey, ChangeTypes
  <2>8. ChangeTypes'
    BY <1>10, <2>4, <2>5, <2>6, <2>7 DEF AvailabilityNext
  <2>9. QED
    BY <1>2, <1>4, <1>6, <2>1, <2>3, <2>8

<1>11. CASE SessionNext
  <2>1. PICK c \in Connectors :
             \/ \E authorized \in BOOLEAN : SessionStarted(c, authorized)
             \/ TransactionStarted(c)
             \/ \E e \in {"StartCharging", "PauseChargingEV", "PauseChargingEVSE"} : Charging(c, e)
             \/ \E unplugged \in BOOLEAN : TransactionStopped(c, unplugged)
             \/ SessionStopped(c)
             \/ \E e \in {"TransactionStoppedAndUserActionRequired", "ReserveConnector", "ReservationEnd"} :
                  Reservation(c, e)
             \/ StopConf(c)
    BY <1>11 DEF SessionNext
  <2>2. UNCHANGED <<errors, reported>> /\ (UNCHANGED <<fsm, timer>> \/ \E event : Submit(event))
    BY <2>1 DEF SessionStarted, TransactionStarted, Charging, TransactionStopped, SessionStopped, Reservation, StopConf,
                SubmitEvent, status, link
  <2>3. StatusTypes'
    BY <1>3, <2>2, SubmitSteps
  <2>4. RegTypes'
    <3>1. UNCHANGED <<pending, online, state, boot>> /\ (UNCHANGED ready \/ (StopConf(c) /\ ready' \in BOOLEAN))
      <4>1. CASE StopConf(c)
        <5>1. StopConfReady \in BOOLEAN
          BY <1>1 DEF StopConfReady, RegTypes
        <5>2. ready' \in BOOLEAN
          BY <1>1, <4>1, <5>1 DEF StopConf, RegTypes
        <5>3. QED
          BY <4>1, <5>2 DEF StopConf, link
      <4>2. CASE ~StopConf(c)
        BY <2>1, <4>2 DEF SessionStarted, TransactionStarted, Charging, TransactionStopped, SessionStopped, Reservation,
                          firmware, link
      <4>3. QED
        BY <4>1, <4>2
    <3>2. QED
      BY <1>1, <3>1 DEF RegTypes
  <2>5. ChangeTypes'
    <3>1. CASE UNCHANGED <<availability, requested, rx>>
      BY <1>5, <3>1
    <3>2. CASE SessionStopped(c) \/ StopConf(c)
      <4>1. UNCHANGED <<requested, rx>> /\ db' = DbAfter(c)
            /\ queue' \in {Dequeued(c), TakenOut(Dequeued(c))}
            /\ wish' \in {WishAfter(c), Disabled(WishAfter(c))}
        BY <3>2 DEF SessionStopped, StopConf
      <4>2. Dequeued(c) \in [Connectors -> Entries] /\ DbAfter(c) \in [All -> Types]
            /\ WishAfter(c) \in [Connectors -> Types \cup {None}]
        BY QueuedChangeTypes
      <4>3. TakenOut(Dequeued(c)) \in [Connectors -> Entries] /\ Disabled(WishAfter(c)) \in [Connectors -> Types \cup {None}]
        BY <4>2, FirmwareTypes
      <4>4. QED
        BY <1>1, <4>1, <4>2, <4>3 DEF ChangeTypes
    <3>3. QED
      BY <2>1, <3>1, <3>2 DEF SessionStarted, TransactionStarted, Charging, TransactionStopped, Reservation
  <2>6. StopTypes'
    <3>1. CASE UNCHANGED <<session, stopConfs, used>>
      BY <1>6, <3>1
    <3>2. CASE ~UNCHANGED <<session, stopConfs, used>>
      <4>1. /\ session' = session \/ \E s \in Sessions : session' = [session EXCEPT ![c] = s]
            /\ \/ Spend /\ session[c] = "none" /\ session'[c] = "session" /\ stopConfs' = stopConfs
               \/ used' = used /\ session[c] = "session" /\ session'[c] = "transaction" /\ stopConfs' = stopConfs
               \/ used' = used /\ session[c] = "transaction" /\ session'[c] = "over"
                  /\ stopConfs' = [stopConfs EXCEPT ![c] = @ + 1]
               \/ used' = used /\ session'[c] = "none" /\ stopConfs' = stopConfs
               \/ used' = used /\ session' = session /\ stopConfs[c] > 0 /\ stopConfs' = [stopConfs EXCEPT ![c] = @ - 1]
        <5>1. session \in [Connectors -> Sessions]
          BY <1>1
        <5>2. CASE \E authorized \in BOOLEAN : SessionStarted(c, authorized)
          BY <5>1, <5>2 DEF SessionStarted
        <5>3. CASE TransactionStarted(c)
          BY <5>1, <5>3 DEF TransactionStarted
        <5>4. CASE \E unplugged \in BOOLEAN : TransactionStopped(c, unplugged)
          BY <5>1, <5>4 DEF TransactionStopped, TransactionActive
        <5>5. CASE SessionStopped(c)
          BY <5>1, <5>5 DEF SessionStopped
        <5>6. CASE StopConf(c)
          BY <5>1, <5>6 DEF StopConf, StopOwed
        <5>7. QED
          BY <2>1, <3>2, <5>2, <5>3, <5>4, <5>5, <5>6 DEF Charging, Reservation
      <4>2. session \in [Connectors -> Sessions] /\ stopConfs \in [Connectors -> Nat] /\ used \in 0..MaxEvents /\ StopsSpent
        BY <1>1 DEF StopTypes
      <4>3. session' \in [Connectors -> Sessions]
        BY <4>1, <4>2
      <4>4. stopConfs' \in [Connectors -> Nat]
        BY <4>1, <4>2
      <4>5. used' \in 0..MaxEvents /\ used <= used'
        BY <1>1, <4>1, <4>2 DEF Spend
      <4>6. ASSUME NEW x \in Connectors
            PROVE  stopConfs'[x] + (IF session'[x] \in {"session", "transaction"} THEN 1 ELSE 0) <= used'
        <5>1. stopConfs[x] \in Nat /\ used \in Nat /\ used' \in Nat
              /\ stopConfs[x] + (IF session[x] \in {"session", "transaction"} THEN 1 ELSE 0) <= used
          BY <1>1, <4>2, <4>5 DEF StopsSpent
        <5>2. CASE x # c
          <6>1. session'[x] = session[x] /\ stopConfs'[x] = stopConfs[x]
            BY <4>1, <4>2, <5>2
          <6>2. QED
            BY <4>5, <5>1, <6>1
        <5>3. CASE x = c
          <6>1. CASE Spend /\ session[c] = "none" /\ session'[c] = "session" /\ stopConfs' = stopConfs
            BY <5>1, <5>3, <6>1 DEF Spend
          <6>2. CASE used' = used /\ session[c] = "session" /\ session'[c] = "transaction" /\ stopConfs' = stopConfs
            BY <5>1, <5>3, <6>2
          <6>3. CASE used' = used /\ session[c] = "transaction" /\ session'[c] = "over"
                     /\ stopConfs' = [stopConfs EXCEPT ![c] = @ + 1]
            <7>1. stopConfs'[c] = stopConfs[c] + 1
              BY <4>2, <6>3
            <7>2. QED
              BY <5>1, <5>3, <6>3, <7>1
          <6>4. CASE used' = used /\ session'[c] = "none" /\ stopConfs' = stopConfs
            <7>1. stopConfs[c] <= used
              BY <5>1, <5>3
            <7>2. QED
              BY <5>1, <5>3, <6>4, <7>1
          <6>5. CASE used' = used /\ session' = session /\ stopConfs[c] > 0 /\ stopConfs' = [stopConfs EXCEPT ![c] = @ - 1]
            <7>1. stopConfs'[c] = stopConfs[c] - 1
              BY <4>2, <6>5
            <7>2. QED
              BY <5>1, <5>3, <6>5, <7>1
          <6>6. QED
            BY <4>1, <6>1, <6>2, <6>3, <6>4, <6>5
        <5>4. QED
          BY <5>2, <5>3
      <4>7. QED
        BY <4>3, <4>4, <4>5, <4>6 DEF StopTypes, StopsSpent
    <3>3. QED
      BY <3>1, <3>2
  <2>7. QED
    BY <1>2, <2>3, <2>4, <2>5, <2>6
<1>12. CASE FirmwareNext
  <2>1. /\ UNCHANGED <<online, state, boot>> /\ UNCHANGED <<session, stopConfs>> /\ Spend /\ UNCHANGED <<errors, reported>>
        /\ UNCHANGED <<db, requested, rx>>
    BY <1>12 DEF FirmwareNext, FirmwareDownloaded, FirmwareEnds, link
  <2>2. UNCHANGED <<fsm, timer>> \/ \E event : Submit(event)
    BY <1>12 DEF FirmwareNext, FirmwareDownloaded, FirmwareEnds, SubmitEvent, status
  <2>3. StatusTypes'
    BY <1>3, <2>1, <2>2, SubmitSteps
  <2>4. pending' \in BOOLEAN /\ ready' \in BOOLEAN
    BY <1>12 DEF FirmwareNext, FirmwareDownloaded, FirmwareEnds
  <2>5. RegTypes'
    BY <1>1, <2>1, <2>4 DEF RegTypes
  <2>6. queue \in [Connectors -> Entries] /\ wish \in [Connectors -> Types \cup {None}]
    BY <1>1 DEF ChangeTypes
  <2>7. TakenOut(queue) \in [Connectors -> Entries] /\ Disabled(wish) \in [Connectors -> Types \cup {None}]
        /\ Restored(wish) \in [Connectors -> Types \cup {None}]
    BY <2>6, FirmwareTypes
  <2>8. Restored(Disabled(wish)) \in [Connectors -> Types \cup {None}]
    BY <2>6, <2>7, FirmwareTypes
  <2>9. queue' \in {queue, TakenOut(queue)} /\ wish' \in {Disabled(wish), Restored(wish), Restored(Disabled(wish))}
    BY <1>12 DEF FirmwareNext, FirmwareDownloaded, FirmwareEnds
  <2>10. ChangeTypes'
    BY <1>1, <2>1, <2>6, <2>7, <2>8, <2>9 DEF ChangeTypes
  <2>11. QED
    BY <1>2, <1>6, <2>1, <2>3, <2>5, <2>10
<1>13. CASE Restart
  <2>1. /\ fsm' = [c \in All |-> IF db[c] = "Operative" THEN "Available" ELSE "Unavailable"]
        /\ timer' = [c \in All |-> None]
        /\ errors' = [c \in All |-> {}]
        /\ UNCHANGED reported
    BY <1>13 DEF Restart
  <2>2. StatusTypes'
    BY <1>1, <2>1 DEF StatusTypes, States
  <2>3. RegTypes'
    BY <1>13 DEF Restart, RegTypes
  <2>4. wish' = [c \in Connectors |-> db[c]] /\ queue' = [c \in Connectors |-> None] /\ rx' = <<"idle">>
        /\ UNCHANGED <<db, requested>>
    BY <1>13 DEF Restart
  <2>5. ChangeTypes'
    BY <1>1, <2>4 DEF ChangeTypes, Handled
  <2>6. /\ session' = [c \in Connectors |-> "none"]
        /\ stopConfs' = [c \in Connectors |-> stopConfs[c] + IF c \in Busy THEN 1 ELSE 0]
        /\ Spend
    BY <1>13 DEF Restart
  <2>7. stopConfs \in [Connectors -> Nat] /\ used \in 0..MaxEvents /\ StopsSpent
    BY <1>1 DEF StopTypes
  <2>8. used' \in 0..MaxEvents /\ used \in Nat /\ used' = used + 1
    BY <1>1, <2>6, <2>7 DEF Spend
  <2>9. ASSUME NEW c \in Connectors
        PROVE  stopConfs'[c] \in Nat /\ stopConfs'[c] <= used' /\ session'[c] = "none"
    <3>1. PICK k \in {0, 1} : stopConfs[c] + k <= used
      BY <2>7 DEF StopsSpent
    <3>2. stopConfs[c] \in Nat
      BY <2>7
    <3>3. stopConfs'[c] = stopConfs[c] \/ stopConfs'[c] = stopConfs[c] + 1
      BY <2>6, <3>2
    <3>4. QED
      BY <2>6, <2>8, <3>1, <3>2, <3>3
  <2>10. stopConfs' \in [Connectors -> Nat]
    BY <2>6, <2>9
  <2>11. StopTypes'
    BY <2>6, <2>8, <2>9, <2>10 DEF StopTypes, StopsSpent
  <2>12. QED
    BY <1>2, <2>2, <2>3, <2>5, <2>11
<1>14. QED
  BY <1>7, <1>8, <1>9, <1>10, <1>11, <1>12, <1>13 DEF Next

LEMMA InitTypeInv == Init => TypeInv
<1> SUFFICES ASSUME Init
             PROVE  TypeInv
  OBVIOUS
<1>1. /\ fsm \in [All -> States] /\ timer \in [All -> Shown \cup {None}] /\ reported \in [All -> Shown]
      /\ errors \in [All -> SUBSET Errors]
  BY DEF Init, States, Shown
<1>2. /\ session = [c \in Connectors |-> "none"] /\ stopConfs = [c \in Connectors |-> 0] /\ used = 0
      /\ MaxEvents \in Nat
  BY ChargePointAssumption DEF Init
<1>3. StopsSpent
  BY <1>2 DEF StopsSpent
<1>4. /\ session \in [Connectors -> {"none", "session", "transaction", "over"}]
      /\ stopConfs \in [Connectors -> 0..MaxEvents] /\ used \in 0..MaxEvents
  BY <1>2
<1>5. /\ queue \in [Connectors -> [type : Types, persist : BOOLEAN] \cup {None}]
      /\ wish \in [Connectors -> Types \cup {None}]
      /\ db \in [All -> Types] /\ requested \in [All -> Types]
      /\ rx \in {<<"idle">>}
      /\ pending \in BOOLEAN /\ ready \in BOOLEAN /\ online \in BOOLEAN
      /\ state \in {"Disconnected", "Connected", "Pending", "Rejected", "Booted"}
      /\ boot \in {"queued", "timer", "none"}
  BY DEF Init, Types
<1>6. QED
  BY <1>1, <1>3, <1>4, <1>5 DEF TypeInv, TypeOK

\* Every variable keeps its type, for any connectors, errors, sessions, requests and restarts: among
\* others, no event leads a ChargePointFSM out of its states, and the StopTransaction.conf messages
\* that are awaited never run below zero.
THEOREM TypeCorrect == Spec => []TypeOK
<1>1. TypeInv => TypeOK
  BY DEF TypeInv
<1>2. QED
  BY <1>1, InitTypeInv, NextTypeInv, PTL DEF Spec

-----------------------------------------------------------------------------
(* The status of the connectors *)

\* A status that waits for its timer is the one that the connector shows, also offline, behind a fault
\* and before the registration; so a timer that expires never reports an old one.
TimersShow == \A c \in All : timer[c] # None => timer[c] = Status(c)

ShownInv == TimersShow /\ CsmsKnowsStatus

\* A step that leaves the link alone, and sets the timer where it changes what a connector shows.
LEMMA ShownSteps ==
    ASSUME ShownInv, UNCHANGED <<online, state, reported>>,
           \A c \in All : timer'[c] = Status(c)' \/ (timer'[c] = timer[c] /\ Status(c)' = Status(c)),
           \A c \in All : Status(c)' # None
    PROVE  ShownInv'
<1>1. TimersShow'
  BY DEF ShownInv, TimersShow
<1>2. CsmsKnowsStatus'
  BY DEF ShownInv, CsmsKnowsStatus
<1>3. QED
  BY <1>1, <1>2 DEF ShownInv

LEMMA SubmitShown ==
    ASSUME TypeInv, ShownInv, NEW event, Submit(event), UNCHANGED <<errors, reported, online, state>>
    PROVE  ShownInv'
<1>1. StatusTypes /\ StatusTypes'
  BY TypesOf, SubmitSteps
<1>2. \A c \in All : /\ timer'[c] # timer[c] => timer'[c] = Status(c)'
                     /\ timer'[c] = timer[c] => timer'[c] = Status(c)' \/ Status(c)' = Status(c)
  BY <1>1, SubmitParts
<1>3. \A c \in All : Status(c)' # None
  BY <1>1, NoneAssumption DEF StatusTypes, Status, Shown
<1>4. QED
  BY <1>2, <1>3, ShownSteps

LEMMA NextShownInv ==
    ASSUME TypeInv, ShownInv, [Next]_vars
    PROVE  ShownInv'
<1>1. StatusTypes /\ StatusTypes'
  BY TypesOf, NextTypeInv DEF TypeInv, TypeOK, StatusTypes
<1>2. \A c \in All : Status(c)' # None /\ Status(c) # None
  BY <1>1, NoneAssumption DEF StatusTypes, Status, Shown
<1>3. CASE UNCHANGED <<fsm, timer, errors, online, state, reported>>
  BY <1>2, <1>3, ShownSteps DEF Status
<1>4. CASE UNCHANGED <<errors, reported, online, state>> /\ \E event : Submit(event)
  BY <1>4, SubmitShown
<1>5. CASE UNCHANGED vars \/ AvailabilityNext \/ SessionNext \/ FirmwareNext
  <2>1. UNCHANGED <<errors, reported, online, state>>
    BY <1>5 DEF AvailabilityNext, CheckChange, QueueChange, ExecuteChange, Obey, SessionNext, SessionStarted,
                TransactionStarted, Charging, TransactionStopped, SessionStopped, Reservation, StopConf,
                FirmwareNext, FirmwareDownloaded, FirmwareEnds, vars, link
  <2>2. UNCHANGED <<fsm, timer>> \/ \E event : Submit(event)
    BY <1>5 DEF AvailabilityNext, CheckChange, QueueChange, ExecuteChange, Obey, SessionNext, SessionStarted,
                TransactionStarted, Charging, TransactionStopped, SessionStopped, Reservation, StopConf,
                FirmwareNext, FirmwareDownloaded, FirmwareEnds, SubmitEvent, vars, status
  <2>3. QED
    BY <1>3, <1>4, <2>1, <2>2
<1>6. CASE ErrorNext
  <2>1. UNCHANGED <<fsm, online, state, reported>>
    BY <1>6 DEF ErrorNext, OnError, OnErrorCleared, OnAllErrorsCleared, link
  <2>2. PICK c \in All : (\E e \in Errors : OnError(c, e) \/ OnErrorCleared(c, e)) \/ OnAllErrorsCleared(c)
    BY <1>6 DEF ErrorNext
  <2>3. \A x \in All \ {c} : timer'[x] = timer[x] /\ Status(x)' = Status(x)
    <3>1. \A x \in All \ {c} : timer'[x] = timer[x] /\ errors'[x] = errors[x]
      BY <1>1, <2>2 DEF OnError, OnErrorCleared, OnAllErrorsCleared, Cleared, StatusTypes
    <3>2. QED
      BY <2>1, <3>1 DEF Status
  <2>4. timer'[c] = Status(c)' \/ (timer'[c] = timer[c] /\ Status(c)' = Status(c))
    <3>1. ASSUME NEW e \in Errors, OnError(c, e)
          PROVE  timer'[c] = Status(c)'
      BY <1>1, <2>1, <3>1 DEF OnError, Status, StatusTypes
    <3>2. ASSUME NEW e \in Errors, OnErrorCleared(c, e)
          PROVE  timer'[c] = Status(c)' \/ (timer'[c] = timer[c] /\ Status(c)' = Status(c))
      <4>1. errors'[c] = errors[c] \ {e} /\ timer' = Cleared(c, errors'[c])
        BY <1>1, <3>2 DEF OnErrorCleared, StatusTypes
      <4>2. CASE IsFaulted(errors'[c])
        <5>1. IsFaulted(errors[c]) /\ timer' = timer
          BY <4>1, <4>2 DEF IsFaulted, Cleared
        <5>2. QED
          BY <4>2, <5>1 DEF Status
      <4>3. CASE ~IsFaulted(errors'[c])
        BY <1>1, <2>1, <4>1, <4>3 DEF Status, Cleared, StatusTypes
      <4>4. QED
        BY <4>2, <4>3
    <3>3. ASSUME OnAllErrorsCleared(c)
          PROVE  timer'[c] = Status(c)'
      BY <1>1, <2>1, <3>3 DEF OnAllErrorsCleared, Status, StatusTypes, IsFaulted
    <3>4. QED
      BY <2>2, <3>1, <3>2, <3>3
  <2>5. QED
    BY <1>2, <2>1, <2>3, <2>4, ShownSteps
<1>7. ASSUME NEW c \in All, StatusTimer(c)
      PROVE  ShownInv'
  <2>1. /\ timer[c] # None /\ timer' = [timer EXCEPT ![c] = None]
        /\ reported' = IF online /\ state = "Booted" THEN [reported EXCEPT ![c] = timer[c]] ELSE reported
        /\ UNCHANGED <<fsm, errors, online, state>>
    BY <1>7 DEF StatusTimer
  <2>2. \A x \in All : Status(x)' = Status(x)
    BY <2>1 DEF Status
  <2>3. timer[c] = Status(c)
    BY <2>1 DEF ShownInv, TimersShow
  <2>4. /\ timer'[c] = None /\ \A x \in All \ {c} : timer'[x] = timer[x] /\ reported'[x] = reported[x]
        /\ online /\ state = "Booted" => reported'[c] = timer[c]
    BY <1>1, <2>1 DEF StatusTypes
  <2>5. TimersShow'
    BY <2>2, <2>4 DEF ShownInv, TimersShow
  <2>6. CsmsKnowsStatus'
    BY <2>1, <2>2, <2>3, <2>4 DEF ShownInv, CsmsKnowsStatus
  <2>7. QED
    BY <2>5, <2>6 DEF ShownInv
<1>8. CASE Connected \/ BootAccepted
  <2>1. UNCHANGED <<fsm, errors, reported>>
    BY <1>8 DEF Connected, BootAccepted
  <2>2. \A x \in All : Status(x)' = Status(x)
    BY <2>1 DEF Status
  <2>3. timer' = AllStatuses \/ (timer' = timer /\ state' # "Booted")
    BY <1>8 DEF Connected, BootAccepted, ConnectedStatuses
  <2>4. TimersShow'
    BY <2>2, <2>3 DEF ShownInv, TimersShow, AllStatuses
  <2>5. CsmsKnowsStatus'
    BY <1>2, <2>2, <2>3 DEF CsmsKnowsStatus, AllStatuses
  <2>6. QED
    BY <2>4, <2>5 DEF ShownInv
<1>9. CASE Disconnected \/ \E answer \in {"Pending", "Rejected"} : BootNotAccepted(answer)
  <2>1. UNCHANGED <<fsm, errors, timer>> /\ (~online' \/ state' # "Booted")
    BY <1>9 DEF Disconnected, BootNotAccepted, status
  <2>2. QED
    BY <2>1 DEF ShownInv, TimersShow, CsmsKnowsStatus, Status
<1>10. CASE BootTimer \/ TriggerBoot
  BY <1>3, <1>10 DEF BootTimer, TriggerBoot, status
<1>11. CASE Restart
  <2>1. (\A c \in All : timer'[c] = None) /\ ~online'
    BY <1>11 DEF Restart
  <2>2. QED
    BY <2>1 DEF ShownInv, TimersShow, CsmsKnowsStatus
<1>12. QED
  BY <1>5, <1>6, <1>7, <1>8, <1>9, <1>10, <1>11 DEF Next, LinkNext

\* The CSMS knows the status of every connector of a registered station that is online, once no timer
\* of a StatusNotification runs: whatever changed offline, behind a fault, before the registration or
\* before a crash is reported by connected_callback or handleBootNotificationResponse.
THEOREM CsmsInformed == Spec => []CsmsKnowsStatus
<1> DEFINE Inv == TypeInv /\ ShownInv
<1>1. Init => Inv
  <2>1. Init => ShownInv
    BY DEF Init, ShownInv, TimersShow, CsmsKnowsStatus
  <2>2. QED
    BY <2>1, InitTypeInv
<1>2. Inv /\ [Next]_vars => Inv'
  BY NextTypeInv, NextShownInv
<1>3. Inv => CsmsKnowsStatus
  BY DEF ShownInv
<1>4. QED
  BY <1>1, <1>2, <1>3, PTL DEF Spec

=============================================================================
