------------------------ MODULE Transactions2_proofs ------------------------
(***************************************************************************)
(* Proofs about ConnectorStatus2 and Transactions2, for any EVSEs and id   *)
(* tokens and any number of transactions, crashes and outside events.      *)
(*                                                                         *)
(* First what the CSMS knows of the connectors, which does not depend on   *)
(* the transactions; then the types of the rest, remote starts, and the    *)
(* sequence numbers of the events.                                         *)
(***************************************************************************)
EXTENDS Transactions2, SequenceTheorems, FiniteSetTheorems, WellFoundedInduction, NaturalsInduction, TLAPS

-----------------------------------------------------------------------------
(* The connectors *)

\* What a step does to the connectors, with or without a transaction.
LEMMA StatusCases ==
    ASSUME [Next]_vars
    PROVE  \/ StatusNext
           \/ \E e \in Evses : /\ ConnectorEvent(e, "reserved", FALSE)
                               /\ UNCHANGED <<accepted, connected, phase, disconnectedAt, report, events>>
           \/ /\ UNCHANGED <<flags, reported, csms, accepted, connected, phase, disconnectedAt, report, stale>>
              /\ UNCHANGED events \/ Spend
           \/ StatusBooted /\ UNCHANGED csms /\ Spend
<1>1. ASSUME NEW e \in Evses, NEW token \in Tokens \cup {None}, Start(e, token)
      PROVE  \E d \in Evses : /\ ConnectorEvent(d, "reserved", FALSE)
                              /\ UNCHANGED <<accepted, connected, phase, disconnectedAt, report, events>>
  BY <1>1 DEF Start
<1>2. ASSUME NEW e \in Evses, Finish(e) \/ ChargingStateChanged(e) \/ MeterTimer(e) \/ TriggerEvent(e)
                              \/ Started(e) \/ Release(e)
      PROVE  /\ UNCHANGED <<flags, reported, csms, accepted, connected, phase, disconnectedAt, report, stale>>
             /\ UNCHANGED events \/ Spend
  BY <1>2 DEF Finish, ChargingStateChanged, MeterTimer, TriggerEvent, Started, Release, statusVars, statusButEvents
<1>3. ASSUME NEW e \in Evses, NEW token \in Tokens, NEW reserved \in BOOLEAN,
             Authorized(e, token) \/ RemoteStart(e, token, reserved)
      PROVE  /\ UNCHANGED <<flags, reported, csms, accepted, connected, phase, disconnectedAt, report, stale>>
             /\ UNCHANGED events \/ Spend
  BY <1>3 DEF Authorized, RemoteStart, statusButEvents
<1>4. ASSUME NEW t \in Threads, PushEvent(t)
      PROVE  UNCHANGED <<flags, reported, csms, accepted, connected, phase, disconnectedAt, report, stale, events>>
  BY <1>4 DEF PushEvent, statusVars
<1>5. CASE Crash
  BY <1>5 DEF Crash
<1>6. CASE UNCHANGED vars
  BY <1>6 DEF vars, statusVars
<1>7. CASE Next
  <2>1. CASE StatusNext /\ UNCHANGED txVars
    BY <2>1
  <2>2. CASE \E e \in Evses, token \in Tokens \cup {None} : Start(e, token)
    BY <2>2, <1>1
  <2>3. CASE \E e \in Evses, token \in Tokens : Authorized(e, token)
    BY <2>3, <1>3
  <2>4. CASE \E e \in Evses : Finish(e) \/ ChargingStateChanged(e) \/ MeterTimer(e) \/ TriggerEvent(e)
    BY <2>4, <1>2
  <2>5. CASE \E e \in Evses, token \in Tokens, reserved \in BOOLEAN : RemoteStart(e, token, reserved)
    BY <2>5, <1>3
  <2>6. CASE ThreadStep
    BY <2>6, <1>2, <1>4 DEF ThreadStep
  <2>7. QED
    BY <1>5, <1>7, <2>1, <2>2, <2>3, <2>4, <2>5, <2>6 DEF Next
<1>8. QED
  BY <1>6, <1>7

\* The loop over the connectors takes one that is still to be reported.
LEMMA FirstOfMember ==
    ASSUME NEW es \in SUBSET Evses, es # {}
    PROVE  FirstOf(es) \in es
<1> DEFINE R == {ss \in Nat \X Nat : ss[1] < ss[2]}
<1>1. es \subseteq Nat
  BY StatusAssumption
<1>2. IsWellFoundedOn(R, Nat)
  BY NatLessThanWellFounded, Zenon DEF OpToRel
<1>3. PICK x \in es : \A y \in es : ~(<<y, x>> \in R)
  <2> HIDE DEF R
  <2> QED  BY <1>1, <1>2, WFMin
<1>4. \A y \in es : x <= y
  <2>1. ASSUME NEW y \in es
        PROVE  x <= y
    <3>1. x \in Nat /\ y \in Nat
      BY <1>1
    <3>2. ~(y < x)
      BY <1>3, <3>1
    <3>3. QED
      BY <3>1, <3>2
  <2>2. QED
    BY <2>1
<1>5. QED
  BY <1>4 DEF FirstOf

LEMMA StatusTypes ==
    ASSUME NEW f \in SUBSET Conditions
    PROVE  Status(f) \in Statuses
<1>1. CASE "faulted" \in f
  BY <1>1 DEF Status, Statuses
<1>2. CASE "faulted" \notin f /\ "unavailable" \in f
  BY <1>2 DEF Status, Statuses
<1>3. CASE "faulted" \notin f /\ "unavailable" \notin f /\ "occupied" \in f
  BY <1>3 DEF Status, Statuses
<1>4. CASE "faulted" \notin f /\ "unavailable" \notin f /\ "occupied" \notin f
  <2>1. f = {} \/ f = {"reserved"}
    BY <1>4 DEF Conditions
  <2>2. QED
    BY <1>4, <2>1 DEF Status, Statuses
<1>5. QED
  BY <1>1, <1>2, <1>3, <1>4

\* send_status_notification_single_connector_internal, in a connector event
LEMMA ConnectorEventTypes ==
    ASSUME StatusTypeOK, NEW e \in Evses, NEW c \in Conditions, NEW holds \in BOOLEAN, ConnectorEvent(e, c, holds)
    PROVE  /\ flags' \in [Evses -> SUBSET Conditions]
           /\ reported' \in [Evses -> Statuses]
           /\ csms' \in [Evses -> Statuses \cup {None}]
           /\ stale' \subseteq Evses
<1>1. PICK f \in SUBSET Conditions :
           /\ flags' = [flags EXCEPT ![e] = f]
           /\ UNCHANGED <<reported, csms, stale>> \/ NotifyChange(e, f)
  <2>1. flags[e] \in SUBSET Conditions
    BY DEF StatusTypeOK
  <2>2. QED
    BY <2>1 DEF ConnectorEvent
<1>2. Status(f) \in Statuses
  BY StatusTypes
<1>3. flags' \in [Evses -> SUBSET Conditions]
  BY <1>1 DEF StatusTypeOK
<1>4. QED
  BY <1>1, <1>2, <1>3 DEF StatusTypeOK, NotifyChange

Reports == [todo : SUBSET Evses, changed : BOOLEAN, read : Statuses \cup {None}]

LEMMA NextStatusTypes == StatusTypeOK /\ [Next]_vars => StatusTypeOK'
<1> SUFFICES ASSUME StatusTypeOK, [Next]_vars
             PROVE  StatusTypeOK'
  OBVIOUS
<1>0. report \in [Reporters -> Reports] /\ \A r \in Reporters : report[r].read # None => report[r].todo # {}
  BY DEF StatusTypeOK, Reports
<1>1. Spend => events' \in 0..MaxEvents
  BY StatusAssumption DEF Spend, StatusTypeOK
<1>2. ASSUME NEW e \in Evses, NEW c \in Conditions, NEW holds \in BOOLEAN, ConnectorEvent(e, c, holds),
             UNCHANGED <<accepted, connected, phase, disconnectedAt, report>>, UNCHANGED events \/ Spend
      PROVE  StatusTypeOK'
  BY <1>1, <1>2, ConnectorEventTypes DEF StatusTypeOK
<1>3. ASSUME NEW e \in Evses, NEW c \in Conditions, SubmitEvent(e, c)
      PROVE  StatusTypeOK'
  <2>1. \E holds \in BOOLEAN : ConnectorEvent(e, c, holds)
    BY <1>3 DEF SubmitEvent
  <2>2. QED
    BY <1>2, <1>3, <2>1 DEF SubmitEvent
<1>4. ASSUME NEW r \in Reporters, NEW new \in Reports, new.read # None => new.todo # {},
             report' = [report EXCEPT ![r] = new]
      PROVE  /\ report' \in [Reporters -> Reports]
             /\ \A q \in Reporters : report'[q].read # None => report'[q].todo # {}
  BY <1>0, <1>4
<1>5. ASSUME NEW r \in Reporters, ReadStatus(r)
      PROVE  StatusTypeOK'
  <2> DEFINE e == FirstOf(report[r].todo)
  <2>1. report[r] \in Reports /\ report[r].todo # {} /\ report[r].read = None /\ e \in Evses
    BY <1>0, <1>5, FirstOfMember DEF ReadStatus, Reports
  <2>2. Status(flags[e]) \in Statuses
    BY <2>1, StatusTypes DEF StatusTypeOK
  <2>3. \/ report' = [report EXCEPT ![r] = [report[r] EXCEPT !.todo = @ \ {e}]]
        \/ report' = [report EXCEPT ![r] = [report[r] EXCEPT !.read = Status(flags[e])]]
    BY <1>0, <1>5 DEF ReadStatus
  <2> HIDE DEF e
  <2>4. /\ report' \in [Reporters -> Reports]
        /\ \A q \in Reporters : report'[q].read # None => report'[q].todo # {}
    <3>1. CASE report' = [report EXCEPT ![r] = [report[r] EXCEPT !.todo = @ \ {e}]]
      <4> DEFINE new == [report[r] EXCEPT !.todo = @ \ {e}]
      <4>1. new \in Reports /\ new.read = None
        BY <2>1 DEF Reports
      <4>2. QED
        BY <1>4, <3>1, <4>1
    <3>2. CASE report' = [report EXCEPT ![r] = [report[r] EXCEPT !.read = Status(flags[e])]]
      <4> DEFINE new == [report[r] EXCEPT !.read = Status(flags[e])]
      <4>1. new \in Reports /\ new.todo # {}
        BY <2>1, <2>2 DEF Reports
      <4>2. QED
        BY <1>4, <3>2, <4>1
    <3>3. QED
      BY <2>3, <3>1, <3>2
  <2>5. QED
    BY <1>5, <2>4 DEF ReadStatus, StatusTypeOK, Reports
<1>6. ASSUME NEW r \in Reporters, SendStatus(r)
      PROVE  StatusTypeOK'
  <2> DEFINE e == FirstOf(report[r].todo)
             new == [report[r] EXCEPT !.todo = @ \ {e}, !.read = None]
  <2>1. report[r] \in Reports /\ report[r].read \in Statuses /\ e \in Evses
    BY <1>0, <1>6, FirstOfMember DEF SendStatus, Reports
  <2>2. /\ report' = [report EXCEPT ![r] = new]
        /\ reported' = IF CanNotify THEN [reported EXCEPT ![e] = report[r].read] ELSE reported
        /\ csms' = IF CanNotify THEN [csms EXCEPT ![e] = report[r].read] ELSE csms
        /\ stale' \subseteq stale \cup {e}
    BY <1>0, <1>6 DEF SendStatus
  <2>3. new \in Reports /\ new.read = None
    BY <2>1 DEF Reports
  <2> HIDE DEF e, new
  <2>4. /\ report' \in [Reporters -> Reports]
        /\ \A q \in Reporters : report'[q].read # None => report'[q].todo # {}
    BY <1>4, <2>2, <2>3
  <2>5. /\ reported' \in [Evses -> Statuses]
        /\ csms' \in [Evses -> Statuses \cup {None}]
        /\ stale' \subseteq Evses
    BY <2>1, <2>2 DEF StatusTypeOK
  <2>6. QED
    BY <1>6, <2>4, <2>5 DEF SendStatus, StatusTypeOK, Reports
<1>7. ASSUME NEW es \in SUBSET Evses, NEW changed \in BOOLEAN, NEW r \in Reporters,
             report' = [report EXCEPT ![r] = [todo |-> es, changed |-> changed, read |-> None]]
      PROVE  /\ report' \in [Reporters -> Reports]
             /\ \A q \in Reporters : report'[q].read # None => report'[q].todo # {}
  <2>1. [todo |-> es, changed |-> changed, read |-> None] \in Reports
    BY DEF Reports
  <2>2. QED
    BY <1>4, <1>7, <2>1
<1>8. CASE BootAccepted
  <2>1. \E es \in SUBSET Evses, changed \in BOOLEAN, r \in Reporters :
          report' = [report EXCEPT ![r] = [todo |-> es, changed |-> changed, read |-> None]]
    BY <1>8 DEF BootAccepted, Reporters
  <2>2. QED
    BY <1>7, <1>8, <2>1 DEF BootAccepted, StatusTypeOK, Reports
<1>9. ASSUME NEW e \in Evses, TriggerStatus(e)
      PROVE  StatusTypeOK'
  <2>1. \E es \in SUBSET Evses, changed \in BOOLEAN, r \in Reporters :
          report' = [report EXCEPT ![r] = [todo |-> es, changed |-> changed, read |-> None]]
    BY <1>9 DEF TriggerStatus, Reporters
  <2>2. QED
    BY <1>1, <1>7, <1>9, <2>1 DEF TriggerStatus, StatusTypeOK, Reports
<1>10. CASE SocketOpens \/ SocketCloses \/ Disconnected
  BY <1>1, <1>10 DEF SocketOpens, SocketCloses, Disconnected, StatusTypeOK
<1>11. ASSUME NEW long \in BOOLEAN, Connected(long)
       PROVE  StatusTypeOK'
  <2>1. \/ report' = report
        \/ \E es \in SUBSET Evses, changed \in BOOLEAN, r \in Reporters :
             report' = [report EXCEPT ![r] = [todo |-> es, changed |-> changed, read |-> None]]
    BY <1>11 DEF Connected, Reporters
  <2>2. QED
    BY <1>0, <1>7, <1>11, <2>1 DEF Connected, StatusTypeOK, Reports
<1>12. CASE ConnectedDone
  <2>1. \E es \in SUBSET Evses, changed \in BOOLEAN, r \in Reporters :
          report' = [report EXCEPT ![r] = [todo |-> es, changed |-> changed, read |-> None]]
    BY <1>12 DEF ConnectedDone, Nothing, Reporters
  <2>2. QED
    BY <1>7, <1>12, <2>1 DEF ConnectedDone, StatusTypeOK, Reports
<1>13. CASE StatusBooted /\ UNCHANGED csms /\ Spend
  BY <1>1, <1>13 DEF StatusBooted, StatusTypeOK, Nothing, Statuses
<1>14. CASE /\ UNCHANGED <<flags, reported, csms, accepted, connected, phase, disconnectedAt, report, stale>>
            /\ UNCHANGED events \/ Spend
  BY <1>1, <1>14 DEF StatusTypeOK
<1>15. CASE StatusNext
  BY <1>3, <1>5, <1>6, <1>8, <1>9, <1>10, <1>11, <1>12, <1>15 DEF StatusNext, StatusSteps
<1>16. CASE \E e \in Evses : /\ ConnectorEvent(e, "reserved", FALSE)
                             /\ UNCHANGED <<accepted, connected, phase, disconnectedAt, report, events>>
  <2>1. "reserved" \in Conditions /\ FALSE \in BOOLEAN
    BY DEF Conditions
  <2>2. QED
    BY <1>2, <1>16, <2>1
<1>17. QED
  BY <1>13, <1>14, <1>15, <1>16, StatusCases

-----------------------------------------------------------------------------
(* What the CSMS knows of the connectors *)

\* What was reported last is what the CSMS has, once the report of the accepted boot came to e.
Synced(e) == e \in stale \/ csms[e] = reported[e] \/ e \in report["message"].todo

\* The CSMS has the status of e or is going to be told: by a report that is under way, or after the
\* next connection.
Covered(e) ==
    e \notin stale /\ "reserved" \notin flags[e] =>
        \/ csms[e] = Status(flags[e])
        \/ \E r \in Reporters : e \in report[r].todo
        \/ phase \in {"off", "opened"}
        \/ ~connected

StatusInv ==
    /\ ~report["message"].changed
    /\ accepted /\ phase \in {"off", "opened"} => disconnectedAt
    /\ accepted => \A e \in Evses : Synced(e) /\ Covered(e)

LEMMA NextStatusInv ==
    ASSUME OfflineThreshold, StatusTypeOK, StatusInv, [Next]_vars
    PROVE  StatusInv'
<1>0. /\ report \in [Reporters -> Reports]
      /\ "message" \in Reporters /\ "websocket" \in Reporters
      /\ flags \in [Evses -> SUBSET Conditions] /\ reported \in [Evses -> Statuses]
      /\ csms \in [Evses -> Statuses \cup {None}]
      /\ accepted \in BOOLEAN /\ connected \in BOOLEAN
  BY DEF StatusTypeOK, Reports, Reporters
<1>1. ASSUME NEW e \in Evses, NEW c, NEW holds, ConnectorEvent(e, c, holds),
             UNCHANGED <<accepted, connected, phase, disconnectedAt, report>>
      PROVE  StatusInv'
  <2>1. PICK f : /\ flags' = [flags EXCEPT ![e] = f]
                 /\ \/ "reserved" \in f /\ UNCHANGED <<reported, csms, stale>>
                    \/ NotifyChange(e, f)
    BY <1>1 DEF ConnectorEvent
  <2>2. SUFFICES ASSUME accepted, NEW d \in Evses
                 PROVE  Synced(d)' /\ Covered(d)'
    BY <1>1 DEF StatusInv
  <2>3. Synced(d) /\ Covered(d)
    BY <2>2 DEF StatusInv
  <2>4. CASE d # e
    <3>1. flags'[d] = flags[d]
      BY <2>1, <2>4, <1>0
    <3>2. csms'[d] = csms[d] /\ reported'[d] = reported[d] /\ (d \in stale' <=> d \in stale)
      BY <2>1, <2>4, <1>0 DEF NotifyChange
    <3>3. QED
      BY <2>3, <3>1, <3>2, <1>1 DEF Synced, Covered
  <2>5. CASE d = e
    <3>1. flags'[d] = f
      BY <2>1, <2>5, <1>0
    <3>2. CASE "reserved" \in f /\ UNCHANGED <<reported, csms, stale>>
      BY <2>3, <3>1, <3>2, <1>1 DEF Synced, Covered
    <3>3. CASE CanNotify /\ reported[e] # Status(f) /\ NotifyChange(e, f)
      <4>1. csms'[d] = Status(f) /\ reported'[d] = Status(f)
        BY <2>5, <3>3, <1>0 DEF NotifyChange
      <4>2. QED
        BY <3>1, <4>1 DEF Synced, Covered
    <3>4. CASE ~(CanNotify /\ reported[e] # Status(f)) /\ NotifyChange(e, f)
      <4>1. UNCHANGED <<reported, csms, stale>>
        BY <3>4 DEF NotifyChange
      <4>2. ~connected \/ reported[d] = Status(f)
        BY <2>2, <2>5, <3>4 DEF CanNotify
      <4>3. QED
        BY <1>0, <1>1, <2>3, <3>1, <4>1, <4>2 DEF Synced, Covered
    <3>5. QED
      BY <2>1, <3>2, <3>3, <3>4
  <2>6. QED
    BY <2>4, <2>5
<1>2. ASSUME NEW r \in Reporters, ReadStatus(r)
      PROVE  StatusInv'
  <2> DEFINE e == FirstOf(report[r].todo)
  <2>1. /\ UNCHANGED <<flags, reported, csms, accepted, connected, phase, disconnectedAt, stale>>
        /\ \/ /\ report[r].changed /\ reported[e] = Status(flags[e])
              /\ report' = [report EXCEPT ![r].todo = @ \ {e}]
           \/ report' = [report EXCEPT ![r].read = Status(flags[e])]
    BY <1>2 DEF ReadStatus
  <2> HIDE DEF e
  <2>2. ~report'["message"].changed /\ (accepted /\ phase \in {"off", "opened"} => disconnectedAt)
    BY <1>0, <2>1 DEF StatusInv, Reports
  <2>3. \A q \in Reporters : \A d \in report[q].todo :
          \/ d \in report'[q].todo
          \/ d = e /\ q # "message" /\ reported[e] = Status(flags[e])
    BY <1>0, <2>1 DEF StatusInv, Reports
  <2>4. ASSUME accepted, NEW d \in Evses
        PROVE  Synced(d)' /\ Covered(d)'
    <3>1. Synced(d) /\ Covered(d)
      BY <2>4 DEF StatusInv
    <3>2. Synced(d)'
      BY <1>0, <2>1, <2>3, <3>1 DEF Synced
    <3>3. CASE \A q \in Reporters : d \in report[q].todo => d \in report'[q].todo
      BY <2>1, <3>1, <3>2, <3>3 DEF Covered
    <3>4. CASE \E q \in Reporters : d \in report[q].todo /\ d \notin report'[q].todo
      <4>1. reported[d] = Status(flags[d])
        BY <2>3, <3>4
      <4>2. QED
        BY <1>0, <2>1, <3>2, <4>1 DEF Synced, Covered
    <3>5. QED
      BY <3>2, <3>3, <3>4
  <2>5. QED
    BY <2>1, <2>2, <2>4 DEF StatusInv
<1>3. ASSUME NEW r \in Reporters, SendStatus(r)
      PROVE  StatusInv'
  <2> DEFINE e == FirstOf(report[r].todo)
  <2>1. /\ UNCHANGED <<flags, accepted, connected, phase, disconnectedAt>>
        /\ report' = [report EXCEPT ![r].todo = @ \ {e}, ![r].read = None]
        /\ reported' = IF CanNotify THEN [reported EXCEPT ![e] = report[r].read] ELSE reported
        /\ csms' = IF CanNotify THEN [csms EXCEPT ![e] = report[r].read] ELSE csms
        /\ stale' = IF CanNotify /\ report[r].read = Status(flags[e]) THEN stale \ {e}
                    ELSE IF CanNotify \/ csms[e] # reported[e] THEN stale \cup {e}
                    ELSE stale
    BY <1>3 DEF SendStatus
  <2> HIDE DEF e
  <2>2. ~report'["message"].changed /\ (accepted /\ phase \in {"off", "opened"} => disconnectedAt)
    BY <1>0, <2>1 DEF StatusInv, Reports
  <2>3. \A q \in Reporters : \A d \in report[q].todo : d \in report'[q].todo \/ d = e
    BY <1>0, <2>1 DEF Reports
  <2>4. ASSUME accepted, NEW d \in Evses
        PROVE  Synced(d)' /\ Covered(d)'
    <3>1. Synced(d) /\ Covered(d)
      BY <2>4 DEF StatusInv
    <3>2. CASE d # e
      <4>1. csms'[d] = csms[d] /\ reported'[d] = reported[d] /\ (d \in stale' <=> d \in stale)
        BY <1>0, <2>1, <3>2
      <4>2. QED
        BY <1>0, <2>1, <2>3, <3>1, <3>2, <4>1 DEF Synced, Covered
    <3>3. CASE d = e /\ CanNotify
      <4>1. csms'[d] = report[r].read /\ reported'[d] = report[r].read
        BY <1>0, <2>1, <3>3
      <4>2. report[r].read = Status(flags[d]) \/ d \in stale'
        BY <2>1, <3>3
      <4>3. QED
        BY <2>1, <4>1, <4>2 DEF Synced, Covered
    <3>4. CASE d = e /\ ~CanNotify
      <4>1. ~connected /\ csms' = csms /\ reported' = reported
        BY <2>1, <2>4, <3>4 DEF CanNotify
      <4>2. d \in stale' \/ csms[d] = reported[d]
        BY <2>1, <3>4
      <4>3. QED
        BY <2>1, <4>1, <4>2 DEF Synced, Covered
    <3>5. QED
      BY <3>2, <3>3, <3>4
  <2>5. QED
    BY <2>1, <2>2, <2>4 DEF StatusInv
<1>4. CASE BootAccepted
  <2>1. /\ report'["message"].todo = Evses /\ ~report'["message"].changed
        /\ UNCHANGED <<phase, disconnectedAt>>
    BY <1>0, <1>4 DEF BootAccepted
  <2>2. phase \in {"off", "opened"} => disconnectedAt
    BY <1>4 DEF BootAccepted, HasTalked
  <2>3. QED
    BY <1>0, <2>1, <2>2 DEF StatusInv, Synced, Covered
<1>5. ASSUME NEW e \in Evses, TriggerStatus(e)
      PROVE  StatusInv'
  <2>1. /\ UNCHANGED <<flags, reported, csms, accepted, connected, phase, disconnectedAt, stale>>
        /\ report["message"].todo = {} /\ ~report'["message"].changed
        /\ report'["websocket"] = report["websocket"]
    BY <1>0, <1>5 DEF TriggerStatus, Nothing
  <2>2. \A q \in Reporters : report[q].todo \subseteq report'[q].todo
    BY <1>0, <2>1 DEF Reporters
  <2>3. QED
    BY <1>0, <2>1, <2>2 DEF StatusInv, Synced, Covered
<1>6. CASE SocketOpens
  BY <1>6 DEF SocketOpens, StatusInv, Synced, Covered
<1>7. CASE SocketCloses
  BY <1>7 DEF SocketCloses, StatusInv, Synced, Covered
<1>8. ASSUME NEW long \in BOOLEAN, Connected(long)
      PROVE  StatusInv'
  <2>1. /\ phase = "opened" /\ phase' = "greeting"
        /\ report'["message"] = report["message"]
        /\ accepted /\ disconnectedAt => report'["websocket"].todo = Evses
        /\ UNCHANGED <<flags, reported, csms, accepted, connected, disconnectedAt, stale>>
    BY <1>0, <1>8 DEF Connected
  <2>2. QED
    BY <1>0, <2>1 DEF StatusInv, Synced, Covered
<1>9. CASE ConnectedDone
  <2>1. /\ phase = "greeting" /\ phase' = "on"
        /\ report["websocket"].todo = {}
        /\ report'["message"] = report["message"]
        /\ UNCHANGED <<flags, reported, csms, accepted, connected, stale>>
    BY <1>0, <1>9 DEF ConnectedDone
  <2>2. \A q \in Reporters : report[q].todo \subseteq report'[q].todo
    BY <2>1 DEF Reporters
  <2>3. QED
    BY <1>0, <2>1, <2>2 DEF StatusInv, Synced, Covered
<1>10. CASE Disconnected
  BY <1>10 DEF Disconnected, StatusInv, Synced, Covered
<1>11. CASE StatusBooted
  BY <1>0, <1>11 DEF StatusBooted, StatusInv, Nothing
<1>12. CASE UNCHANGED <<flags, reported, csms, accepted, connected, phase, disconnectedAt, report, stale>>
  BY <1>12 DEF StatusInv, Synced, Covered
<1>13. CASE StatusNext
  BY <1>1, <1>2, <1>3, <1>4, <1>5, <1>6, <1>7, <1>8, <1>9, <1>10, <1>13
  DEF StatusNext, StatusSteps, SubmitEvent
<1>14. QED
  BY <1>1, <1>11, <1>12, <1>13, StatusCases

LEMMA InitStatus == StatusInit => StatusTypeOK /\ StatusInv
<1> SUFFICES ASSUME StatusInit
             PROVE  StatusTypeOK /\ StatusInv
  OBVIOUS
<1>1. Nothing \in [todo : SUBSET Evses, changed : BOOLEAN, read : Statuses \cup {None}]
  BY DEF Nothing
<1>2. \A r \in Reporters : report[r] = Nothing
  BY DEF StatusInit
<1>3. /\ report \in [Reporters -> [todo : SUBSET Evses, changed : BOOLEAN, read : Statuses \cup {None}]]
      /\ \A r \in Reporters : report[r].read = None /\ ~report[r].changed
  BY <1>1, <1>2 DEF StatusInit, Nothing
<1>4. /\ flags \in [Evses -> SUBSET Conditions]
      /\ reported \in [Evses -> Statuses]
      /\ csms \in [Evses -> Statuses \cup {None}]
      /\ events \in 0..MaxEvents
  BY StatusAssumption DEF StatusInit, Statuses
<1>5. StatusTypeOK
  BY <1>3, <1>4 DEF StatusInit, StatusTypeOK
<1>6. QED
  BY <1>3, <1>5 DEF StatusInit, StatusInv, Reporters

\* The CSMS has the status of every connector once the station is connected and registered and has
\* reported, through disconnections, crashes and every mixture of connector events.  It takes an
\* OfflineThreshold other than 0: with 0 the station reports nothing after a reconnection.
THEOREM CsmsInformed ==
    ASSUME OfflineThreshold
    PROVE  Spec => []CsmsView
<1> DEFINE Inv == StatusTypeOK /\ StatusInv
<1>1. Init => Inv
  BY InitStatus DEF Init
<1>2. Inv /\ [Next]_vars => Inv'
  BY NextStatusTypes, NextStatusInv
<1>3. Inv => CsmsView
  BY DEF StatusInv, CsmsView, CanNotify, Covered
<1>4. QED
  BY <1>1, <1>2, <1>3, PTL DEF Spec

-----------------------------------------------------------------------------
(* Transactions: the types *)

EventRecords == [type : EventTypes, seq : Nat, remote : 0..MaxEvents]

\* A thread is making an event of the transaction that its EVSE has.
Current(t) == tx[busy[t].evse] # None /\ tx[busy[t].evse].id = busy[t].id

\* What relates the transactions, their rows, the threads and the queued events.
TxInv ==
    /\ TypeOK
    /\ Len(asked) <= events
    /\ row = IF Resume THEN tx ELSE [e \in Evses |-> None]
    /\ \A e \in Evses : tx[e] # None => tx[e].id <= Len(sent)
    /\ \A e, f \in Evses : tx[e] # None /\ tx[f] # None /\ tx[e].id = tx[f].id => e = f
    /\ \A t \in Threads : busy[t] # None => busy[t].id <= Len(sent)
    /\ \A e \in Evses : busy[AppOf(e)] # None => busy[AppOf(e)].evse = e /\ Current(AppOf(e))
    /\ \A t \in Threads : busy[t] # None /\ busy[t].type \in EventTypes /\ Current(t)
                          => busy[t].taken < tx[busy[t].evse].seq
    /\ raced \subseteq 1..Len(sent) /\ interrupted \subseteq 1..Len(sent)

LEMMA ThreadFacts ==
    /\ \A e \in Evses : AppOf(e) \in Threads /\ TimerOf(e) \in Threads
    /\ MessageThread \in Threads
    /\ \A e, f \in Evses : (AppOf(e) = AppOf(f) => e = f) /\ AppOf(e) # TimerOf(f)
    /\ \A e \in Evses : AppOf(e) # MessageThread
BY DEF Threads, AppOf, TimerOf, MessageThread

\* Thread t makes an event of the transaction of e: get_seq_no, and perhaps the token is stored.
Begins(t, e, type) ==
    /\ tx[e] # None
    /\ \/ t = AppOf(e) /\ type = "Started" /\ busy[t] # None /\ busy[t].type = "Opened"
       \/ t = AppOf(e) /\ type \in {"Updated", "Ended"} /\ busy[t] = None
       \/ t \in {TimerOf(e), MessageThread} /\ type = "Updated" /\ busy[t] = None
    /\ \E token \in Tokens \cup {None} :
         busy' = [busy EXCEPT ![t] = [evse |-> e, id |-> tx[e].id, type |-> type, token |-> token, taken |-> tx[e].seq]]
    /\ raced' = IF Making(tx[e].id) \ {t} # {} THEN raced \cup {tx[e].id} ELSE raced
    /\ \E known \in BOOLEAN : tx' = [tx EXCEPT ![e] = [id |-> tx[e].id, seq |-> tx[e].seq + 1, token |-> known]]
    /\ row' = IF Resume THEN tx' ELSE [f \in Evses |-> None]
    /\ UNCHANGED <<sent, remote, asked, interrupted>>

LEMMA BeginEventBegins ==
    ASSUME TxInv, NEW t \in Threads, NEW e \in Evses, NEW type, NEW token \in Tokens \cup {None},
           tx[e] # None, BeginEvent(t, e, type, token), UNCHANGED <<sent, remote, asked, interrupted>>,
           \/ t = AppOf(e) /\ type = "Started" /\ busy[t] # None /\ busy[t].type = "Opened"
           \/ t = AppOf(e) /\ type \in {"Updated", "Ended"} /\ busy[t] = None
           \/ t \in {TimerOf(e), MessageThread} /\ type = "Updated" /\ busy[t] = None
    PROVE  Begins(t, e, type)
<1>1. tx \in [Evses -> Transactions \cup {None}] /\ tx[e] \in Transactions /\ Resume \in BOOLEAN
  BY TxAssumption DEF TxInv, TypeOK
<1>2. tx' = [tx EXCEPT ![e] = [id |-> tx[e].id, seq |-> tx[e].seq + 1, token |-> tx[e].token]]
  <2>1. tx' = [tx EXCEPT ![e].seq = tx[e].seq + 1]
    BY <1>1 DEF BeginEvent, TakeSeqNo
  <2>2. [tx[e] EXCEPT !.seq = tx[e].seq + 1] = [id |-> tx[e].id, seq |-> tx[e].seq + 1, token |-> tx[e].token]
    BY <1>1 DEF Transactions
  <2>3. QED
    BY <2>1, <2>2
<1>3. \E known \in BOOLEAN : tx' = [tx EXCEPT ![e] = [id |-> tx[e].id, seq |-> tx[e].seq + 1, token |-> known]]
  <2>1. tx[e].token \in BOOLEAN
    BY <1>1 DEF Transactions
  <2>2. QED
    BY <1>2, <2>1
<1>4. row' = IF Resume THEN tx' ELSE [f \in Evses |-> None]
  <2>1. CASE Resume
    <3>1. row = tx
      BY <2>1 DEF TxInv
    <3>2. row' = [row EXCEPT ![e].seq = tx[e].seq + 1]
      BY <2>1, <3>1 DEF BeginEvent, TakeSeqNo
    <3>3. tx' = [tx EXCEPT ![e].seq = tx[e].seq + 1]
      BY <1>1 DEF BeginEvent, TakeSeqNo
    <3>4. QED
      BY <2>1, <3>1, <3>2, <3>3
  <2>2. CASE ~Resume
    BY <2>2 DEF TxInv, BeginEvent, TakeSeqNo
  <2>3. QED
    BY <2>1, <2>2
<1>5. QED
  BY <1>3, <1>4 DEF Begins, BeginEvent

LEMMA AuthorizedBegins ==
    ASSUME TxInv, NEW e \in Evses, NEW token \in Tokens, Authorized(e, token)
    PROVE  Begins(AppOf(e), e, "Updated")
<1>1. /\ tx \in [Evses -> Transactions \cup {None}] /\ tx[e] \in Transactions /\ Resume \in BOOLEAN
      /\ tx[e] # None /\ busy[AppOf(e)] = None
  BY TxAssumption DEF TxInv, TypeOK, Authorized
<1> DEFINE known == TRUE
           new == [id |-> tx[e].id, seq |-> tx[e].seq + 1, token |-> known]
<1>2. tx' = [tx EXCEPT ![e] = new]
  <2>1. tx' = [tx EXCEPT ![e] = [[tx[e] EXCEPT !.token = known] EXCEPT !.seq = tx[e].seq + 1]]
    BY <1>1 DEF Authorized, Transactions
  <2>2. [[tx[e] EXCEPT !.token = known] EXCEPT !.seq = tx[e].seq + 1] = new
    <3>1. known \in BOOLEAN
      OBVIOUS
    <3> HIDE DEF known
    <3>2. [tx[e] EXCEPT !.token = known] = [id |-> tx[e].id, seq |-> tx[e].seq, token |-> known]
      BY <1>1, <3>1 DEF Transactions
    <3>3. [[id |-> tx[e].id, seq |-> tx[e].seq, token |-> known] EXCEPT !.seq = tx[e].seq + 1] = new
      OBVIOUS
    <3>4. QED
      BY <3>2, <3>3
  <2>3. QED
    BY <2>1, <2>2
<1>3. Making(tx[e].id) \ {AppOf(e)} = Making(tx[e].id)
  BY <1>1 DEF Making
<1>4. row' = IF Resume THEN tx' ELSE [f \in Evses |-> None]
  <2>1. CASE Resume
    <3>1. row = tx /\ row' = [row EXCEPT ![e] = tx'[e]]
      BY <2>1 DEF TxInv, Authorized
    <3>2. tx'[e] = new
      BY <1>1, <1>2
    <3> HIDE DEF new
    <3>3. QED
      BY <1>2, <2>1, <3>1, <3>2
  <2>2. CASE ~Resume
    BY <2>2 DEF TxInv, Authorized
  <2>3. QED
    BY <2>1, <2>2
<1>5. /\ busy' = [busy EXCEPT ![AppOf(e)] = [evse |-> e, id |-> tx[e].id, type |-> "Updated",
                                             token |-> token, taken |-> tx[e].seq]]
      /\ raced' = IF Making(tx[e].id) \ {AppOf(e)} # {} THEN raced \cup {tx[e].id} ELSE raced
      /\ UNCHANGED <<sent, remote, asked, interrupted>>
  BY <1>3 DEF Authorized
<1>6. \E k \in BOOLEAN : tx' = [tx EXCEPT ![e] = [id |-> tx[e].id, seq |-> tx[e].seq + 1, token |-> k]]
  BY <1>2
<1>7. QED
  BY <1>1, <1>4, <1>5, <1>6 DEF Begins

\* What a step does to the transactions.
LEMMA TxCases ==
    ASSUME TxInv, [Next]_vars
    PROVE  \/ UNCHANGED txVars
           \/ \E e \in Evses, token \in Tokens \cup {None} : Start(e, token)
           \/ \E t \in Threads, e \in Evses, type \in EventTypes : Begins(t, e, type)
           \/ \E t \in Threads : PushEvent(t)
           \/ \E e \in Evses : Release(e)
           \/ \E e \in Evses, token \in Tokens, reserved \in BOOLEAN : RemoteStart(e, token, reserved)
           \/ Crash
<1>1. ASSUME NEW e \in Evses, Started(e)
      PROVE  Begins(AppOf(e), e, "Started")
  <2>1. busy[AppOf(e)].token \in Tokens \cup {None} /\ tx[e] # None
    BY <1>1, ThreadFacts DEF TxInv, TypeOK, Activities, Current, Started
  <2>2. QED
    BY <1>1, <2>1, BeginEventBegins, ThreadFacts DEF Started
<1>2. ASSUME NEW e \in Evses, Finish(e)
      PROVE  Begins(AppOf(e), e, "Ended")
  BY <1>2, BeginEventBegins, ThreadFacts DEF Finish
<1>3. ASSUME NEW e \in Evses, ChargingStateChanged(e)
      PROVE  Begins(AppOf(e), e, "Updated")
  BY <1>3, BeginEventBegins, ThreadFacts DEF ChargingStateChanged
<1>4. ASSUME NEW e \in Evses, MeterTimer(e)
      PROVE  Begins(TimerOf(e), e, "Updated")
  BY <1>4, BeginEventBegins, ThreadFacts DEF MeterTimer
<1>5. ASSUME NEW e \in Evses, TriggerEvent(e)
      PROVE  Begins(MessageThread, e, "Updated")
  BY <1>5, BeginEventBegins, ThreadFacts DEF TriggerEvent
<1>6. CASE UNCHANGED vars
  BY <1>6 DEF vars, txVars
<1>7. CASE \E e \in Evses, token \in Tokens : Authorized(e, token)
  BY <1>7, AuthorizedBegins, ThreadFacts DEF EventTypes
<1>8. CASE ThreadStep
  BY <1>1, <1>8, ThreadFacts DEF ThreadStep, EventTypes
<1>9. CASE \E e \in Evses : Finish(e) \/ ChargingStateChanged(e) \/ MeterTimer(e) \/ TriggerEvent(e)
  BY <1>2, <1>3, <1>4, <1>5, <1>9, ThreadFacts DEF EventTypes
<1>10. QED
  BY <1>6, <1>7, <1>8, <1>9 DEF Next

\* The bound on outside events only fills up.
LEMMA EventsGrow ==
    ASSUME StatusTypeOK, [Next]_vars
    PROVE  events \in Nat /\ events' \in Nat /\ events <= events'
<1>1. events \in 0..MaxEvents /\ MaxEvents \in Nat
  BY StatusAssumption DEF StatusTypeOK
<1>2. StatusNext => UNCHANGED events \/ Spend
  BY DEF StatusNext, StatusSteps, SubmitEvent, ReadStatus, SendStatus, ConnectedDone, BootAccepted, TriggerStatus,
         SocketOpens, SocketCloses, Connected, Disconnected
<1>3. UNCHANGED events \/ Spend
  BY <1>2, StatusCases
<1>4. QED
  BY <1>1, <1>3 DEF Spend

\* What TxInv says of the types, in the form the proofs below use.
LEMMA TxTypes ==
    ASSUME TxInv
    PROVE  /\ tx \in [Evses -> Transactions \cup {None}]
           /\ busy \in [Threads -> Activities \cup {None}]
           /\ sent \in Seq(Seq(EventRecords))
           /\ Len(sent) \in Nat
           /\ DOMAIN sent = 1..Len(sent)
           /\ \A e \in Evses : tx[e] # None => tx[e] \in Transactions /\ tx[e].id \in 1..Len(sent)
           /\ \A t \in Threads : busy[t] # None => busy[t] \in Activities /\ busy[t].id \in 1..Len(sent)
           /\ \A id \in 1..Len(sent) : sent[id] \in Seq(EventRecords)
           /\ raced \subseteq Ids /\ interrupted \subseteq Ids /\ Len(sent) <= MaxTx /\ MaxTx \in Nat
           /\ asked \in Seq([evse : Evses, token : Tokens])
           /\ remote \in [Evses -> [token : Tokens, id : 1..MaxEvents] \cup {None}]
<1>1. /\ tx \in [Evses -> Transactions \cup {None}]
      /\ busy \in [Threads -> Activities \cup {None}]
      /\ sent \in Seq(Seq(EventRecords))
      /\ raced \subseteq Ids /\ interrupted \subseteq Ids /\ Len(sent) <= MaxTx
      /\ asked \in Seq([evse : Evses, token : Tokens])
      /\ remote \in [Evses -> [token : Tokens, id : 1..MaxEvents] \cup {None}]
  BY DEF TxInv, TypeOK, EventRecords
<1>2. Len(sent) \in Nat /\ DOMAIN sent = 1..Len(sent) /\ MaxTx \in Nat
  BY <1>1, LenProperties, TxAssumption
<1>3. \A id \in 1..Len(sent) : sent[id] \in Seq(EventRecords)
  BY <1>1, <1>2, ElementOfSeq
<1>4. /\ \A e \in Evses : tx[e] # None => tx[e] \in Transactions /\ tx[e].id \in 1..Len(sent)
      /\ \A t \in Threads : busy[t] # None => busy[t] \in Activities /\ busy[t].id \in 1..Len(sent)
  BY <1>1, <1>2 DEF TxInv, Transactions, Activities, Ids
<1>5. QED
  BY <1>1, <1>2, <1>3, <1>4

\* An event is queued with the number that the thread took, or one that another thread took since.
LEMMA PushEventParts ==
    ASSUME TxInv, NEW t \in Threads, PushEvent(t)
    PROVE  \E b \in Activities, n \in Nat :
             /\ b = busy[t] /\ busy[t] # None
             /\ b.type \in EventTypes
             /\ b.id \in 1..Len(sent)
             /\ b.evse \in Evses
             /\ n = b.taken \/ (Current(t) /\ n = tx[b.evse].seq - 1)
             /\ [type |-> b.type, seq |-> n, remote |-> RemoteOf(b)] \in EventRecords
             /\ sent' = [sent EXCEPT ![b.id] = Append(@, [type |-> b.type, seq |-> n, remote |-> RemoteOf(b)])]
             /\ busy' = [busy EXCEPT ![t] = IF b.type = "Ended" THEN [b EXCEPT !.type = "Releasing"] ELSE None]
             /\ ForgetRemote(b)
             /\ UNCHANGED <<tx, row, asked, raced, interrupted>>
<1> DEFINE b == busy[t]
<1>1. b \in Activities /\ b.id \in 1..Len(sent) /\ b.type \in EventTypes /\ b.evse \in Evses /\ b.taken \in Nat
      /\ busy[t] # None
  BY TxTypes DEF PushEvent, Activities
<1>2. PICK n \in SeqNos(b) :
             /\ sent' = [sent EXCEPT ![b.id] = Append(@, [type |-> b.type, seq |-> n, remote |-> RemoteOf(b)])]
             /\ ForgetRemote(b)
             /\ busy' = [busy EXCEPT ![t] = IF b.type = "Ended" THEN [b EXCEPT !.type = "Releasing"] ELSE None]
  BY DEF PushEvent
<1>3. n = b.taken \/ (Current(t) /\ n = tx[b.evse].seq - 1)
  BY <1>2 DEF SeqNos, Current
<1>4. n \in Nat
  <2>1. ASSUME Current(t)
        PROVE  tx[b.evse].seq - 1 \in Nat
    <3>1. tx[b.evse].seq \in Nat
      BY <1>1, <2>1, TxTypes DEF Current, Transactions
    <3>2. b.taken < tx[b.evse].seq
      BY <1>1, <2>1 DEF TxInv
    <3>3. QED
      BY <1>1, <3>1, <3>2
  <2>2. QED
    BY <1>1, <1>3, <2>1
<1>5. RemoteOf(b) \in 0..MaxEvents
  <2>1. remote[b.evse] # None => remote[b.evse].id \in 1..MaxEvents
    BY <1>1, TxTypes
  <2>2. RemoteOf(b) = 0 \/ (remote[b.evse] # None /\ RemoteOf(b) = remote[b.evse].id)
    BY DEF RemoteOf
  <2>3. QED
    BY <2>1, <2>2, StatusAssumption
<1>6. [type |-> b.type, seq |-> n, remote |-> RemoteOf(b)] \in EventRecords
  BY <1>1, <1>4, <1>5 DEF EventRecords
<1>7. UNCHANGED <<tx, row, asked, raced, interrupted>>
  BY DEF PushEvent
<1>8. QED
  BY <1>1, <1>2, <1>3, <1>4, <1>6, <1>7

LEMMA NextTxInv == TxInv /\ [Next]_vars => TxInv'
<1> SUFFICES ASSUME TxInv, [Next]_vars
             PROVE  TxInv'
  OBVIOUS
<1>0. StatusTypeOK' /\ events \in Nat /\ events' \in Nat /\ events <= events'
  BY NextStatusTypes, EventsGrow DEF TxInv, TypeOK
<1>1. /\ Len(asked) \in Nat /\ Len(asked) <= events /\ Resume \in BOOLEAN
      /\ row = IF Resume THEN tx ELSE [e \in Evses |-> None]
      /\ row \in [Evses -> Transactions \cup {None}]
      /\ \A e, f \in Evses : tx[e] # None /\ tx[f] # None /\ tx[e].id = tx[f].id => e = f
      /\ \A e \in Evses : busy[AppOf(e)] # None => busy[AppOf(e)].evse = e /\ Current(AppOf(e))
      /\ \A t \in Threads : busy[t] # None /\ busy[t].type \in EventTypes /\ Current(t)
                            => busy[t].taken < tx[busy[t].evse].seq
      /\ raced \subseteq 1..Len(sent) /\ interrupted \subseteq 1..Len(sent)
  BY TxAssumption, LenProperties DEF TxInv, TypeOK
\* What has to be shown when the types are right and the EVSEs and threads fit together.
<1>2. ASSUME tx' \in [Evses -> Transactions \cup {None}],
             busy' \in [Threads -> Activities \cup {None}],
             sent' \in Seq(Seq(EventRecords)), Len(sent') <= MaxTx,
             remote' \in [Evses -> [token : Tokens, id : 1..MaxEvents] \cup {None}],
             asked' \in Seq([evse : Evses, token : Tokens]), Len(asked') <= events',
             row' = IF Resume THEN tx' ELSE [e \in Evses |-> None],
             \A e \in Evses : tx'[e] # None => tx'[e].id <= Len(sent'),
             \A e, f \in Evses : tx'[e] # None /\ tx'[f] # None /\ tx'[e].id = tx'[f].id => e = f,
             \A t \in Threads : busy'[t] # None => busy'[t].id <= Len(sent'),
             \A e \in Evses : busy'[AppOf(e)] # None => busy'[AppOf(e)].evse = e /\ Current(AppOf(e))',
             \A t \in Threads : busy'[t] # None /\ busy'[t].type \in EventTypes /\ Current(t)'
                                => busy'[t].taken < tx'[busy'[t].evse].seq,
             raced' \subseteq 1..Len(sent') /\ interrupted' \subseteq 1..Len(sent')
      PROVE  TxInv'
  <2>1. row' \in [Evses -> Transactions \cup {None}]
    BY <1>2
  <2>2. raced' \subseteq Ids /\ interrupted' \subseteq Ids
    <3>1. Len(sent') \in Nat /\ MaxTx \in Nat
      BY <1>2, LenProperties, TxAssumption
    <3>2. QED
      BY <1>2, <3>1 DEF Ids
  <2>3. TypeOK'
    BY <1>0, <1>2, <2>1, <2>2 DEF TypeOK, EventRecords
  <2>4. QED
    BY <1>2, <2>3 DEF TxInv
<1>3. CASE UNCHANGED txVars
  <2>1. UNCHANGED <<tx, row, busy, sent, remote, asked, raced, interrupted>>
    BY <1>3 DEF txVars
  <2>2. Len(asked) <= events'
    BY <1>0, <1>1
  <2>3. \A t \in Threads : busy'[t] # None => (Current(t)' <=> Current(t))
    BY <2>1 DEF Current
  <2>4. \A e \in Evses : busy'[AppOf(e)] # None => busy'[AppOf(e)].evse = e /\ Current(AppOf(e))'
    BY <1>1, <2>1, <2>3, ThreadFacts
  <2>5. \A t \in Threads : busy'[t] # None /\ busy'[t].type \in EventTypes /\ Current(t)'
                                => busy'[t].taken < tx'[busy'[t].evse].seq
    BY <1>1, <2>1, <2>3
  <2>6. QED
    BY <1>1, <1>2, <2>1, <2>2, <2>4, <2>5, TxTypes
<1>4. ASSUME NEW e \in Evses, NEW token \in Tokens \cup {None}, Start(e, token)
      PROVE  TxInv'
  <2> DEFINE id == Len(sent) + 1
             new == [id |-> id, seq |-> 0, token |-> token # None]
             act == [evse |-> e, id |-> id, type |-> "Opened", token |-> token, taken |-> 0]
             a == AppOf(e)
  <2>1. /\ Len(sent) < MaxTx /\ busy[a] = None /\ tx[e] = None
        /\ tx' = [tx EXCEPT ![e] = new]
        /\ row' = IF Resume THEN [row EXCEPT ![e] = new] ELSE row
        /\ sent' = Append(sent, <<>>)
        /\ busy' = [busy EXCEPT ![a] = act]
        /\ UNCHANGED <<remote, asked, raced, interrupted>>
    BY <1>4 DEF Start, OpenTransaction
  <2>2. id \in Ids
    BY <2>1, TxTypes DEF Ids
  <2>3. new \in Transactions /\ act \in Activities /\ new # None /\ act # None /\ new.id = id /\ act.id = id
        /\ act.evse = e /\ act.type = "Opened"
    <3>1. PICK known \in BOOLEAN : known = (token # None)
      OBVIOUS
    <3>2. new = [id |-> id, seq |-> 0, token |-> known]
      BY <3>1
    <3>3. [id |-> id, seq |-> 0, token |-> known] \in Transactions
      BY <2>2 DEF Transactions
    <3>4. new \in Transactions /\ new.id = id
      BY <3>2, <3>3
    <3>5. act \in Activities /\ act.id = id /\ act.evse = e /\ act.type = "Opened"
      BY <2>2 DEF Activities
    <3>6. QED
      BY <3>4, <3>5, NoneAssumption
  <2> HIDE DEF new, act
  <2>4. /\ sent' \in Seq(Seq(EventRecords)) /\ Len(sent') = Len(sent) + 1
    <3>1. <<>> \in Seq(EventRecords)
      OBVIOUS
    <3>2. QED
      BY <2>1, <3>1, TxTypes, AppendProperties
  <2>5. tx' \in [Evses -> Transactions \cup {None}] /\ tx'[e] = new /\ \A f \in Evses \ {e} : tx'[f] = tx[f]
    BY <2>1, <2>3, TxTypes
  <2>6. a \in Threads /\ busy' \in [Threads -> Activities \cup {None}] /\ busy'[a] = act
        /\ \A t \in Threads \ {a} : busy'[t] = busy[t]
    BY <2>1, <2>3, TxTypes, ThreadFacts
  <2>7. row' = IF Resume THEN tx' ELSE [f \in Evses |-> None]
    BY <1>1, <2>1
  <2>8. \A f \in Evses : tx'[f] # None => tx'[f].id <= Len(sent')
    BY <2>3, <2>4, <2>5, TxTypes, SMTT(30)
  <2>9. \A f \in Evses \ {e} : tx[f] # None => tx[f].id # id
    BY TxTypes
  <2>10. \A f, g \in Evses : tx'[f] # None /\ tx'[g] # None /\ tx'[f].id = tx'[g].id => f = g
    BY <1>1, <2>3, <2>5, <2>9
  <2>11. \A t \in Threads : busy'[t] # None => busy'[t].id <= Len(sent')
    <3>1. busy'[a].id <= Len(sent')
      BY <2>3, <2>4, <2>6, TxTypes
    <3>2. \A t \in Threads \ {a} : busy'[t] # None => busy'[t].id <= Len(sent')
      BY <2>4, <2>6, TxTypes
    <3>3. QED
      BY <3>1, <3>2
  <2>12. \A f \in Evses : busy'[AppOf(f)] # None => busy'[AppOf(f)].evse = f /\ Current(AppOf(f))'
    <3>1. TAKE f \in Evses
    <3>2. CASE f = e
      BY <2>3, <2>5, <2>6, <3>2 DEF Current
    <3>3. CASE f # e
      <4>1. AppOf(f) \in Threads \ {a}
        BY <3>3, ThreadFacts
      <4>2. QED
        BY <1>1, <2>5, <2>6, <3>3, <4>1 DEF Current
    <3>4. QED
      BY <3>2, <3>3
  <2>13. \A t \in Threads : busy'[t] # None /\ busy'[t].type \in EventTypes /\ Current(t)'
                            => busy'[t].taken < tx'[busy'[t].evse].seq
    <3>1. SUFFICES ASSUME NEW t \in Threads, busy'[t] # None, busy'[t].type \in EventTypes, Current(t)'
                   PROVE  busy'[t].taken < tx'[busy'[t].evse].seq
      OBVIOUS
    <3>2. t # a
      BY <2>3, <2>6, <3>1 DEF EventTypes
    <3>3. busy'[t] = busy[t] /\ busy[t].id \in 1..Len(sent) /\ busy[t].evse \in Evses
      BY <2>6, <3>1, <3>2, TxTypes DEF Activities
    <3>4. busy[t].evse # e
      BY <2>3, <2>5, <3>1, <3>3, TxTypes DEF Current
    <3>5. QED
      BY <1>1, <2>5, <3>1, <3>3, <3>4 DEF Current
  <2>14. Len(sent') <= MaxTx /\ Len(asked') <= events'
    BY <1>0, <1>1, <2>1, <2>4, TxTypes
  <2>15. raced' \subseteq 1..Len(sent') /\ interrupted' \subseteq 1..Len(sent')
    BY <1>1, <2>1, <2>4, TxTypes
  <2>16. QED
    BY <1>2, <2>1, <2>4, <2>5, <2>6, <2>7, <2>8, <2>10, <2>11, <2>12, <2>13, <2>14, <2>15, TxTypes
<1>5. ASSUME NEW t \in Threads, NEW e \in Evses, NEW type \in EventTypes, Begins(t, e, type)
      PROVE  TxInv'
  <2>1. PICK token \in Tokens \cup {None}, known \in BOOLEAN :
             /\ busy' = [busy EXCEPT ![t] = [evse |-> e, id |-> tx[e].id, type |-> type, token |-> token,
                                             taken |-> tx[e].seq]]
             /\ tx' = [tx EXCEPT ![e] = [id |-> tx[e].id, seq |-> tx[e].seq + 1, token |-> known]]
    BY <1>5 DEF Begins
  <2> DEFINE act == [evse |-> e, id |-> tx[e].id, type |-> type, token |-> token, taken |-> tx[e].seq]
             new == [id |-> tx[e].id, seq |-> tx[e].seq + 1, token |-> known]
  <2>2. tx[e] # None /\ tx[e] \in Transactions /\ tx[e].id \in Ids /\ tx[e].seq \in Nat /\ tx[e].id \in 1..Len(sent)
    BY <1>5, TxTypes DEF Begins, Transactions
  <2>3. new \in Transactions /\ act \in Activities /\ new # None /\ act # None /\ new.id = tx[e].id
        /\ new.seq = tx[e].seq + 1 /\ act.id = tx[e].id /\ act.evse = e /\ act.taken = tx[e].seq
    BY <2>2, NoneAssumption DEF Transactions, Activities
  <2>4. tx' = [tx EXCEPT ![e] = new] /\ busy' = [busy EXCEPT ![t] = act]
    BY <2>1
  <2> HIDE DEF new, act
  <2>5. tx' \in [Evses -> Transactions \cup {None}] /\ tx'[e] = new /\ \A f \in Evses \ {e} : tx'[f] = tx[f]
    BY <2>3, <2>4, TxTypes
  <2>6. busy' \in [Threads -> Activities \cup {None}] /\ busy'[t] = act /\ \A u \in Threads \ {t} : busy'[u] = busy[u]
    BY <2>3, <2>4, TxTypes
  <2>7. /\ row' = IF Resume THEN tx' ELSE [f \in Evses |-> None]
        /\ raced' \subseteq raced \cup {tx[e].id}
        /\ UNCHANGED <<sent, remote, asked, interrupted>>
    BY <1>5 DEF Begins
  <2>8. \A f \in Evses : (tx'[f] # None <=> tx[f] # None) /\ (tx[f] # None => tx'[f].id = tx[f].id)
    BY <2>2, <2>3, <2>5
  <2>9. \A f \in Evses : tx'[f] # None => tx'[f].id <= Len(sent')
    BY <2>7, <2>8, TxTypes
  <2>10. \A f, g \in Evses : tx'[f] # None /\ tx'[g] # None /\ tx'[f].id = tx'[g].id => f = g
    BY <1>1, <2>8
  <2>11. \A u \in Threads : busy'[u] # None => busy'[u].id <= Len(sent')
    BY <2>2, <2>3, <2>6, <2>7, TxTypes
  <2>12. \A f \in Evses : busy'[AppOf(f)] # None => busy'[AppOf(f)].evse = f /\ Current(AppOf(f))'
    <3>1. TAKE f \in Evses
    <3>2. CASE AppOf(f) = t
      <4>1. f = e
        BY <1>5, <3>2, ThreadFacts DEF Begins
      <4>2. QED
        BY <2>3, <2>5, <2>6, <3>2, <4>1 DEF Current
    <3>3. CASE AppOf(f) # t
      <4>1. AppOf(f) \in Threads \ {t}
        BY <3>3, ThreadFacts
      <4>2. QED
        BY <1>1, <2>6, <2>8, <4>1 DEF Current
    <3>4. QED
      BY <3>2, <3>3
  <2>13. \A u \in Threads : busy'[u] # None /\ busy'[u].type \in EventTypes /\ Current(u)'
                            => busy'[u].taken < tx'[busy'[u].evse].seq
    <3>1. SUFFICES ASSUME NEW u \in Threads, busy'[u] # None, busy'[u].type \in EventTypes, Current(u)'
                   PROVE  busy'[u].taken < tx'[busy'[u].evse].seq
      OBVIOUS
    <3>2. CASE u = t
      BY <2>2, <2>3, <2>5, <2>6, <3>2
    <3>3. CASE u # t
      <4>1. busy'[u] = busy[u] /\ busy[u].evse \in Evses /\ busy[u].taken \in Nat
        BY <2>6, <3>1, <3>3, TxTypes DEF Activities
      <4>2. Current(u)
        BY <2>8, <3>1, <4>1 DEF Current
      <4>3. busy[u].taken < tx[busy[u].evse].seq
        BY <1>1, <3>1, <4>1, <4>2
      <4>4. CASE busy[u].evse = e
        BY <2>2, <2>3, <2>5, <4>1, <4>3, <4>4
      <4>5. CASE busy[u].evse # e
        BY <2>5, <4>1, <4>3, <4>5
      <4>6. QED
        BY <4>4, <4>5
    <3>4. QED
      BY <3>2, <3>3
  <2>14. Len(sent') <= MaxTx /\ Len(asked') <= events'
    BY <1>0, <1>1, <2>7, TxTypes
  <2>15. raced' \subseteq 1..Len(sent') /\ interrupted' \subseteq 1..Len(sent')
    BY <1>1, <2>2, <2>7
  <2>16. QED
    BY <1>2, <2>5, <2>6, <2>7, <2>9, <2>10, <2>11, <2>12, <2>13, <2>14, <2>15, TxTypes
<1>6. ASSUME NEW t \in Threads, PushEvent(t)
      PROVE  TxInv'
  <2>1. PICK b \in Activities, n \in Nat :
             /\ b = busy[t] /\ busy[t] # None
             /\ b.type \in EventTypes
             /\ b.id \in 1..Len(sent)
             /\ b.evse \in Evses
             /\ [type |-> b.type, seq |-> n, remote |-> RemoteOf(b)] \in EventRecords
             /\ sent' = [sent EXCEPT ![b.id] = Append(@, [type |-> b.type, seq |-> n, remote |-> RemoteOf(b)])]
             /\ busy' = [busy EXCEPT ![t] = IF b.type = "Ended" THEN [b EXCEPT !.type = "Releasing"] ELSE None]
             /\ ForgetRemote(b)
             /\ UNCHANGED <<tx, row, asked, raced, interrupted>>
    BY <1>6, PushEventParts
  <2> DEFINE event == [type |-> b.type, seq |-> n, remote |-> RemoteOf(b)]
             next == IF b.type = "Ended" THEN [b EXCEPT !.type = "Releasing"] ELSE None
  <2>2. next \in Activities \cup {None}
        /\ (next # None => next.evse = b.evse /\ next.id = b.id /\ next.type \notin EventTypes)
    BY <2>1 DEF Activities, EventTypes
  <2>3. sent' \in Seq(Seq(EventRecords)) /\ Len(sent') = Len(sent)
    <3>1. Append(sent[b.id], event) \in Seq(EventRecords)
      BY <2>1, TxTypes, AppendProperties
    <3> HIDE DEF event
    <3>2. sent' = [sent EXCEPT ![b.id] = Append(sent[b.id], event)]
      BY <2>1 DEF event
    <3>3. QED
      BY <2>1, <3>1, <3>2, TxTypes, ExceptSeq
  <2> HIDE DEF next
  <2>4. busy' \in [Threads -> Activities \cup {None}] /\ busy'[t] = next /\ \A u \in Threads \ {t} : busy'[u] = busy[u]
    BY <2>1, <2>2, TxTypes DEF next
  <2>5. remote' \in [Evses -> [token : Tokens, id : 1..MaxEvents] \cup {None}]
    BY <2>1, TxTypes DEF ForgetRemote
  <2>6. \A u \in Threads : busy'[u] # None => /\ busy[u] # None /\ busy'[u].id = busy[u].id /\ busy'[u].evse = busy[u].evse
                                              /\ busy'[u].type \in EventTypes => busy'[u] = busy[u]
    BY <2>1, <2>2, <2>4
  <2>7. \A u \in Threads : busy'[u] # None /\ Current(u)' => Current(u)
    BY <2>1, <2>6 DEF Current
  <2>8. \A u \in Threads : busy'[u] # None /\ Current(u) => Current(u)'
    BY <2>1, <2>6 DEF Current
  <2>9. \A f \in Evses : busy'[AppOf(f)] # None => busy'[AppOf(f)].evse = f /\ Current(AppOf(f))'
    BY <1>1, <2>6, <2>8, ThreadFacts
  <2>10. \A u \in Threads : busy'[u] # None /\ busy'[u].type \in EventTypes /\ Current(u)'
                            => busy'[u].taken < tx'[busy'[u].evse].seq
    BY <1>1, <2>1, <2>6, <2>7
  <2>11. Len(sent') <= MaxTx /\ Len(asked') <= events'
    BY <1>0, <1>1, <2>1, <2>3, TxTypes
  <2>12. /\ \A e \in Evses : tx'[e] # None => tx'[e].id <= Len(sent')
         /\ \A u \in Threads : busy'[u] # None => busy'[u].id <= Len(sent')
    BY <2>1, <2>3, <2>6, TxTypes
  <2>13. QED
    BY <1>1, <1>2, <2>1, <2>3, <2>4, <2>5, <2>9, <2>10, <2>11, <2>12, TxTypes
<1>7. ASSUME NEW e \in Evses, Release(e)
      PROVE  TxInv'
  <2>1. /\ busy[AppOf(e)] # None
        /\ row' = IF row[e] # None /\ row[e].id = tx[e].id THEN [row EXCEPT ![e] = None] ELSE row
        /\ tx' = [tx EXCEPT ![e] = None]
        /\ busy' = [busy EXCEPT ![AppOf(e)] = None]
        /\ UNCHANGED <<sent, remote, asked, raced, interrupted>>
    BY <1>7 DEF Release
  <2>2. row' = IF Resume THEN tx' ELSE [f \in Evses |-> None]
    <3>1. CASE Resume
      <4>1. row = tx /\ tx[e] # None
        BY <1>1, <2>1, <3>1, ThreadFacts DEF Current
      <4>2. QED
        BY <2>1, <3>1, <4>1
    <3>2. CASE ~Resume
      BY <1>1, <2>1, <3>2
    <3>3. QED
      BY <3>1, <3>2
  <2>3. tx' \in [Evses -> Transactions \cup {None}] /\ tx'[e] = None /\ \A f \in Evses \ {e} : tx'[f] = tx[f]
    BY <2>1, TxTypes
  <2>4. /\ busy' \in [Threads -> Activities \cup {None}] /\ busy'[AppOf(e)] = None
        /\ \A u \in Threads \ {AppOf(e)} : busy'[u] = busy[u]
    BY <2>1, TxTypes, ThreadFacts
  <2>5. \A f \in Evses : tx'[f] # None => tx[f] # None /\ f # e /\ tx'[f] = tx[f]
    BY <2>3
  <2>6. \A u \in Threads : busy'[u] # None => u # AppOf(e) /\ busy'[u] = busy[u]
    BY <2>4
  <2>7. \A f \in Evses : busy'[AppOf(f)] # None => busy'[AppOf(f)].evse = f /\ Current(AppOf(f))'
    BY <1>1, <2>3, <2>6, ThreadFacts DEF Current
  <2>8. \A u \in Threads : busy'[u] # None /\ busy'[u].type \in EventTypes /\ Current(u)'
                            => busy'[u].taken < tx'[busy'[u].evse].seq
    <3>1. SUFFICES ASSUME NEW u \in Threads, busy'[u] # None, busy'[u].type \in EventTypes, Current(u)'
                   PROVE  busy'[u].taken < tx'[busy'[u].evse].seq
      OBVIOUS
    <3>2. busy'[u] = busy[u] /\ busy[u].evse \in Evses
      BY <2>6, <3>1, TxTypes DEF Activities
    <3>3. tx'[busy[u].evse] = tx[busy[u].evse] /\ Current(u)
      BY <2>5, <3>1, <3>2 DEF Current
    <3>4. QED
      BY <1>1, <3>1, <3>2, <3>3
  <2>9. Len(sent') <= MaxTx /\ Len(asked') <= events'
    BY <1>0, <1>1, <2>1, TxTypes
  <2>10. /\ \A f \in Evses : tx'[f] # None => tx'[f].id <= Len(sent')
         /\ \A u \in Threads : busy'[u] # None => busy'[u].id <= Len(sent')
         /\ \A f, g \in Evses : tx'[f] # None /\ tx'[g] # None /\ tx'[f].id = tx'[g].id => f = g
    BY <1>1, <2>1, <2>5, <2>6, TxTypes
  <2>11. QED
    BY <1>1, <1>2, <2>1, <2>2, <2>3, <2>4, <2>7, <2>8, <2>9, <2>10, TxTypes
<1>8. ASSUME NEW e \in Evses, NEW token \in Tokens, NEW reserved \in BOOLEAN, RemoteStart(e, token, reserved)
      PROVE  TxInv'
  <2>1. /\ UNCHANGED <<tx, row, busy, sent, raced, interrupted>>
        /\ asked' = Append(asked, [evse |-> e, token |-> token])
        /\ events' = events + 1 /\ events < MaxEvents
        /\ remote' = remote \/ remote' = [remote EXCEPT ![e] = [token |-> token, id |-> Len(asked) + 1]]
    BY <1>8 DEF RemoteStart, Spend
  <2>2. asked' \in Seq([evse : Evses, token : Tokens]) /\ Len(asked') = Len(asked) + 1
    BY <2>1, TxTypes, AppendProperties
  <2>3. Len(asked') <= events' /\ Len(asked) + 1 \in 1..MaxEvents
    BY <1>0, <1>1, <2>1, <2>2, StatusAssumption
  <2>4. remote' \in [Evses -> [token : Tokens, id : 1..MaxEvents] \cup {None}]
    BY <2>1, <2>3, TxTypes
  <2>5. \A t \in Threads : busy'[t] # None => (Current(t)' <=> Current(t))
    BY <2>1 DEF Current
  <2>6. \A f \in Evses : busy'[AppOf(f)] # None => busy'[AppOf(f)].evse = f /\ Current(AppOf(f))'
    BY <1>1, <2>1, <2>5, ThreadFacts
  <2>7. \A t \in Threads : busy'[t] # None /\ busy'[t].type \in EventTypes /\ Current(t)'
                                => busy'[t].taken < tx'[busy'[t].evse].seq
    BY <1>1, <2>1, <2>5
  <2>8. QED
    BY <1>1, <1>2, <2>1, <2>2, <2>3, <2>4, <2>6, <2>7, TxTypes
<1>9. CASE Crash
  <2>1. /\ tx' = [e \in Evses |-> Resumed(e)] /\ row' = tx'
        /\ busy' = [t \in Threads |-> None]
        /\ interrupted' = interrupted \cup {busy[t].id : t \in {u \in Threads : busy[u] # None}}
        /\ remote' = [e \in Evses |-> None]
        /\ UNCHANGED <<sent, asked, raced>>
    BY <1>9 DEF Crash
  <2>2. tx' = IF Resume THEN tx ELSE [e \in Evses |-> None]
    BY <1>1, <2>1, TxTypes DEF Resumed
  <2>3. row' = IF Resume THEN tx' ELSE [e \in Evses |-> None]
    BY <2>1, <2>2
  <2>4. tx' \in [Evses -> Transactions \cup {None}] /\ \A e \in Evses : tx'[e] # None => tx[e] # None /\ tx'[e] = tx[e]
    BY <2>2, TxTypes
  <2>5. /\ busy' \in [Threads -> Activities \cup {None}] /\ \A t \in Threads : busy'[t] = None
        /\ remote' \in [Evses -> [token : Tokens, id : 1..MaxEvents] \cup {None}]
    BY <2>1
  <2>6. raced' \subseteq 1..Len(sent') /\ interrupted' \subseteq 1..Len(sent')
    BY <1>1, <2>1, TxTypes
  <2>7. Len(sent') <= MaxTx /\ Len(asked') <= events'
    BY <1>0, <1>1, <2>1, TxTypes
  <2>8. /\ \A f \in Evses : tx'[f] # None => tx'[f].id <= Len(sent')
        /\ \A f, g \in Evses : tx'[f] # None /\ tx'[g] # None /\ tx'[f].id = tx'[g].id => f = g
    BY <1>1, <2>1, <2>4, TxTypes
  <2>9. QED
    BY <1>2, <2>1, <2>3, <2>4, <2>5, <2>6, <2>7, <2>8, ThreadFacts, TxTypes
<1>10. QED
  BY <1>3, <1>4, <1>5, <1>6, <1>7, <1>8, <1>9, TxCases

LEMMA InitTxInv == Init => TxInv
<1> SUFFICES ASSUME Init
             PROVE  TxInv
  OBVIOUS
<1>1. StatusTypeOK /\ events = 0
  BY InitStatus DEF Init, StatusInit
<1>2. /\ tx \in [Evses -> Transactions \cup {None}] /\ row \in [Evses -> Transactions \cup {None}]
      /\ busy \in [Threads -> Activities \cup {None}]
      /\ remote \in [Evses -> [token : Tokens, id : 1..MaxEvents] \cup {None}]
      /\ \A e \in Evses : tx[e] = None
      /\ \A t \in Threads : busy[t] = None
  BY DEF Init
<1>3. /\ sent \in Seq(Seq(EventRecords)) /\ Len(sent) = 0
      /\ asked \in Seq([evse : Evses, token : Tokens]) /\ Len(asked) = 0
      /\ raced = {} /\ interrupted = {}
  BY DEF Init
<1>4. TypeOK
  BY <1>1, <1>2, <1>3, TxAssumption DEF TypeOK, EventRecords
<1>5. row = IF Resume THEN tx ELSE [e \in Evses |-> None]
  BY DEF Init
<1>6. QED
  BY <1>1, <1>2, <1>3, <1>4, <1>5, ThreadFacts DEF TxInv

\* Every variable keeps its type, for any EVSEs, tokens, transactions, crashes and connections; the
\* numbers that get_seq_no hands out are never negative, also when two threads make events at once.
THEOREM TypeCorrect == Spec => []TypeOK
<1>1. TxInv => TypeOK
  BY DEF TxInv
<1>2. QED
  BY <1>1, InitTxInv, NextTxInv, PTL DEF Spec

\* The event is the last of its transaction; the others are as they were.
LEMMA PushedEvents ==
    ASSUME TxInv, NEW id \in 1..Len(sent), NEW event \in EventRecords,
           sent' = [sent EXCEPT ![id] = Append(@, event)]
    PROVE  /\ Len(sent') = Len(sent)
           /\ sent'[id] = Append(sent[id], event)
           /\ \A jd \in 1..Len(sent) : jd # id => sent'[jd] = sent[jd]
           /\ Len(sent[id]) \in Nat
           /\ Len(sent'[id]) = Len(sent[id]) + 1
           /\ \A i \in 1..Len(sent[id]) : sent'[id][i] = sent[id][i]
           /\ sent'[id][Len(sent[id]) + 1] = event
<1>1. sent[id] \in Seq(EventRecords) /\ DOMAIN sent = 1..Len(sent)
  BY TxTypes
<1>2. sent' = [sent EXCEPT ![id] = Append(sent[id], event)]
  OBVIOUS
<1>3. /\ Append(sent[id], event) \in Seq(EventRecords)
      /\ Len(Append(sent[id], event)) = Len(sent[id]) + 1
      /\ \A i \in 1..Len(sent[id]) : Append(sent[id], event)[i] = sent[id][i]
      /\ Append(sent[id], event)[Len(sent[id]) + 1] = event
  BY <1>1, AppendProperties
<1>4. Len(sent') = Len(sent) /\ Len(sent[id]) \in Nat
  BY <1>1, <1>2, <1>3, TxTypes, ExceptSeq, LenProperties
<1>5. sent'[id] = Append(sent[id], event) /\ \A jd \in 1..Len(sent) : jd # id => sent'[jd] = sent[jd]
  BY <1>1, <1>2, TxTypes
<1>6. QED
  BY <1>3, <1>4, <1>5
-----------------------------------------------------------------------------
(* Remote starts *)

\* No event of s reports the remote start r.
Unreported(r, s) == \A id \in 1..Len(s) : \A i \in 1..Len(s[id]) : s[id][i].remote # r

\* The remote starts that are reported are among the first n, and reported by a Started.
ByStarted(s, n) ==
    \A id \in 1..Len(s) : \A i \in 1..Len(s[id]) :
        s[id][i].remote \in 0..n /\ (s[id][i].remote # 0 => s[id][i].type = "Started")

ReportedOnce(s) ==
    \A id, jd \in 1..Len(s) : \A i \in 1..Len(s[id]), j \in 1..Len(s[jd]) :
        s[id][i].remote = s[jd][j].remote /\ s[id][i].remote # 0 => id = jd /\ i = j

\* Each entry of remote_start_id_per_evse stands for a request that no event has reported.
RemoteInv ==
    /\ \A e \in Evses : remote[e] # None => remote[e].id \in 1..Len(asked) /\ Unreported(remote[e].id, sent)
    /\ \A e, f \in Evses : remote[e] # None /\ remote[f] # None /\ remote[e].id = remote[f].id => e = f
    /\ ByStarted(sent, Len(asked))
    /\ ReportedOnce(sent)

\* The events of a step that queues none: those of before, and perhaps a new transaction without any.
LEMMA SameEvents ==
    ASSUME TxInv, [Next]_vars, ~\E t \in Threads : PushEvent(t)
    PROVE  /\ Len(sent) <= Len(sent')
           /\ \A id \in 1..Len(sent) : sent'[id] = sent[id]
           /\ \A id \in 1..Len(sent') : id > Len(sent) => sent'[id] = <<>>
<1>1. CASE UNCHANGED sent
  BY <1>1, TxTypes
<1>2. ASSUME NEW e \in Evses, NEW token \in Tokens \cup {None}, Start(e, token)
      PROVE  /\ Len(sent) <= Len(sent')
             /\ \A id \in 1..Len(sent) : sent'[id] = sent[id]
             /\ \A id \in 1..Len(sent') : id > Len(sent) => sent'[id] = <<>>
  <2>1. sent' = Append(sent, <<>>) /\ <<>> \in Seq(EventRecords)
    BY <1>2 DEF Start
  <2>2. QED
    BY <2>1, TxTypes, AppendProperties
<1>3. QED
  BY <1>1, <1>2, TxCases DEF txVars, Begins, Release, RemoteStart, Crash

\* A step that queues no event reports no remote start.
LEMMA SameReports ==
    ASSUME TxInv, [Next]_vars, ~\E t \in Threads : PushEvent(t), NEW n \in Nat, NEW m \in Nat, n <= m
    PROVE  /\ \A r : Unreported(r, sent) => Unreported(r, sent')
           /\ ByStarted(sent, n) => ByStarted(sent', m)
           /\ ReportedOnce(sent) => ReportedOnce(sent')
<1>1. /\ Len(sent) <= Len(sent') /\ Len(sent) \in Nat /\ Len(sent') \in Nat
      /\ \A id \in 1..Len(sent) : sent'[id] = sent[id]
      /\ \A id \in 1..Len(sent') : id > Len(sent) => sent'[id] = <<>>
  BY SameEvents, NextTxInv, LenProperties DEF TxInv, TypeOK
<1>2. \A id \in 1..Len(sent') : \A i \in 1..Len(sent'[id]) :
          id \in 1..Len(sent) /\ i \in 1..Len(sent[id]) /\ sent'[id][i] = sent[id][i]
  BY <1>1
<1>3. \A r : Unreported(r, sent) => Unreported(r, sent')
  BY <1>2 DEF Unreported
<1>4. ASSUME ByStarted(sent, n)
      PROVE  ByStarted(sent', m)
  <2>1. ASSUME NEW id \in 1..Len(sent'), NEW i \in 1..Len(sent'[id])
        PROVE  sent'[id][i].remote \in 0..m /\ (sent'[id][i].remote # 0 => sent'[id][i].type = "Started")
    <3>1. sent[id][i].remote \in 0..n /\ (sent[id][i].remote # 0 => sent[id][i].type = "Started")
      BY <1>2, <1>4, <2>1 DEF ByStarted
    <3>2. sent'[id][i] = sent[id][i]
      BY <1>2, <2>1
    <3>3. QED
      BY <3>1, <3>2
  <2>2. QED
    BY <2>1 DEF ByStarted
<1>5. ASSUME ReportedOnce(sent)
      PROVE  ReportedOnce(sent')
  <2>1. SUFFICES ASSUME NEW jd \in 1..Len(sent'), NEW kd \in 1..Len(sent'),
                        NEW j \in 1..Len(sent'[jd]), NEW k \in 1..Len(sent'[kd]),
                        sent'[jd][j].remote = sent'[kd][k].remote, sent'[jd][j].remote # 0
                 PROVE  jd = kd /\ j = k
    BY DEF ReportedOnce
  <2>2. /\ jd \in 1..Len(sent) /\ j \in 1..Len(sent[jd]) /\ sent'[jd][j] = sent[jd][j]
        /\ kd \in 1..Len(sent) /\ k \in 1..Len(sent[kd]) /\ sent'[kd][k] = sent[kd][k]
    BY <1>2
  <2>3. sent[jd][j].remote = sent[kd][k].remote /\ sent[jd][j].remote # 0
    BY <2>1, <2>2
  <2>4. \A x \in 1..Len(sent[jd]), y \in 1..Len(sent[kd]) :
            sent[jd][x].remote = sent[kd][y].remote /\ sent[jd][x].remote # 0 => jd = kd /\ x = y
    BY <1>5, <2>2, SMTT(30) DEF ReportedOnce
  <2>5. QED
    BY <2>2, <2>3, <2>4
<1>6. QED
  BY <1>3, <1>4, <1>5

\* An event that is queued reports one more remote start, or none.
LEMMA MoreReports ==
    ASSUME TxInv, NEW id \in 1..Len(sent), NEW event \in EventRecords,
           sent' = [sent EXCEPT ![id] = Append(@, event)], NEW n \in Nat
    PROVE  /\ \A r : Unreported(r, sent) /\ event.remote # r => Unreported(r, sent')
           /\ event.remote \in 0..n /\ (event.remote # 0 => event.type = "Started") /\ ByStarted(sent, n)
              => ByStarted(sent', n)
           /\ (event.remote # 0 => Unreported(event.remote, sent)) /\ ReportedOnce(sent) => ReportedOnce(sent')
<1>1. /\ Len(sent') = Len(sent)
      /\ \A jd \in 1..Len(sent) : jd # id => sent'[jd] = sent[jd]
      /\ Len(sent[id]) \in Nat
      /\ Len(sent'[id]) = Len(sent[id]) + 1
      /\ \A i \in 1..Len(sent[id]) : sent'[id][i] = sent[id][i]
      /\ sent'[id][Len(sent[id]) + 1] = event
  BY PushedEvents
<1>2. ASSUME NEW jd \in 1..Len(sent'), NEW j \in 1..Len(sent'[jd])
      PROVE  /\ jd \in 1..Len(sent)
             /\ \/ j \in 1..Len(sent[jd]) /\ sent'[jd][j] = sent[jd][j]
                \/ jd = id /\ j = Len(sent[id]) + 1 /\ sent'[jd][j] = event
  <2>1. jd \in 1..Len(sent)
    BY <1>1
  <2>2. CASE jd # id
    BY <1>1, <2>1, <2>2
  <2>3. CASE jd = id
    BY <1>1, <2>1, <2>3
  <2>4. QED
    BY <2>1, <2>2, <2>3
<1> DEFINE Old(jd, j) == j \in 1..Len(sent[jd]) /\ sent'[jd][j] = sent[jd][j]
           Newest(jd, j) == jd = id /\ j = Len(sent[id]) + 1 /\ sent'[jd][j] = event
<1>3. \A jd \in 1..Len(sent') : \A j \in 1..Len(sent'[jd]) : jd \in 1..Len(sent) /\ (Old(jd, j) \/ Newest(jd, j))
  BY <1>2
<1>4. ASSUME NEW r, Unreported(r, sent), event.remote # r
      PROVE  Unreported(r, sent')
  BY <1>3, <1>4 DEF Unreported
<1>5. ASSUME event.remote \in 0..n, event.remote # 0 => event.type = "Started", ByStarted(sent, n)
      PROVE  ByStarted(sent', n)
  BY <1>3, <1>5 DEF ByStarted
<1>6. ASSUME event.remote # 0 => Unreported(event.remote, sent), ReportedOnce(sent)
      PROVE  ReportedOnce(sent')
  <2>1. SUFFICES ASSUME NEW jd \in 1..Len(sent'), NEW kd \in 1..Len(sent'),
                        NEW j \in 1..Len(sent'[jd]), NEW k \in 1..Len(sent'[kd]),
                        sent'[jd][j].remote = sent'[kd][k].remote, sent'[jd][j].remote # 0
                 PROVE  jd = kd /\ j = k
    BY DEF ReportedOnce
  <2>2. jd \in 1..Len(sent) /\ kd \in 1..Len(sent)
    BY <1>3
  <2>3. CASE Newest(jd, j) /\ Newest(kd, k)
    BY <2>3
  <2>4. CASE Old(jd, j) /\ Old(kd, k)
    BY <1>6, <2>1, <2>2, <2>4 DEF ReportedOnce
  <2>5. CASE Old(jd, j) /\ Newest(kd, k)
    BY <1>6, <2>1, <2>2, <2>5 DEF Unreported
  <2>6. CASE Newest(jd, j) /\ Old(kd, k)
    BY <1>6, <2>1, <2>2, <2>6 DEF Unreported
  <2>7. QED
    BY <1>3, <2>3, <2>4, <2>5, <2>6
<1>7. QED
  BY <1>4, <1>5, <1>6

LEMMA NextRemoteInv ==
    ASSUME TxInv, RemoteInv, [Next]_vars
    PROVE  RemoteInv'
<1>0. /\ Len(asked) \in Nat
      /\ \A e \in Evses : remote[e] # None => remote[e].id \in 1..Len(asked) /\ Unreported(remote[e].id, sent)
      /\ \A e, f \in Evses : remote[e] # None /\ remote[f] # None /\ remote[e].id = remote[f].id => e = f
      /\ ByStarted(sent, Len(asked))
      /\ ReportedOnce(sent)
  BY TxTypes, LenProperties DEF RemoteInv
<1>1. ASSUME \A e \in Evses : remote'[e] # None => remote'[e].id \in 1..Len(asked') /\ Unreported(remote'[e].id, sent'),
             \A e, f \in Evses : remote'[e] # None /\ remote'[f] # None /\ remote'[e].id = remote'[f].id => e = f,
             ByStarted(sent', Len(asked')), ReportedOnce(sent')
      PROVE  RemoteInv'
  BY <1>1 DEF RemoteInv
<1>2. ASSUME NEW t \in Threads, PushEvent(t)
      PROVE  RemoteInv'
  <2>1. PICK b \in Activities, n \in Nat :
             /\ b.id \in 1..Len(sent)
             /\ b.evse \in Evses
             /\ [type |-> b.type, seq |-> n, remote |-> RemoteOf(b)] \in EventRecords
             /\ sent' = [sent EXCEPT ![b.id] = Append(@, [type |-> b.type, seq |-> n, remote |-> RemoteOf(b)])]
             /\ ForgetRemote(b)
             /\ UNCHANGED asked
    BY <1>2, PushEventParts
  <2> DEFINE event == [type |-> b.type, seq |-> n, remote |-> RemoteOf(b)]
  <2>2. event \in EventRecords /\ event.type = b.type /\ event.remote = RemoteOf(b)
        /\ sent' = [sent EXCEPT ![b.id] = Append(@, event)]
    BY <2>1
  <2> HIDE DEF event
  <2>3. /\ \A r : Unreported(r, sent) /\ event.remote # r => Unreported(r, sent')
        /\ event.remote \in 0..Len(asked) /\ (event.remote # 0 => event.type = "Started") => ByStarted(sent', Len(asked))
        /\ (event.remote # 0 => Unreported(event.remote, sent)) => ReportedOnce(sent')
    BY <1>0, <2>1, <2>2, MoreReports
  <2>4. CASE RemoteOf(b) = 0
    <3>1. remote' = remote /\ event.remote = 0
      BY <2>1, <2>2, <2>4 DEF ForgetRemote
    <3>2. \A e \in Evses : remote'[e] # None => remote'[e].id # 0
      BY <1>0, <3>1
    <3>3. \A e \in Evses : remote'[e] # None => remote'[e].id \in 1..Len(asked') /\ Unreported(remote'[e].id, sent')
      BY <1>0, <2>1, <2>3, <3>1, <3>2
    <3>4. \A e, f \in Evses : remote'[e] # None /\ remote'[f] # None /\ remote'[e].id = remote'[f].id => e = f
      BY <1>0, <3>1
    <3>5. ByStarted(sent', Len(asked')) /\ ReportedOnce(sent')
      BY <1>0, <2>1, <2>3, <3>1
    <3>6. QED
      BY <1>1, <3>3, <3>4, <3>5
  <2>5. CASE RemoteOf(b) # 0
    <3>1. /\ remote' = [remote EXCEPT ![b.evse] = None]
          /\ remote[b.evse] # None /\ RemoteOf(b) = remote[b.evse].id /\ b.type = "Started"
      BY <2>1, <2>5 DEF ForgetRemote, RemoteOf
    <3>2. Unreported(event.remote, sent) /\ event.remote \in 1..Len(asked)
      BY <1>0, <2>1, <2>2, <3>1
    <3>3. \A e \in Evses : remote'[e] # None => e # b.evse /\ remote'[e] = remote[e]
      BY <2>1, <3>1, TxTypes
    <3>4. \A e \in Evses : remote'[e] # None => remote'[e].id # event.remote
      BY <1>0, <2>1, <2>2, <3>1, <3>3
    <3>5. \A e \in Evses : remote'[e] # None => remote'[e].id \in 1..Len(asked') /\ Unreported(remote'[e].id, sent')
      BY <1>0, <2>1, <2>3, <3>3, <3>4
    <3>6. \A e, f \in Evses : remote'[e] # None /\ remote'[f] # None /\ remote'[e].id = remote'[f].id => e = f
      BY <1>0, <3>3
    <3>7. ByStarted(sent', Len(asked')) /\ ReportedOnce(sent')
      BY <1>0, <2>1, <2>2, <2>3, <3>1, <3>2
    <3>8. QED
      BY <1>1, <3>5, <3>6, <3>7
  <2>6. QED
    BY <2>4, <2>5
<1>3. ASSUME NEW e \in Evses, NEW token \in Tokens, NEW reserved \in BOOLEAN, RemoteStart(e, token, reserved),
             ~\E t \in Threads : PushEvent(t)
      PROVE  RemoteInv'
  <2>1. Len(asked') = Len(asked) + 1 /\ sent' = sent
    BY <1>3, TxTypes, AppendProperties DEF RemoteStart
  <2>2. /\ \A f \in Evses \ {e} : remote'[f] = remote[f]
        /\ remote'[e] = remote[e] \/ remote'[e].id = Len(asked) + 1
    BY <1>3, TxTypes DEF RemoteStart
  <2>3. \A f \in Evses : remote[f] # None => remote[f].id # Len(asked) + 1
    BY <1>0
  <2>4. \A f, g \in Evses : remote'[f] # None /\ remote'[g] # None /\ remote'[f].id = remote'[g].id => f = g
    BY <1>0, <2>2, <2>3
  <2>5. Unreported(Len(asked) + 1, sent)
    BY <1>0 DEF ByStarted, Unreported
  <2>6. \A f \in Evses : remote'[f] # None => remote'[f].id \in 1..Len(asked') /\ Unreported(remote'[f].id, sent')
    BY <1>0, <2>1, <2>2, <2>5
  <2>7. ByStarted(sent', Len(asked')) /\ ReportedOnce(sent')
    <3>1. Len(asked) + 1 \in Nat /\ Len(asked) <= Len(asked) + 1
      BY <1>0
    <3>2. QED
      BY <1>0, <1>3, <2>1, <3>1, SameReports
  <2>8. QED
    BY <1>1, <2>4, <2>6, <2>7
<1>4. CASE /\ ~\E t \in Threads : PushEvent(t)
           /\ UNCHANGED asked
           /\ UNCHANGED remote \/ remote' = [e \in Evses |-> None]
  <2>1. \A e \in Evses : remote'[e] # None => remote'[e] = remote[e]
    BY <1>4
  <2>2. \A e, f \in Evses : remote'[e] # None /\ remote'[f] # None /\ remote'[e].id = remote'[f].id => e = f
    BY <1>0, <2>1
  <2>3. Len(asked) <= Len(asked) /\ asked' = asked
    BY <1>0, <1>4
  <2>4. ByStarted(sent', Len(asked')) /\ ReportedOnce(sent') /\ \A r : Unreported(r, sent) => Unreported(r, sent')
    BY <1>0, <1>4, <2>3, SameReports
  <2>5. QED
    BY <1>0, <1>1, <2>1, <2>2, <2>3, <2>4
<1>5. QED
  BY <1>2, <1>3, <1>4, TxCases DEF txVars, Begins, Release, Start, Crash

\* A remote start is reported at most once, by a Started, whatever requests, rejections, crashes and
\* other transactions come: transaction_event_req takes the entry out of the map.
THEOREM RemoteStartsReportedOnce == Spec => []RemoteStartOnce
<1> DEFINE Inv == TxInv /\ RemoteInv
<1>1. Init => Inv
  <2>1. Init => RemoteInv
    BY DEF Init, RemoteInv, ByStarted, ReportedOnce
  <2>2. QED
    BY <2>1, InitTxInv
<1>2. Inv /\ [Next]_vars => Inv'
  BY NextTxInv, NextRemoteInv
<1>3. Inv => RemoteStartOnce
  <2> SUFFICES ASSUME Inv, NEW r \in 1..Len(asked)
               PROVE  LET hits == {h \in (1..Len(sent)) \X (1..2 + MaxEvents) :
                                     h[2] <= Len(sent[h[1]]) /\ sent[h[1]][h[2]].remote = r}
                      IN  Cardinality(hits) <= 1 /\ \A h \in hits : sent[h[1]][h[2]].type = "Started"
    BY DEF RemoteStartOnce
  <2> DEFINE hits == {h \in (1..Len(sent)) \X (1..2 + MaxEvents) :
                        h[2] <= Len(sent[h[1]]) /\ sent[h[1]][h[2]].remote = r}
  <2>1. r # 0 /\ \A h \in hits : /\ h[1] \in 1..Len(sent) /\ h[2] \in 1..Len(sent[h[1]]) /\ h = <<h[1], h[2]>>
                                 /\ sent[h[1]][h[2]].remote = r
    <3>1. \A id \in 1..Len(sent) : Len(sent[id]) \in Nat
      BY TxTypes, LenProperties
    <3>2. QED
      BY <3>1, StatusAssumption
  <2> HIDE DEF hits
  <2>2. \A h \in hits : sent[h[1]][h[2]].type = "Started"
    BY <2>1 DEF RemoteInv, ByStarted
  <2>3. \A h, k \in hits : h = k
    <3>1. SUFFICES ASSUME NEW h \in hits, NEW k \in hits
                   PROVE  h = k
      OBVIOUS
    <3>2. h[1] = k[1] /\ h[2] = k[2]
      BY <2>1 DEF RemoteInv, ReportedOnce
    <3>3. QED
      BY <2>1, <3>2
  <2>4. Cardinality(hits) <= 1
    <3>1. CASE hits = {}
      BY <3>1, FS_EmptySet
    <3>2. CASE hits # {}
      <4>1. PICK h \in hits : hits = {h}
        BY <2>3, <3>2
      <4>2. QED
        <5>1. Cardinality({h}) = 1
          BY FS_Singleton
        <5>2. QED
          BY <4>1, <5>1
    <3>3. QED
      BY <3>1, <3>2
  <2>5. QED
    BY <2>2, <2>4 DEF hits
<1>4. QED
  BY <1>1, <1>2, <1>3, PTL DEF Spec

-----------------------------------------------------------------------------
(* Sequence numbers *)

\* What the steps do to the transactions and the events, as far as their order depends on it.
LEMMA StartParts ==
    ASSUME TxInv, NEW e \in Evses, NEW token \in Tokens \cup {None}, Start(e, token)
    PROVE  /\ tx[e] = None /\ AppOf(e) \in Threads
           /\ Len(sent') = Len(sent) + 1 /\ sent'[Len(sent) + 1] = <<>>
           /\ \A id \in 1..Len(sent) : sent'[id] = sent[id]
           /\ tx'[e] # None /\ tx'[e].id = Len(sent) + 1 /\ tx'[e].seq = 0
           /\ \A f \in Evses \ {e} : tx'[f] = tx[f]
           /\ busy'[AppOf(e)] # None /\ busy'[AppOf(e)].evse = e
           /\ busy'[AppOf(e)].id = Len(sent) + 1 /\ busy'[AppOf(e)].type = "Opened"
           /\ \A t \in Threads \ {AppOf(e)} : busy'[t] = busy[t]
           /\ raced' = raced /\ interrupted' = interrupted
<1> DEFINE new == [id |-> Len(sent) + 1, seq |-> 0, token |-> token # None]
           act == [evse |-> e, id |-> Len(sent) + 1, type |-> "Opened", token |-> token, taken |-> 0]
<1>1. /\ Len(sent) < MaxTx /\ tx[e] = None
      /\ tx' = [tx EXCEPT ![e] = new]
      /\ sent' = Append(sent, <<>>)
      /\ busy' = [busy EXCEPT ![AppOf(e)] = act]
      /\ UNCHANGED <<raced, interrupted>>
  BY DEF Start, OpenTransaction
<1>2. new # None /\ new.id = Len(sent) + 1 /\ new.seq = 0
  <2>1. PICK known \in BOOLEAN : known = (token # None)
    OBVIOUS
  <2>2. new = [id |-> Len(sent) + 1, seq |-> 0, token |-> known]
    BY <2>1
  <2>3. [id |-> Len(sent) + 1, seq |-> 0, token |-> known] \in Transactions
    BY <1>1, TxTypes DEF Transactions, Ids
  <2>4. QED
    BY <2>2, <2>3, NoneAssumption
<1>3. act # None /\ act.id = Len(sent) + 1 /\ act.evse = e /\ act.type = "Opened"
  <2>1. act \in Activities
    BY <1>1, TxTypes DEF Activities, Ids
  <2>2. QED
    BY <2>1, NoneAssumption
<1> HIDE DEF new, act
<1>4. /\ Len(sent') = Len(sent) + 1 /\ sent'[Len(sent) + 1] = <<>>
      /\ \A id \in 1..Len(sent) : sent'[id] = sent[id]
  <2>1. <<>> \in Seq(EventRecords)
    OBVIOUS
  <2>2. QED
    BY <1>1, <2>1, TxTypes, AppendProperties
<1>5. tx'[e] = new /\ \A f \in Evses \ {e} : tx'[f] = tx[f]
  BY <1>1, TxTypes
<1>6. AppOf(e) \in Threads /\ busy'[AppOf(e)] = act /\ \A t \in Threads \ {AppOf(e)} : busy'[t] = busy[t]
  BY <1>1, TxTypes, ThreadFacts
<1>7. QED
  BY <1>1, <1>2, <1>3, <1>4, <1>5, <1>6

LEMMA BeginsParts ==
    ASSUME TxInv, NEW t \in Threads, NEW e \in Evses, NEW type \in EventTypes, Begins(t, e, type)
    PROVE  /\ tx[e] # None /\ tx[e].id \in 1..Len(sent) /\ tx[e].seq \in Nat
           /\ tx'[e] # None /\ tx'[e].id = tx[e].id /\ tx'[e].seq = tx[e].seq + 1
           /\ \A f \in Evses \ {e} : tx'[f] = tx[f]
           /\ busy'[t] # None /\ busy'[t].evse = e /\ busy'[t].id = tx[e].id
           /\ busy'[t].type = type /\ busy'[t].taken = tx[e].seq
           /\ \A u \in Threads \ {t} : busy'[u] = busy[u]
           /\ busy[t] # None => /\ type = "Started" /\ busy[t].type = "Opened"
                                /\ busy[t].evse = e /\ busy[t].id = tx[e].id
           /\ busy[t] = None => type \in {"Updated", "Ended"}
           /\ sent' = sent /\ interrupted' = interrupted /\ raced \subseteq raced'
           /\ tx[e].id \notin raced' => \A u \in Threads \ {t} : busy[u] # None => busy[u].id # tx[e].id
<1>1. PICK token \in Tokens \cup {None}, known \in BOOLEAN :
           /\ busy' = [busy EXCEPT ![t] = [evse |-> e, id |-> tx[e].id, type |-> type, token |-> token,
                                           taken |-> tx[e].seq]]
           /\ tx' = [tx EXCEPT ![e] = [id |-> tx[e].id, seq |-> tx[e].seq + 1, token |-> known]]
  BY DEF Begins
<1> DEFINE act == [evse |-> e, id |-> tx[e].id, type |-> type, token |-> token, taken |-> tx[e].seq]
           new == [id |-> tx[e].id, seq |-> tx[e].seq + 1, token |-> known]
<1>2. tx[e] # None /\ tx[e].id \in Ids /\ tx[e].seq \in Nat /\ tx[e].id \in 1..Len(sent)
  BY TxTypes DEF Begins, Transactions
<1>3. new # None /\ act # None /\ new.id = tx[e].id /\ new.seq = tx[e].seq + 1
      /\ act.id = tx[e].id /\ act.evse = e /\ act.taken = tx[e].seq /\ act.type = type
  <2>1. new \in Transactions /\ act \in Activities
    BY <1>2 DEF Transactions, Activities
  <2>2. QED
    BY <2>1, NoneAssumption
<1>4. tx' = [tx EXCEPT ![e] = new] /\ busy' = [busy EXCEPT ![t] = act]
  BY <1>1
<1> HIDE DEF new, act
<1>5. tx'[e] = new /\ \A f \in Evses \ {e} : tx'[f] = tx[f]
  BY <1>4, TxTypes
<1>6. busy'[t] = act /\ \A u \in Threads \ {t} : busy'[u] = busy[u]
  BY <1>4, TxTypes
<1>7. busy[t] # None => /\ type = "Started" /\ busy[t].type = "Opened"
                        /\ busy[t].evse = e /\ busy[t].id = tx[e].id
  BY DEF Begins, TxInv, Current
<1>8. busy[t] = None => type \in {"Updated", "Ended"}
  BY DEF Begins
<1>9. sent' = sent /\ interrupted' = interrupted /\ raced \subseteq raced'
  BY DEF Begins
<1>10. tx[e].id \notin raced' => \A u \in Threads \ {t} : busy[u] # None => busy[u].id # tx[e].id
  BY DEF Begins, Making
<1>11. QED
  BY <1>2, <1>3, <1>5, <1>6, <1>7, <1>8, <1>9, <1>10

LEMMA ReleaseParts ==
    ASSUME TxInv, NEW e \in Evses, Release(e)
    PROVE  /\ AppOf(e) \in Threads /\ busy[AppOf(e)] # None /\ busy[AppOf(e)].evse = e
           /\ tx[e] # None /\ tx[e].id = busy[AppOf(e)].id
           /\ tx'[e] = None /\ \A f \in Evses \ {e} : tx'[f] = tx[f]
           /\ busy'[AppOf(e)] = None /\ \A u \in Threads \ {AppOf(e)} : busy'[u] = busy[u]
           /\ sent' = sent /\ raced' = raced /\ interrupted' = interrupted
<1>1. /\ busy[AppOf(e)] # None
      /\ tx' = [tx EXCEPT ![e] = None]
      /\ busy' = [busy EXCEPT ![AppOf(e)] = None]
      /\ UNCHANGED <<sent, raced, interrupted>>
  BY DEF Release
<1>2. AppOf(e) \in Threads
  BY ThreadFacts
<1>3. busy[AppOf(e)].evse = e /\ tx[e] # None /\ tx[e].id = busy[AppOf(e)].id
  BY <1>1 DEF TxInv, Current
<1>4. QED
  BY <1>1, <1>2, <1>3, TxTypes

LEMMA CrashParts ==
    ASSUME TxInv, Crash
    PROVE  /\ \A e \in Evses : tx'[e] # None => tx[e] # None /\ tx'[e] = tx[e]
           /\ \A t \in Threads : busy'[t] = None
           /\ sent' = sent /\ raced' = raced /\ interrupted \subseteq interrupted'
           /\ \A t \in Threads : busy[t] # None => busy[t].id \in interrupted'
<1>1. \A e \in Evses : tx'[e] # None => tx[e] # None /\ tx'[e] = tx[e]
  BY DEF Crash, Resumed, TxInv
<1>2. QED
  BY <1>1 DEF Crash

LEMMA PushParts ==
    ASSUME TxInv, NEW t \in Threads, PushEvent(t)
    PROVE  \E event \in EventRecords :
             /\ busy[t] # None /\ busy[t].type \in EventTypes /\ busy[t].id \in 1..Len(sent)
             /\ event.type = busy[t].type
             /\ event.seq = busy[t].taken \/ (Current(t) /\ event.seq = tx[busy[t].evse].seq - 1)
             /\ sent' = [sent EXCEPT ![busy[t].id] = Append(@, event)]
             /\ busy'[t] # None => /\ busy'[t].evse = busy[t].evse /\ busy'[t].id = busy[t].id
                                   /\ busy'[t].type = "Releasing"
             /\ busy[t].type = "Ended" => busy'[t] # None
             /\ \A u \in Threads \ {t} : busy'[u] = busy[u]
             /\ tx' = tx /\ raced' = raced /\ interrupted' = interrupted
<1>1. PICK b \in Activities, n \in Nat :
           /\ b = busy[t] /\ busy[t] # None
           /\ b.type \in EventTypes
           /\ b.id \in 1..Len(sent)
           /\ n = b.taken \/ (Current(t) /\ n = tx[b.evse].seq - 1)
           /\ [type |-> b.type, seq |-> n, remote |-> RemoteOf(b)] \in EventRecords
           /\ sent' = [sent EXCEPT ![b.id] = Append(@, [type |-> b.type, seq |-> n, remote |-> RemoteOf(b)])]
           /\ busy' = [busy EXCEPT ![t] = IF b.type = "Ended" THEN [b EXCEPT !.type = "Releasing"] ELSE None]
           /\ UNCHANGED <<tx, row, asked, raced, interrupted>>
  BY PushEventParts
<1> DEFINE event == [type |-> b.type, seq |-> n, remote |-> RemoteOf(b)]
           next == IF b.type = "Ended" THEN [b EXCEPT !.type = "Releasing"] ELSE None
<1>2. /\ next # None => next.evse = b.evse /\ next.id = b.id /\ next.type = "Releasing"
      /\ b.type = "Ended" => next # None
  <2>1. b.type = "Ended" => next \in Activities /\ next.evse = b.evse /\ next.id = b.id /\ next.type = "Releasing"
    BY <1>1 DEF Activities
  <2>2. QED
    BY <2>1, NoneAssumption
<1>3. event \in EventRecords /\ event.type = b.type /\ event.seq = n
      /\ sent' = [sent EXCEPT ![b.id] = Append(@, event)]
  BY <1>1
<1>4. busy' = [busy EXCEPT ![t] = next]
  BY <1>1
<1> HIDE DEF next, event
<1>5. busy'[t] = next /\ \A u \in Threads \ {t} : busy'[u] = busy[u]
  BY <1>4, TxTypes
<1>6. QED
  BY <1>1, <1>2, <1>3, <1>5

Growing(s) == \A i, j \in 1..Len(s) : i < j => s[i].seq < s[j].seq

Below(s, n) == \A i \in 1..Len(s) : s[i].seq < n

\* While no two threads made an event of a transaction at the same time: one thread makes one, the
\* transaction stays with its EVSE until the event is queued ...
OneMaker ==
    \A t, u \in Threads :
        busy[t] # None /\ busy[u] # None /\ busy[t].id = busy[u].id /\ busy[t].id \notin raced => t = u

MakerCurrent ==
    \A t \in Threads : busy[t] # None /\ busy[t].id \notin raced
                       => tx[busy[t].evse] # None /\ tx[busy[t].evse].id = busy[t].id

\* ... the number that the thread took is the last one, and above those that are queued ...
MakerHighest ==
    \A t \in Threads : busy[t] # None /\ busy[t].id \notin raced /\ busy[t].type \in EventTypes
                       => /\ tx[busy[t].evse].seq = busy[t].taken + 1
                          /\ Below(sent[busy[t].id], busy[t].taken)

\* ... which the number that is next, in memory and in the row, is too.
NextNumberAbove ==
    \A e \in Evses : tx[e] # None /\ tx[e].id \notin raced => Below(sent[tx[e].id], tx[e].seq)

NumbersGrow == \A id \in 1..Len(sent) : id \notin raced => Growing(sent[id])

OrderInv == OneMaker /\ MakerCurrent /\ MakerHighest /\ NextNumberAbove /\ NumbersGrow

LEMMA GrowingAppend ==
    ASSUME NEW s \in Seq(EventRecords), NEW event \in EventRecords, Growing(s), Below(s, event.seq)
    PROVE  Growing(Append(s, event)) /\ Below(Append(s, event), event.seq + 1)
<1>1. /\ Len(s) \in Nat /\ Len(Append(s, event)) = Len(s) + 1
      /\ \A i \in 1..Len(s) : Append(s, event)[i] = s[i] /\ s[i].seq \in Nat
      /\ Append(s, event)[Len(s) + 1] = event
  <2>1. \A i \in 1..Len(s) : s[i] \in EventRecords
    BY ElementOfSeq
  <2>2. QED
    BY <2>1, AppendProperties, LenProperties DEF EventRecords
<1>2. event.seq \in Nat
  BY DEF EventRecords
<1>3. \A i \in 1..Len(Append(s, event)) : i \in 1..Len(s) \/ i = Len(s) + 1
  BY <1>1
<1>4. Below(Append(s, event), event.seq + 1)
  BY <1>1, <1>2, <1>3 DEF Below
<1>5. ASSUME NEW i \in 1..Len(Append(s, event)), NEW j \in 1..Len(Append(s, event)), i < j
      PROVE  Append(s, event)[i].seq < Append(s, event)[j].seq
  <2>1. i \in 1..Len(s)
    BY <1>1, <1>5
  <2>2. CASE j \in 1..Len(s)
    BY <1>1, <1>5, <2>1, <2>2 DEF Growing
  <2>3. CASE j = Len(s) + 1
    BY <1>1, <2>1, <2>3 DEF Below
  <2>4. QED
    BY <1>3, <2>2, <2>3
<1>6. QED
  BY <1>4, <1>5 DEF Growing

LEMMA NextOrderInv ==
    ASSUME TxInv, OrderInv, [Next]_vars
    PROVE  OrderInv'
<1>0. OneMaker /\ MakerCurrent /\ MakerHighest /\ NextNumberAbove /\ NumbersGrow
  BY DEF OrderInv
<1>1. CASE UNCHANGED <<tx, busy, sent, raced, interrupted>>
  BY <1>1 DEF OrderInv, OneMaker, MakerCurrent, MakerHighest, NextNumberAbove, NumbersGrow
<1>2. ASSUME NEW e \in Evses, NEW token \in Tokens \cup {None}, Start(e, token)
      PROVE  OrderInv'
  <2> DEFINE a == AppOf(e)
             new == Len(sent) + 1
  <2>1. /\ tx[e] = None /\ a \in Threads
        /\ Len(sent') = Len(sent) + 1 /\ sent'[new] = <<>>
        /\ \A id \in 1..Len(sent) : sent'[id] = sent[id]
        /\ tx'[e] # None /\ tx'[e].id = new /\ tx'[e].seq = 0
        /\ \A f \in Evses \ {e} : tx'[f] = tx[f]
        /\ busy'[a] # None /\ busy'[a].evse = e /\ busy'[a].id = new /\ busy'[a].type = "Opened"
        /\ \A t \in Threads \ {a} : busy'[t] = busy[t]
        /\ raced' = raced
    BY <1>2, StartParts
  <2>2. /\ Len(sent) \in Nat /\ new \notin 1..Len(sent)
        /\ \A t \in Threads \ {a} : busy'[t] # None => busy[t] # None /\ busy[t].id \in 1..Len(sent) /\ busy[t].id # new
        /\ \A f \in Evses \ {e} : tx'[f] # None => tx[f] # None /\ tx[f].id \in 1..Len(sent)
    BY <2>1, TxTypes
  <2> HIDE DEF a, new
  <2>3. OneMaker'
    BY <1>0, <2>1, <2>2 DEF OneMaker
  <2>4. ASSUME NEW t \in Threads \ {a}, busy'[t] # None, busy'[t].id \notin raced'
        PROVE  /\ busy[t] # None /\ busy[t].id \notin raced
               /\ busy'[t] = busy[t] /\ busy[t].evse \in Evses /\ busy[t].evse # e
               /\ tx'[busy[t].evse] = tx[busy[t].evse] /\ tx[busy[t].evse] # None /\ tx[busy[t].evse].id = busy[t].id
    <3>1. busy'[t] = busy[t] /\ busy[t] # None /\ busy[t].id \notin raced
      BY <2>1, <2>4
    <3>2. busy[t].evse \in Evses
      BY <3>1, TxTypes DEF Activities
    <3>3. tx[busy[t].evse] # None /\ tx[busy[t].evse].id = busy[t].id
      BY <1>0, <3>1 DEF MakerCurrent
    <3>4. QED
      BY <2>1, <3>1, <3>2, <3>3
  <2>5. MakerCurrent'
    BY <2>1, <2>4 DEF MakerCurrent
  <2>6. MakerHighest'
    <3>1. SUFFICES ASSUME NEW t \in Threads, busy'[t] # None, busy'[t].id \notin raced', busy'[t].type \in EventTypes
                   PROVE  tx'[busy'[t].evse].seq = busy'[t].taken + 1 /\ Below(sent'[busy'[t].id], busy'[t].taken)
      BY DEF MakerHighest
    <3>2. t \in Threads \ {a}
      BY <2>1, <3>1 DEF EventTypes
    <3>3. tx[busy[t].evse].seq = busy[t].taken + 1 /\ Below(sent[busy[t].id], busy[t].taken)
      BY <1>0, <2>4, <3>1, <3>2 DEF MakerHighest
    <3>4. sent'[busy[t].id] = sent[busy[t].id]
      BY <2>1, <2>2, <3>1, <3>2
    <3>5. QED
      BY <2>4, <3>1, <3>2, <3>3, <3>4
  <2>7. NextNumberAbove'
    <3>1. Below(sent'[new], 0)
      BY <2>1 DEF Below
    <3>2. ASSUME NEW f \in Evses \ {e}, tx'[f] # None, tx'[f].id \notin raced'
          PROVE  Below(sent'[tx'[f].id], tx'[f].seq)
      BY <1>0, <2>1, <2>2, <3>2 DEF NextNumberAbove
    <3>3. QED
      BY <2>1, <3>1, <3>2 DEF NextNumberAbove
  <2>8. NumbersGrow'
    <3>1. Growing(sent'[new])
      BY <2>1 DEF Growing
    <3>2. \A id \in 1..Len(sent') : id = new \/ id \in 1..Len(sent)
      BY <2>1, <2>2 DEF new
    <3>3. QED
      BY <1>0, <2>1, <3>1, <3>2 DEF NumbersGrow
  <2>9. QED
    BY <2>3, <2>5, <2>6, <2>7, <2>8 DEF OrderInv
<1>3. ASSUME NEW t \in Threads, NEW e \in Evses, NEW type \in EventTypes, Begins(t, e, type)
      PROVE  OrderInv'
  <2>1. /\ tx[e] # None /\ tx[e].id \in 1..Len(sent) /\ tx[e].seq \in Nat
        /\ tx'[e] # None /\ tx'[e].id = tx[e].id /\ tx'[e].seq = tx[e].seq + 1
        /\ \A f \in Evses \ {e} : tx'[f] = tx[f]
        /\ busy'[t] # None /\ busy'[t].evse = e /\ busy'[t].id = tx[e].id
        /\ busy'[t].type = type /\ busy'[t].taken = tx[e].seq
        /\ \A u \in Threads \ {t} : busy'[u] = busy[u]
        /\ sent' = sent /\ raced \subseteq raced'
        /\ tx[e].id \notin raced' => \A u \in Threads \ {t} : busy[u] # None => busy[u].id # tx[e].id
    BY <1>3, BeginsParts
  <2>2. ASSUME NEW u \in Threads \ {t}, busy'[u] # None, busy'[u].id \notin raced'
        PROVE  /\ busy[u] # None /\ busy[u].id \notin raced /\ busy[u].id # tx[e].id
               /\ busy'[u] = busy[u] /\ busy[u].evse \in Evses /\ busy[u].evse # e
               /\ tx'[busy[u].evse] = tx[busy[u].evse] /\ tx[busy[u].evse] # None /\ tx[busy[u].evse].id = busy[u].id
    <3>1. busy'[u] = busy[u] /\ busy[u] # None /\ busy[u].id \notin raced
      BY <2>1, <2>2
    <3>2. busy[u].evse \in Evses
      BY <3>1, TxTypes DEF Activities
    <3>3. tx[busy[u].evse] # None /\ tx[busy[u].evse].id = busy[u].id
      BY <1>0, <3>1 DEF MakerCurrent
    <3>4. busy[u].id # tx[e].id
      BY <2>1, <2>2, <3>1
    <3>5. QED
      BY <2>1, <3>1, <3>2, <3>3, <3>4
  <2>3. OneMaker'
    <3>1. SUFFICES ASSUME NEW u \in Threads, NEW v \in Threads, busy'[u] # None, busy'[v] # None,
                          busy'[u].id = busy'[v].id, busy'[u].id \notin raced'
                   PROVE  u = v
      BY DEF OneMaker
    <3>2. CASE u # t /\ v # t
      BY <1>0, <2>2, <3>1, <3>2 DEF OneMaker
    <3>3. CASE u = t \/ v = t
      BY <2>1, <2>2, <3>1, <3>3
    <3>4. QED
      BY <3>2, <3>3
  <2>4. MakerCurrent'
    BY <2>1, <2>2 DEF MakerCurrent
  <2>5. MakerHighest'
    <3>1. tx[e].id \notin raced' => Below(sent'[tx[e].id], tx[e].seq)
      BY <1>0, <2>1 DEF NextNumberAbove
    <3>2. ASSUME NEW u \in Threads \ {t}, busy'[u] # None, busy'[u].id \notin raced', busy'[u].type \in EventTypes
          PROVE  tx'[busy'[u].evse].seq = busy'[u].taken + 1 /\ Below(sent'[busy'[u].id], busy'[u].taken)
      BY <1>0, <2>1, <2>2, <3>2 DEF MakerHighest
    <3>3. QED
      BY <2>1, <3>1, <3>2 DEF MakerHighest
  <2>6. NextNumberAbove'
    <3>1. tx[e].id \notin raced' => Below(sent'[tx[e].id], tx[e].seq + 1)
      <4>1. \A i \in 1..Len(sent[tx[e].id]) : sent[tx[e].id][i].seq \in Nat
        <5>1. sent[tx[e].id] \in Seq(EventRecords)
          BY <2>1, TxTypes
        <5>2. \A i \in 1..Len(sent[tx[e].id]) : sent[tx[e].id][i] \in EventRecords
          BY <5>1, ElementOfSeq
        <5>3. QED
          BY <5>2 DEF EventRecords
      <4>2. QED
        BY <1>0, <2>1, <4>1 DEF NextNumberAbove, Below
    <3>2. ASSUME NEW f \in Evses \ {e}, tx'[f] # None, tx'[f].id \notin raced'
          PROVE  Below(sent'[tx'[f].id], tx'[f].seq)
      BY <1>0, <2>1, <3>2 DEF NextNumberAbove
    <3>3. QED
      BY <2>1, <3>1, <3>2 DEF NextNumberAbove
  <2>7. NumbersGrow'
    BY <1>0, <2>1 DEF NumbersGrow
  <2>8. QED
    BY <2>3, <2>4, <2>5, <2>6, <2>7 DEF OrderInv
<1>4. ASSUME NEW t \in Threads, PushEvent(t)
      PROVE  OrderInv'
  <2>1. PICK event \in EventRecords :
             /\ busy[t] # None /\ busy[t].type \in EventTypes /\ busy[t].id \in 1..Len(sent)
             /\ event.seq = busy[t].taken \/ (Current(t) /\ event.seq = tx[busy[t].evse].seq - 1)
             /\ sent' = [sent EXCEPT ![busy[t].id] = Append(@, event)]
             /\ busy'[t] # None => busy'[t].evse = busy[t].evse /\ busy'[t].id = busy[t].id /\ busy'[t].type = "Releasing"
             /\ \A u \in Threads \ {t} : busy'[u] = busy[u]
             /\ tx' = tx /\ raced' = raced
    BY <1>4, PushParts
  <2>2. /\ Len(sent') = Len(sent) /\ sent'[busy[t].id] = Append(sent[busy[t].id], event)
        /\ \A id \in 1..Len(sent) : id # busy[t].id => sent'[id] = sent[id]
    BY <2>1, PushedEvents
  <2>3. \A u \in Threads : busy'[u] # None =>
            /\ busy[u] # None /\ busy'[u].evse = busy[u].evse /\ busy'[u].id = busy[u].id
            /\ busy'[u].type \in EventTypes => u # t /\ busy'[u] = busy[u]
    BY <2>1 DEF EventTypes
  <2>4. OneMaker' /\ MakerCurrent'
    BY <1>0, <2>1, <2>3 DEF OneMaker, MakerCurrent
  \* The thread took the last number, so get_seq_no returns it either way.
  <2>5. busy[t].id \notin raced => /\ event.seq = busy[t].taken /\ tx[busy[t].evse].seq = event.seq + 1
                                   /\ tx[busy[t].evse] # None /\ tx[busy[t].evse].id = busy[t].id
                                   /\ Growing(sent'[busy[t].id]) /\ Below(sent'[busy[t].id], event.seq + 1)
    <3>1. SUFFICES ASSUME busy[t].id \notin raced
                   PROVE  /\ event.seq = busy[t].taken /\ tx[busy[t].evse].seq = event.seq + 1
                          /\ tx[busy[t].evse] # None /\ tx[busy[t].evse].id = busy[t].id
                          /\ Growing(sent'[busy[t].id]) /\ Below(sent'[busy[t].id], event.seq + 1)
      OBVIOUS
    <3>2. busy[t].taken \in Nat
      BY <2>1, TxTypes DEF Activities
    <3>3. tx[busy[t].evse].seq = busy[t].taken + 1 /\ Below(sent[busy[t].id], busy[t].taken)
      BY <1>0, <2>1, <3>1 DEF MakerHighest
    <3>4. event.seq = busy[t].taken
      BY <2>1, <3>2, <3>3
    <3>5. tx[busy[t].evse] # None /\ tx[busy[t].evse].id = busy[t].id
      BY <1>0, <2>1, <3>1 DEF MakerCurrent
    <3>6. Growing(sent[busy[t].id]) /\ sent[busy[t].id] \in Seq(EventRecords)
      BY <1>0, <2>1, <3>1, TxTypes DEF NumbersGrow
    <3>7. QED
      BY <2>2, <3>3, <3>4, <3>5, <3>6, GrowingAppend
  <2>6. MakerHighest'
    <3>1. SUFFICES ASSUME NEW u \in Threads, busy'[u] # None, busy'[u].id \notin raced', busy'[u].type \in EventTypes
                   PROVE  tx'[busy'[u].evse].seq = busy'[u].taken + 1 /\ Below(sent'[busy'[u].id], busy'[u].taken)
      BY DEF MakerHighest
    <3>2. u # t /\ busy'[u] = busy[u] /\ busy[u] # None /\ busy[u].id \notin raced
      BY <2>1, <2>3, <3>1
    <3>3. busy[u].id # busy[t].id /\ busy[u].id \in 1..Len(sent)
      BY <1>0, <2>1, <3>2, TxTypes DEF OneMaker
    <3>4. QED
      BY <1>0, <2>1, <2>2, <3>1, <3>2, <3>3 DEF MakerHighest
  <2>7. NextNumberAbove'
    <3>1. SUFFICES ASSUME NEW e \in Evses, tx[e] # None, tx[e].id \notin raced
                   PROVE  Below(sent'[tx[e].id], tx[e].seq)
      BY <2>1 DEF NextNumberAbove
    <3>2. CASE tx[e].id = busy[t].id
      <4>1. busy[t].evse \in Evses
        BY <2>1, TxTypes DEF Activities
      <4>2. e = busy[t].evse
        BY <2>5, <3>1, <3>2, <4>1 DEF TxInv
      <4>3. QED
        BY <2>5, <3>1, <3>2, <4>2
    <3>3. CASE tx[e].id # busy[t].id
      <4>1. tx[e].id \in 1..Len(sent)
        BY <3>1, TxTypes
      <4>2. QED
        BY <1>0, <2>2, <3>1, <3>3, <4>1 DEF NextNumberAbove
    <3>4. QED
      BY <3>2, <3>3
  <2>8. NumbersGrow'
    BY <1>0, <2>1, <2>2, <2>5 DEF NumbersGrow
  <2>9. QED
    BY <2>4, <2>6, <2>7, <2>8 DEF OrderInv
<1>5. ASSUME NEW e \in Evses, Release(e)
      PROVE  OrderInv'
  <2> DEFINE a == AppOf(e)
  <2>1. /\ a \in Threads /\ busy[a] # None /\ busy[a].evse = e
        /\ tx[e] # None /\ tx[e].id = busy[a].id
        /\ tx'[e] = None /\ \A f \in Evses \ {e} : tx'[f] = tx[f]
        /\ busy'[a] = None /\ \A u \in Threads \ {a} : busy'[u] = busy[u]
        /\ sent' = sent /\ raced' = raced
    BY <1>5, ReleaseParts
  <2> HIDE DEF a
  <2>2. ASSUME NEW u \in Threads, busy'[u] # None, busy'[u].id \notin raced'
        PROVE  /\ busy[u] # None /\ busy[u].id \notin raced
               /\ busy'[u] = busy[u] /\ busy[u].evse \in Evses
               /\ tx'[busy[u].evse] = tx[busy[u].evse] /\ tx[busy[u].evse] # None /\ tx[busy[u].evse].id = busy[u].id
    <3>1. u # a /\ busy'[u] = busy[u] /\ busy[u] # None /\ busy[u].id \notin raced
      BY <2>1, <2>2
    <3>2. busy[u].evse \in Evses
      BY <3>1, TxTypes DEF Activities
    <3>3. tx[busy[u].evse] # None /\ tx[busy[u].evse].id = busy[u].id
      BY <1>0, <3>1 DEF MakerCurrent
    <3>4. busy[u].evse # e
      BY <1>0, <2>1, <3>1, <3>3 DEF OneMaker
    <3>5. QED
      BY <2>1, <3>1, <3>2, <3>3, <3>4
  <2>3. OneMaker'
    BY <1>0, <2>1, <2>2 DEF OneMaker
  <2>4. MakerCurrent' /\ MakerHighest'
    BY <1>0, <2>1, <2>2 DEF MakerCurrent, MakerHighest
  <2>5. NextNumberAbove' /\ NumbersGrow'
    BY <1>0, <2>1 DEF NextNumberAbove, NumbersGrow
  <2>6. QED
    BY <2>3, <2>4, <2>5 DEF OrderInv
<1>6. CASE Crash
  <2>1. /\ \A e \in Evses : tx'[e] # None => tx[e] # None /\ tx'[e] = tx[e]
        /\ \A t \in Threads : busy'[t] = None
        /\ sent' = sent /\ raced' = raced
    BY <1>6, CrashParts
  <2>2. OneMaker' /\ MakerCurrent' /\ MakerHighest'
    BY <2>1 DEF OneMaker, MakerCurrent, MakerHighest
  <2>3. NextNumberAbove' /\ NumbersGrow'
    BY <1>0, <2>1 DEF NextNumberAbove, NumbersGrow
  <2>4. QED
    BY <2>2, <2>3 DEF OrderInv
<1>7. QED
  BY <1>1, <1>2, <1>3, <1>4, <1>5, <1>6, TxCases DEF txVars, RemoteStart

\* Numbered from 0 without a gap, from Started, and to Ended if there is one.
Exact(s) ==
    \A i \in 1..Len(s) :
        /\ s[i].seq = i - 1
        /\ (s[i].type = "Started") = (i = 1)
        /\ s[i].type = "Ended" => i = Len(s)

\* Started, and not yet ended.
Open(s) == Len(s) > 0 /\ s[Len(s)].type # "Ended"

Clean(id) == id \notin raced \cup interrupted

\* No thread is making an event of the transaction.
Idle(id) == \A t \in Threads : busy[t] # None => busy[t].id # id

\* Without a crash in the middle of an event there is no gap: the number that a thread took is the
\* number of events that are queued, and so is the next number while no thread makes one.
AllExact == \A id \in 1..Len(sent) : Clean(id) => Exact(sent[id])

IdleOpen ==
    \A e \in Evses : tx[e] # None /\ Clean(tx[e].id) /\ Idle(tx[e].id)
                     => Open(sent[tx[e].id]) /\ Len(sent[tx[e].id]) = tx[e].seq

MakerExact ==
    \A t \in Threads : busy[t] # None /\ Clean(busy[t].id) =>
        /\ busy[t].type = "Opened" => Len(sent[busy[t].id]) = 0 /\ tx[busy[t].evse].seq = 0
        /\ busy[t].type = "Started" => Len(sent[busy[t].id]) = 0 /\ busy[t].taken = 0
        /\ busy[t].type \in {"Updated", "Ended"} => Open(sent[busy[t].id]) /\ Len(sent[busy[t].id]) = busy[t].taken

ExactInv == AllExact /\ IdleOpen /\ MakerExact

LEMMA ExactAppend ==
    ASSUME NEW s \in Seq(EventRecords), NEW event \in EventRecords, Exact(s), event.seq = Len(s),
           \/ event.type = "Started" /\ Len(s) = 0
           \/ event.type \in {"Updated", "Ended"} /\ Open(s)
    PROVE  Exact(Append(s, event)) /\ (event.type # "Ended" => Open(Append(s, event)))
<1> DEFINE r == Append(s, event)
<1>1. /\ Len(s) \in Nat /\ Len(r) = Len(s) + 1
      /\ \A i \in 1..Len(s) : r[i] = s[i]
      /\ r[Len(s) + 1] = event
  BY AppendProperties, LenProperties
<1> HIDE DEF r
<1>2. ASSUME NEW i \in 1..Len(r)
      PROVE  r[i].seq = i - 1 /\ ((r[i].type = "Started") = (i = 1)) /\ (r[i].type = "Ended" => i = Len(r))
  <2>1. CASE i \in 1..Len(s)
    <3>1. r[i] = s[i] /\ s[i].seq = i - 1 /\ ((s[i].type = "Started") = (i = 1)) /\ (s[i].type = "Ended" => i = Len(s))
      BY <1>1, <2>1 DEF Exact
    <3>2. s[i].type # "Ended"
      BY <1>1, <2>1, <3>1 DEF Open
    <3>3. QED
      BY <3>1, <3>2
  <2>2. CASE i = Len(s) + 1
    <3>1. r[i] = event /\ event.seq = i - 1 /\ i = Len(r)
      BY <1>1, <2>2
    <3>2. (event.type = "Started") = (i = 1)
      BY <1>1, <2>2 DEF Open
    <3>3. QED
      BY <3>1, <3>2
  <2>3. QED
    BY <1>1, <2>1, <2>2
<1>3. event.type # "Ended" => Open(r)
  BY <1>1 DEF Open
<1>4. QED
  BY <1>2, <1>3 DEF Exact, r

LEMMA NextExactInv ==
    ASSUME TxInv, OrderInv, ExactInv, [Next]_vars
    PROVE  ExactInv'
<1>0. OneMaker /\ MakerCurrent /\ MakerHighest /\ AllExact /\ IdleOpen /\ MakerExact
  BY DEF OrderInv, ExactInv
<1>1. CASE UNCHANGED <<tx, busy, sent, raced, interrupted>>
  BY <1>1 DEF ExactInv, AllExact, IdleOpen, MakerExact, Clean, Idle
<1>2. ASSUME NEW e \in Evses, NEW token \in Tokens \cup {None}, Start(e, token)
      PROVE  ExactInv'
  <2> DEFINE a == AppOf(e)
             new == Len(sent) + 1
  <2>1. /\ tx[e] = None /\ a \in Threads
        /\ Len(sent') = Len(sent) + 1 /\ sent'[new] = <<>>
        /\ \A id \in 1..Len(sent) : sent'[id] = sent[id]
        /\ tx'[e] # None /\ tx'[e].id = new /\ tx'[e].seq = 0
        /\ \A f \in Evses \ {e} : tx'[f] = tx[f]
        /\ busy'[a] # None /\ busy'[a].evse = e /\ busy'[a].id = new /\ busy'[a].type = "Opened"
        /\ \A t \in Threads \ {a} : busy'[t] = busy[t]
        /\ raced' = raced /\ interrupted' = interrupted
    BY <1>2, StartParts
  <2>2. /\ Len(sent) \in Nat /\ new \notin 1..Len(sent)
        /\ \A t \in Threads \ {a} : busy'[t] # None => busy[t] # None /\ busy[t].id \in 1..Len(sent) /\ busy[t].id # new
        /\ \A f \in Evses \ {e} : tx'[f] # None => tx[f] # None /\ tx[f].id \in 1..Len(sent)
        /\ busy[a] = None
    BY <1>2, <2>1, TxTypes DEF Start
  <2> HIDE DEF a, new
  <2>3. \A id : Clean(id)' <=> Clean(id)
    BY <2>1 DEF Clean
  <2>4. AllExact'
    <3>1. Exact(sent'[new])
      BY <2>1 DEF Exact
    <3>2. \A id \in 1..Len(sent') : id = new \/ id \in 1..Len(sent)
      BY <2>1, <2>2 DEF new
    <3>3. QED
      BY <1>0, <2>1, <2>3, <3>1, <3>2 DEF AllExact, Clean
  <2>5. IdleOpen'
    <3>1. SUFFICES ASSUME NEW f \in Evses, tx'[f] # None, tx'[f].id \notin raced' \cup interrupted',
                          \A t \in Threads : busy'[t] # None => busy'[t].id # tx'[f].id
                   PROVE  Open(sent'[tx'[f].id]) /\ Len(sent'[tx'[f].id]) = tx'[f].seq
      BY DEF IdleOpen, Idle, Clean
    <3>2. f # e
      BY <2>1, <3>1
    <3>3. tx'[f] = tx[f] /\ tx[f].id \in 1..Len(sent) /\ tx[f] # None /\ Clean(tx[f].id)
      BY <2>1, <2>2, <3>1, <3>2 DEF Clean
    <3>4. Idle(tx[f].id)
      BY <2>1, <2>2, <3>1, <3>3 DEF Idle
    <3>5. QED
      BY <1>0, <2>1, <3>3, <3>4 DEF IdleOpen
  <2>6. MakerExact'
    <3>1. ASSUME NEW t \in Threads \ {a}, busy'[t] # None, busy'[t].id \notin raced' \cup interrupted'
          PROVE  /\ busy'[t] = busy[t] /\ busy[t] # None /\ Clean(busy[t].id)
                 /\ tx'[busy[t].evse] = tx[busy[t].evse] /\ sent'[busy[t].id] = sent[busy[t].id]
      <4>1. busy'[t] = busy[t] /\ busy[t] # None /\ Clean(busy[t].id) /\ busy[t].id \in 1..Len(sent)
        BY <2>1, <2>2, <3>1 DEF Clean
      <4>2. busy[t].evse \in Evses /\ tx[busy[t].evse] # None
        BY <1>0, <4>1, TxTypes DEF Activities, MakerCurrent, Clean
      <4>3. QED
        BY <2>1, <4>1, <4>2
    <3>2. Len(sent'[busy'[a].id]) = 0 /\ tx'[busy'[a].evse].seq = 0
      BY <2>1
    <3>3. QED
      BY <1>0, <2>1, <3>1, <3>2 DEF MakerExact, Clean
  <2>7. QED
    BY <2>4, <2>5, <2>6 DEF ExactInv
<1>3. ASSUME NEW t \in Threads, NEW e \in Evses, NEW type \in EventTypes, Begins(t, e, type)
      PROVE  ExactInv'
  <2>1. /\ tx[e] # None /\ tx[e].id \in 1..Len(sent) /\ tx[e].seq \in Nat
        /\ tx'[e] # None /\ tx'[e].id = tx[e].id /\ tx'[e].seq = tx[e].seq + 1
        /\ \A f \in Evses \ {e} : tx'[f] = tx[f]
        /\ busy'[t] # None /\ busy'[t].evse = e /\ busy'[t].id = tx[e].id
        /\ busy'[t].type = type /\ busy'[t].taken = tx[e].seq
        /\ \A u \in Threads \ {t} : busy'[u] = busy[u]
        /\ busy[t] # None => /\ type = "Started" /\ busy[t].type = "Opened"
                             /\ busy[t].evse = e /\ busy[t].id = tx[e].id
        /\ busy[t] = None => type \in {"Updated", "Ended"}
        /\ sent' = sent /\ interrupted' = interrupted /\ raced \subseteq raced'
        /\ tx[e].id \notin raced' => \A u \in Threads \ {t} : busy[u] # None => busy[u].id # tx[e].id
    BY <1>3, BeginsParts
  <2>2. AllExact'
    BY <1>0, <2>1 DEF AllExact, Clean
  <2>3. IdleOpen'
    <3>1. SUFFICES ASSUME NEW f \in Evses, tx'[f] # None, tx'[f].id \notin raced' \cup interrupted',
                          \A u \in Threads : busy'[u] # None => busy'[u].id # tx'[f].id
                   PROVE  Open(sent'[tx'[f].id]) /\ Len(sent'[tx'[f].id]) = tx'[f].seq
      BY DEF IdleOpen, Idle, Clean
    <3>2. f # e
      BY <2>1, <3>1
    <3>3. tx'[f] = tx[f] /\ tx[f] # None /\ Clean(tx[f].id)
      BY <2>1, <3>1, <3>2 DEF Clean
    <3>4. Idle(tx[f].id)
      BY <2>1, <3>1, <3>3 DEF Idle
    <3>5. QED
      BY <1>0, <2>1, <3>3, <3>4 DEF IdleOpen
  <2>4. MakerExact'
    <3>1. ASSUME NEW u \in Threads \ {t}, busy'[u] # None, busy'[u].id \notin raced' \cup interrupted'
          PROVE  /\ busy'[u] = busy[u] /\ busy[u] # None /\ Clean(busy[u].id)
                 /\ tx'[busy[u].evse] = tx[busy[u].evse]
      <4>1. busy'[u] = busy[u] /\ busy[u] # None /\ Clean(busy[u].id)
        BY <2>1, <3>1 DEF Clean
      <4>2. busy[u].evse \in Evses /\ tx[busy[u].evse] # None /\ tx[busy[u].evse].id = busy[u].id
        BY <1>0, <4>1, TxTypes DEF Activities, MakerCurrent, Clean
      <4>3. busy[u].evse # e
        BY <2>1, <3>1, <4>1, <4>2
      <4>4. QED
        BY <2>1, <4>1, <4>2, <4>3
    <3>2. ASSUME tx[e].id \notin raced' \cup interrupted'
          PROVE  /\ type = "Started" => Len(sent[tx[e].id]) = 0 /\ tx[e].seq = 0
                 /\ type \in {"Updated", "Ended"} => Open(sent[tx[e].id]) /\ Len(sent[tx[e].id]) = tx[e].seq
      <4>1. Clean(tx[e].id)
        BY <2>1, <3>2 DEF Clean
      <4>2. CASE busy[t] = None
        <5>1. Idle(tx[e].id)
          BY <2>1, <3>2, <4>2 DEF Idle
        <5>2. QED
          BY <1>0, <2>1, <4>1, <4>2, <5>1 DEF IdleOpen
      <4>3. CASE busy[t] # None
        BY <1>0, <2>1, <4>1, <4>3 DEF MakerExact
      <4>4. QED
        BY <4>2, <4>3
    <3>3. type # "Opened"
      BY DEF EventTypes
    <3>4. QED
      BY <1>0, <2>1, <3>1, <3>2, <3>3 DEF MakerExact, Clean
  <2>5. QED
    BY <2>2, <2>3, <2>4 DEF ExactInv
<1>4. ASSUME NEW t \in Threads, PushEvent(t)
      PROVE  ExactInv'
  <2>1. PICK event \in EventRecords :
             /\ busy[t] # None /\ busy[t].type \in EventTypes /\ busy[t].id \in 1..Len(sent)
             /\ event.type = busy[t].type
             /\ event.seq = busy[t].taken \/ (Current(t) /\ event.seq = tx[busy[t].evse].seq - 1)
             /\ sent' = [sent EXCEPT ![busy[t].id] = Append(@, event)]
             /\ busy'[t] # None => busy'[t].evse = busy[t].evse /\ busy'[t].id = busy[t].id /\ busy'[t].type = "Releasing"
             /\ busy[t].type = "Ended" => busy'[t] # None
             /\ \A u \in Threads \ {t} : busy'[u] = busy[u]
             /\ tx' = tx /\ raced' = raced /\ interrupted' = interrupted
    BY <1>4, PushParts
  <2>2. /\ Len(sent') = Len(sent) /\ sent'[busy[t].id] = Append(sent[busy[t].id], event)
        /\ Len(sent[busy[t].id]) \in Nat /\ Len(sent'[busy[t].id]) = Len(sent[busy[t].id]) + 1
        /\ \A id \in 1..Len(sent) : id # busy[t].id => sent'[id] = sent[id]
    BY <2>1, PushedEvents
  <2>3. \A id : Clean(id)' <=> Clean(id)
    BY <2>1 DEF Clean
  <2>4. ASSUME Clean(busy[t].id)
        PROVE  /\ Exact(sent'[busy[t].id]) /\ event.seq = Len(sent[busy[t].id])
               /\ busy[t].type # "Ended" => Open(sent'[busy[t].id])
               /\ tx[busy[t].evse] # None /\ tx[busy[t].evse].id = busy[t].id
               /\ tx[busy[t].evse].seq = Len(sent'[busy[t].id])
    <3>1. busy[t].taken \in Nat /\ sent[busy[t].id] \in Seq(EventRecords) /\ busy[t].id \notin raced
      BY <2>1, <2>4, TxTypes DEF Activities, Clean
    <3>2. tx[busy[t].evse].seq = busy[t].taken + 1 /\ tx[busy[t].evse] # None /\ tx[busy[t].evse].id = busy[t].id
      BY <1>0, <2>1, <3>1 DEF MakerHighest, MakerCurrent
    <3>3. event.seq = busy[t].taken
      BY <2>1, <3>1, <3>2
    <3>4. Exact(sent[busy[t].id])
      BY <1>0, <2>1, <2>4 DEF AllExact
    <3>5. /\ Len(sent[busy[t].id]) = busy[t].taken
          /\ \/ event.type = "Started" /\ Len(sent[busy[t].id]) = 0
             \/ event.type \in {"Updated", "Ended"} /\ Open(sent[busy[t].id])
      BY <1>0, <2>1, <2>4 DEF MakerExact, EventTypes
    <3>6. Exact(Append(sent[busy[t].id], event)) /\ (event.type # "Ended" => Open(Append(sent[busy[t].id], event)))
      BY <3>1, <3>3, <3>4, <3>5, ExactAppend
    <3>7. QED
      BY <2>1, <2>2, <3>2, <3>3, <3>5, <3>6
  <2>5. AllExact'
    BY <1>0, <2>1, <2>2, <2>3, <2>4 DEF AllExact
  <2>6. IdleOpen'
    <3>1. SUFFICES ASSUME NEW f \in Evses, tx[f] # None, Clean(tx[f].id),
                          \A u \in Threads : busy'[u] # None => busy'[u].id # tx[f].id
                   PROVE  Open(sent'[tx[f].id]) /\ Len(sent'[tx[f].id]) = tx[f].seq
      BY <2>1, <2>3 DEF IdleOpen, Idle, Clean
    <3>2. CASE tx[f].id = busy[t].id
      <4>1. busy'[t] = None
        BY <2>1, <3>1, <3>2
      <4>2. busy[t].evse \in Evses
        BY <2>1, TxTypes DEF Activities
      <4>3. f = busy[t].evse
        BY <2>4, <3>1, <3>2, <4>2 DEF TxInv
      <4>4. QED
        BY <2>1, <2>4, <3>1, <3>2, <4>1, <4>3
    <3>3. CASE tx[f].id # busy[t].id
      <4>1. tx[f].id \in 1..Len(sent)
        BY <3>1, TxTypes
      <4>2. Idle(tx[f].id)
        BY <2>1, <3>1, <3>3 DEF Idle
      <4>3. QED
        BY <1>0, <2>2, <3>1, <3>3, <4>1, <4>2 DEF IdleOpen
    <3>4. QED
      BY <3>2, <3>3
  <2>7. MakerExact'
    <3>1. ASSUME NEW u \in Threads \ {t}, busy'[u] # None, Clean(busy[u].id)
          PROVE  /\ busy'[u] = busy[u] /\ busy[u] # None /\ sent'[busy[u].id] = sent[busy[u].id]
      <4>1. busy'[u] = busy[u] /\ busy[u] # None
        BY <2>1, <3>1
      <4>2. busy[u].id # busy[t].id /\ busy[u].id \in 1..Len(sent)
        BY <1>0, <2>1, <3>1, <4>1, TxTypes DEF OneMaker, Clean
      <4>3. QED
        BY <2>2, <4>1, <4>2
    <3>2. SUFFICES ASSUME NEW u \in Threads, busy'[u] # None, busy'[u].id \notin raced \cup interrupted
                   PROVE  /\ busy'[u].type = "Opened" => Len(sent'[busy'[u].id]) = 0 /\ tx[busy'[u].evse].seq = 0
                          /\ busy'[u].type = "Started" => Len(sent'[busy'[u].id]) = 0 /\ busy'[u].taken = 0
                          /\ busy'[u].type \in {"Updated", "Ended"}
                             => Open(sent'[busy'[u].id]) /\ Len(sent'[busy'[u].id]) = busy'[u].taken
      BY <2>1 DEF MakerExact, Clean
    <3>3. CASE u = t
      BY <2>1, <3>2, <3>3
    <3>4. CASE u # t
      <4>1. busy'[u] = busy[u] /\ busy[u] # None /\ Clean(busy[u].id)
        BY <2>1, <3>2, <3>4 DEF Clean
      <4>2. sent'[busy[u].id] = sent[busy[u].id]
        BY <3>1, <3>2, <3>4, <4>1
      <4>3. QED
        BY <1>0, <4>1, <4>2 DEF MakerExact
    <3>5. QED
      BY <3>3, <3>4
  <2>8. QED
    BY <2>5, <2>6, <2>7 DEF ExactInv
<1>5. ASSUME NEW e \in Evses, Release(e)
      PROVE  ExactInv'
  <2> DEFINE a == AppOf(e)
  <2>1. /\ a \in Threads /\ busy[a] # None /\ busy[a].evse = e
        /\ tx[e] # None /\ tx[e].id = busy[a].id
        /\ tx'[e] = None /\ \A f \in Evses \ {e} : tx'[f] = tx[f]
        /\ busy'[a] = None /\ \A u \in Threads \ {a} : busy'[u] = busy[u]
        /\ sent' = sent /\ raced' = raced /\ interrupted' = interrupted
    BY <1>5, ReleaseParts
  <2> HIDE DEF a
  <2>2. AllExact'
    BY <1>0, <2>1 DEF AllExact, Clean
  <2>3. IdleOpen'
    <3>1. SUFFICES ASSUME NEW f \in Evses, tx'[f] # None, tx'[f].id \notin raced \cup interrupted,
                          \A u \in Threads : busy'[u] # None => busy'[u].id # tx'[f].id
                   PROVE  Open(sent[tx'[f].id]) /\ Len(sent[tx'[f].id]) = tx'[f].seq
      BY <2>1 DEF IdleOpen, Idle, Clean
    <3>2. f # e /\ tx'[f] = tx[f] /\ tx[f] # None /\ Clean(tx[f].id)
      BY <2>1, <3>1 DEF Clean
    <3>3. tx[f].id # busy[a].id
      BY <2>1, <3>2 DEF TxInv
    <3>4. Idle(tx[f].id)
      BY <2>1, <3>1, <3>2, <3>3 DEF Idle
    <3>5. QED
      BY <1>0, <3>2, <3>4 DEF IdleOpen
  <2>4. MakerExact'
    <3>1. ASSUME NEW u \in Threads, busy'[u] # None, busy'[u].id \notin raced' \cup interrupted'
          PROVE  /\ busy'[u] = busy[u] /\ busy[u] # None /\ Clean(busy[u].id)
                 /\ tx'[busy[u].evse] = tx[busy[u].evse]
      <4>1. u # a /\ busy'[u] = busy[u] /\ busy[u] # None /\ Clean(busy[u].id)
        BY <2>1, <3>1 DEF Clean
      <4>2. busy[u].evse \in Evses /\ tx[busy[u].evse] # None /\ tx[busy[u].evse].id = busy[u].id
        BY <1>0, <4>1, TxTypes DEF Activities, MakerCurrent, Clean
      <4>3. busy[u].evse # e
        BY <1>0, <2>1, <4>1, <4>2 DEF OneMaker, Clean
      <4>4. QED
        BY <2>1, <4>1, <4>2, <4>3
    <3>2. QED
      BY <1>0, <2>1, <3>1 DEF MakerExact, Clean
  <2>5. QED
    BY <2>2, <2>3, <2>4 DEF ExactInv
<1>6. CASE Crash
  <2>1. /\ \A e \in Evses : tx'[e] # None => tx[e] # None /\ tx'[e] = tx[e]
        /\ \A t \in Threads : busy'[t] = None
        /\ sent' = sent /\ raced' = raced /\ interrupted \subseteq interrupted'
        /\ \A t \in Threads : busy[t] # None => busy[t].id \in interrupted'
    BY <1>6, CrashParts
  <2>2. AllExact'
    BY <1>0, <2>1 DEF AllExact, Clean
  <2>3. IdleOpen'
    BY <1>0, <2>1 DEF IdleOpen, Clean, Idle
  <2>4. MakerExact'
    BY <2>1 DEF MakerExact
  <2>5. QED
    BY <2>2, <2>3, <2>4 DEF ExactInv
<1>7. QED
  BY <1>1, <1>2, <1>3, <1>4, <1>5, <1>6, TxCases DEF txVars, RemoteStart

\* The events of a transaction carry growing numbers, also when get_seq_no went on from the stored row
\* after a crash, and without a crash in an event they count from 0 without a gap, from the only Started
\* to the only Ended, for any EVSEs, tokens, timers and TriggerMessages.  Transactions of which two
\* threads made an event at the same time are left out, as get_seq_no takes no lock.
THEOREM EventsOrdered == Spec => []EventsInOrder
<1> DEFINE Inv == TxInv /\ OrderInv /\ ExactInv
<1>1. Init => Inv
  <2>1. ASSUME Init
        PROVE  OrderInv /\ ExactInv
    <3>1. (\A e \in Evses : tx[e] = None) /\ (\A t \in Threads : busy[t] = None) /\ Len(sent) = 0
      BY <2>1 DEF Init
    <3>2. OrderInv
      BY <3>1 DEF OrderInv, OneMaker, MakerCurrent, MakerHighest, NextNumberAbove, NumbersGrow
    <3>3. ExactInv
      BY <3>1 DEF ExactInv, AllExact, IdleOpen, MakerExact
    <3>4. QED
      BY <3>2, <3>3
  <2>2. QED
    BY <2>1, InitTxInv
<1>2. Inv /\ [Next]_vars => Inv'
  BY NextTxInv, NextOrderInv, NextExactInv
<1>3. Inv => EventsInOrder
  BY DEF OrderInv, NumbersGrow, Growing, ExactInv, AllExact, Exact, Clean, EventsInOrder
<1>4. QED
  BY <1>1, <1>2, <1>3, PTL DEF Spec

=============================================================================
