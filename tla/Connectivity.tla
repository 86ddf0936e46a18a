---------------------------- MODULE Connectivity ----------------------------
(***************************************************************************)
(* The connectivity manager of OCPP 2.x:                                   *)
(* lib/ocpp/v2/connectivity_manager.cpp on top of the Websocket, and the   *)
(* two callbacks of lib/ocpp/v2/charge_point.cpp that follow the           *)
(* connection.                                                             *)
(*                                                                         *)
(* Threads.  "app" is the application (connect_websocket,                  *)
(* disconnect_websocket, on_network_disconnected), "timer" the thread of   *)
(* websocket_timer, "ping" that of the ping timer, and Receiver the        *)
(* message thread, which closes the connection when a certificate or the   *)
(* authorization key changes.  The deferred thread of the websocket runs   *)
(* the manager's callbacks.  The manager has no lock: a step ends where a  *)
(* thread waits, for the configuration callback of the application or for  *)
(* the websocket.                                                          *)
(*                                                                         *)
(* Slots.  slots is network_connection_slots, highest priority first;      *)
(* active is the index of the slot in use (from 1, where the code counts   *)
(* from 0).  Profile[s] is the security profile of slot s.                 *)
(***************************************************************************)
EXTENDS Websocket, SequencesExt, Ranks

CONSTANTS
    Priorities,     \* NetworkConfigurationPriority
    Profile,        \* the security profile of every slot
    InitialLevel,   \* SecurityProfile of the device model at boot
    NextOfActive,   \* the timer moves on from the slot active when it fires
    Requests,       \* what the application and the library call
    Patient,        \* whether connect() waits until nothing is under way
    MaxCalls,       \* bound: calls of the application and the library
    MaxDeferred     \* bound: callbacks waiting when another thread starts

\* A slot and its priority, as try_connect_websocket computed them.
Attempts == [slot : Slots, priority : 1..Len(Priorities)]

ASSUME SlotsAssumption ==
    /\ Priorities \in Seq(Slots)
    /\ Profile \in [Slots -> 0..3]
    /\ InitialLevel \in 0..3
    /\ NextOfActive \notin Slots \cup {None}
    /\ None \notin Nat
    /\ None \notin Attempts
    /\ \E i \in DOMAIN Priorities : Profile[Priorities[i]] >= InitialLevel

ASSUME CallersAssumption ==
    /\ Callers = {"app", "timer", "ping", Receiver}
    /\ Cardinality(Callers) = 4
    /\ Requests \subseteq {"connect", "disconnect", "netdown", "certificate", "pong"}
    /\ Patient \in BOOLEAN
    /\ MaxCalls \in Nat
    /\ MaxDeferred \in Nat

VARIABLES
    wants,          \* wants_to_be_connected
    pending,        \* pending_configuration_slot
    active,         \* active_network_configuration_priority
    slots,          \* network_connection_slots
    lastLevel,      \* last_known_security_level
    level,          \* SecurityProfile, in the device model
    timer,          \* websocket_timer: the slot its callback moves on from
    trying,         \* trying[c]: the slot c is configuring in try_connect_websocket
    deferredPc,     \* whether the deferred thread owes disconnected_callback
    online,         \* the charge point was last told that it is connected
    registered,     \* the BootNotification was accepted
    dead,           \* an exception left a thread of the library
    requested,      \* history: the slot connect() asked for, until one is tried
    calls

manager == <<wants, pending, active, slots, lastLevel, level, timer, trying>>
station == <<deferredPc, online, registered>>
vars == <<websocket, manager, station, dead, requested, calls>>

(* Type correctness.  The part that is not obvious: connection_attempts    *)
(* stays within max_connection_attempts + 1, the priority in use never     *)
(* exceeds the configured ones, and the list of slots never runs empty.    *)
TypeOK ==
    /\ WebsocketTypeOK
    /\ wants \in BOOLEAN
    /\ pending \in Slots \cup {None}
    /\ active \in 1..Len(Priorities)
    /\ slots \in Seq(Slots) /\ slots # <<>>
    /\ lastLevel \in 0..3
    /\ level \in 0..3
    /\ timer \in Slots \cup {NextOfActive, None}
    /\ trying \in [Callers -> Attempts \cup {None}]
    /\ deferredPc \in {"idle", "disconnected"}
    /\ requested \in Slots \cup {None}
    /\ online \in BOOLEAN
    /\ registered \in BOOLEAN
    /\ dead \in BOOLEAN
    /\ calls \in 0..MaxCalls

\* The constructor, with cache_network_connection_profiles.
Init ==
    /\ WebsocketInit
    /\ wants = FALSE
    /\ pending = None
    /\ active = 1
    /\ slots = Priorities
    /\ lastLevel = 0
    /\ level = InitialLevel
    /\ timer = None
    /\ trying = [c \in Callers |-> None]
    /\ deferredPc = "idle"
    /\ online = FALSE
    /\ registered = FALSE
    /\ dead = FALSE
    /\ requested = None
    /\ calls = 0

-----------------------------------------------------------------------------
(* Slots and priorities.                                                   *)

\* get_priority_from_configuration_slot
Priority(ss, s) == IF s \in ToSet(ss) THEN CHOOSE i \in DOMAIN ss : ss[i] = s ELSE None

\* get_next_configuration_slot
NextSlot(ss, s) == IF s \in ToSet(ss) THEN ss[(Priority(ss, s) % Len(ss)) + 1] ELSE ss[1]

\* network_connection_slots.at() throws std::out_of_range otherwise.
ActiveInRange(ss) == active \in DOMAIN ss

\* get_active_network_configuration_slot
ActiveSlot == slots[active]

\* Nothing of an earlier connection is under way: no callback, no timer, no
\* thread at work; the websocket is connected or has been given up.
Quiet ==
    /\ deferred = <<>> /\ deferredPc = "idle"
    /\ timer = None
    /\ \A c \in Callers : op[c] = "idle" /\ trying[c] = None
    /\ client = "done" \/ connected

Idle(c) == op[c] = "idle" /\ trying[c] = None

\* std::remove_if: the slots whose profile is not below lv, in their order.
AtLeast(ss, lv) == ElementsAt(ss, {i \in DOMAIN ss : Profile[ss[i]] >= lv})

\* check_cache_for_invalid_security_profiles, when the level has become lv:
\* drop the slots below it and keep the slot in use, or the next one, pending.
\* Its active slot is read even when another one is pending.
CheckCache(lv, pend) ==
    IF lastLevel = lv
    THEN slots' = slots /\ pending' = pend /\ UNCHANGED lastLevel
    ELSE LET before == IF pend # None THEN pend ELSE ActiveSlot
             kept == AtLeast(slots, lv)
         IN  /\ lastLevel' = lv
             /\ slots' = kept
             /\ pending' = IF before \in ToSet(kept) THEN before ELSE NextSlot(kept, before)

\* An exception that leaves a thread of the library ends the process; one that
\* leaves a call of the application is the application's.
Throw(c) == dead' = (c # "app")

-----------------------------------------------------------------------------
(* try_connect_websocket, in two steps: up to the configuration callback   *)
(* of the application, and from its result on.                             *)

\* The first part, run by c with pend as the pending slot and tm as the timer.
\* A slot that has no priority any more cannot be used: the timer moves on
\* from it.
TryConnect(c, pend, tm) ==
    IF ~ActiveInRange(slots)
    THEN /\ pending' = pend
         /\ timer' = tm
         /\ Throw(c)
         /\ UNCHANGED <<slots, lastLevel, trying>>
    ELSE /\ CheckCache(level, pend)
         /\ IF ~ActiveInRange(slots')
            THEN Throw(c) /\ timer' = tm /\ UNCHANGED trying
            ELSE LET slot == IF pending' # None THEN pending' ELSE slots'[active]
                     priority == Priority(slots', slot)
                 IN  /\ IF priority # None
                        THEN /\ trying' = [trying EXCEPT ![c] =
                                              [slot |-> slot, priority |-> priority]]
                             /\ timer' = tm
                        ELSE /\ timer' = IF wants' THEN slot ELSE tm
                             /\ UNCHANGED trying
                     /\ UNCHANGED dead

\* handle_configure_network_connection_profile_callback returned success: open
\* the websocket with the options of the slot.  The priority was computed
\* before the wait.
ConfiguredStaleActive(c) ==
    /\ trying[c] # None
    /\ trying' = [trying EXCEPT ![c] = None]
    /\ pending' = None
    /\ options' = trying[c].slot
    /\ op' = [op EXCEPT ![c] = "start"]
    /\ UNCHANGED <<conn, connected, clientVars, wants, active, slots, lastLevel, level, timer,
                   station, dead, requested, calls>>

Configured(c) ==
    /\ trying[c] # None
    /\ trying' = [trying EXCEPT ![c] = None]
    /\ pending' = None
    /\ active' = trying[c].priority
    /\ options' = trying[c].slot
    /\ op' = [op EXCEPT ![c] = "start"]
    /\ UNCHANGED <<conn, connected, clientVars, wants, slots, lastLevel, level, timer,
                   station, dead, requested, calls>>

\* It failed or timed out: try the next slot in two seconds.
ConfigureFailed(c) ==
    /\ trying[c] # None
    /\ Failure
    /\ trying' = [trying EXCEPT ![c] = None]
    /\ timer' = IF wants THEN trying[c].slot ELSE timer
    /\ UNCHANGED <<conn, client, est, connected, attempts, options, deferred, op, wants, pending,
                   active, slots, lastLevel, level, station, dead, requested, calls>>

\* websocket_timer fires.
TimerFires ==
    /\ timer # None
    /\ Idle("timer")
    /\ Len(deferred) <= MaxDeferred
    /\ UNCHANGED wants
    /\ IF timer = NextOfActive /\ ~ActiveInRange(slots)
       THEN /\ Throw("timer")
            /\ timer' = None
            /\ UNCHANGED <<pending, slots, lastLevel, trying>>
       ELSE TryConnect("timer",
                       NextSlot(slots, IF timer = NextOfActive THEN ActiveSlot ELSE timer),
                       None)
    /\ requested' = None
    /\ UNCHANGED <<websocket, active, level, station, calls>>

-----------------------------------------------------------------------------
(* The callbacks of the websocket, on the deferred thread, and the         *)
(* charge point's part of them.                                            *)

\* confirm_successful_connection: the profile of the active slot becomes the
\* SecurityProfile of the station, and the slots below it are dropped.  (The
\* same function rewrites the stored list of profiles, which is read at boot.)
ConfirmSuccessfulConnection ==
    /\ level' = Profile[ActiveSlot]
    /\ CheckCache(level', pending)

\* on_websocket_connected and websocket_connected_callback
OnConnected ==
    /\ Head(deferred) = "connected"
    /\ online' = TRUE
    /\ IF registered
       THEN ConfirmSuccessfulConnection
       ELSE UNCHANGED <<level, slots, pending, lastLevel>>
    /\ UNCHANGED <<timer, deferredPc>>

\* on_websocket_disconnected and websocket_disconnected_callback
OnDisconnected ==
    /\ Head(deferred) = "disconnected"
    /\ online' = FALSE
    /\ UNCHANGED <<timer, deferredPc, level, slots, pending, lastLevel>>

\* on_websocket_stopped_connecting, for which the websocket always gives the
\* reason Normal: the timer moves on to the slot after the active one.
OnStoppedConnecting ==
    /\ Head(deferred) = "stopped"
    /\ timer' = IF wants THEN NextOfActive ELSE timer
    /\ deferredPc' = "disconnected"
    /\ UNCHANGED <<online, level, slots, pending, lastLevel>>

\* Every one of them reads the active slot first.
RunCallback ==
    /\ deferredPc = "idle"
    /\ deferred # <<>>
    /\ deferred' = Tail(deferred)
    /\ IF ActiveInRange(slots)
       THEN /\ OnConnected \/ OnDisconnected \/ OnStoppedConnecting
            /\ UNCHANGED dead
       ELSE Throw("deferred") /\ UNCHANGED <<timer, deferredPc, online, level, slots, pending, lastLevel>>
    /\ UNCHANGED <<conn, client, est, connected, attempts, options, op, failures,
                   wants, active, trying, registered, requested, calls>>

\* The second callback of the pair that on_conn_close defers.
RunDisconnected ==
    /\ deferredPc = "disconnected"
    /\ deferredPc' = "idle"
    /\ IF ActiveInRange(slots)
       THEN online' = FALSE /\ UNCHANGED dead
       ELSE Throw("deferred") /\ UNCHANGED online
    /\ UNCHANGED <<websocket, manager, registered, requested, calls>>

\* handle_boot_notification_response, on the message thread of a connection
\* that has been established.
BootAccepted ==
    /\ conn # None /\ conn.heard
    /\ ~registered
    /\ registered' = TRUE
    /\ IF ActiveInRange(slots)
       THEN ConfirmSuccessfulConnection
       ELSE UNCHANGED <<level, slots, pending, lastLevel>>
    /\ UNCHANGED <<websocket, wants, active, timer, trying, deferredPc, online, dead,
                   requested, calls>>

-----------------------------------------------------------------------------
(* The calls of the application and of the rest of the library.            *)

Call(request, c) ==
    /\ request \in Requests
    /\ Idle(c)
    /\ Len(deferred) <= MaxDeferred
    /\ calls < MaxCalls
    /\ calls' = calls + 1

\* websocket->disconnect(): c will close the websocket, if there is one.
Disconnects(c) == op' = [op EXCEPT ![c] = IF options # None THEN "close" ELSE "idle"]

\* connect(s), where None stands for the active slot.
Connect(s) ==
    /\ Call("connect", "app")
    /\ Patient => Quiet
    /\ ActiveInRange(slots)
    /\ wants' = TRUE
    /\ LET slot == IF s = None THEN ActiveSlot ELSE s
       IN  IF connected
           THEN /\ Disconnects("app")
                /\ pending' = slot
                /\ requested' = s
                /\ UNCHANGED <<slots, lastLevel, timer, trying, dead>>
           ELSE TryConnect("app", slot, timer) /\ requested' = None /\ UNCHANGED op
    /\ UNCHANGED <<conn, connected, options, clientVars, active, level, station>>

\* disconnect()
Disconnect ==
    /\ Call("disconnect", "app")
    /\ wants' = FALSE
    /\ timer' = None
    /\ requested' = None
    /\ Disconnects("app")
    /\ UNCHANGED <<conn, connected, options, clientVars, pending, active, slots, lastLevel, level,
                   trying, station, dead>>

Closes(c) ==
    /\ options # None
    /\ Disconnects(c)
    /\ UNCHANGED <<conn, connected, options, clientVars, manager, station, dead, requested>>

\* on_network_disconnected, for the interface of the active slot
NetworkDisconnected == Call("netdown", "app") /\ ActiveInRange(slots) /\ Closes("app")

\* on_charging_station_certificate_changed and set_websocket_authorization_key,
\* in a handler of the message thread
CertificateChanged ==
    /\ Call("certificate", Receiver)
    /\ conn # None /\ conn.heard
    /\ Closes(Receiver)

\* on_pong_timeout: the ping timer runs while the websocket is connected.
PongTimeout == Call("pong", "ping") /\ connected /\ Closes("ping")

-----------------------------------------------------------------------------
WebsocketStep(A) == A /\ UNCHANGED <<manager, station, dead, requested, calls>>

DeferredStep == RunCallback \/ RunDisconnected
ConfigureStep(c) == Configured(c) \/ ConfigureFailed(c)

Next ==
    /\ ~dead
    /\ \/ WebsocketStep(ClientStep)
       \/ \E c \in Callers : WebsocketStep(CallerStep(c)) \/ ConfigureStep(c)
       \/ TimerFires
       \/ DeferredStep
       \/ BootAccepted
       \/ \E s \in Slots \cup {None} : Connect(s)
       \/ Disconnect
       \/ NetworkDisconnected
       \/ CertificateChanged
       \/ PongTimeout

Spec == Init /\ [][Next]_vars

\* Every thread that can go on does, and so does the timer.  The network
\* fails MaxFailures times at most, so a connection that can be established
\* is in the end.
Fairness ==
    /\ WF_vars(~dead /\ WebsocketStep(ClientStep))
    /\ \A c \in Callers : /\ WF_vars(~dead /\ WebsocketStep(CallerStep(c)))
                          /\ WF_vars(~dead /\ ConfigureStep(c))
    /\ WF_vars(~dead /\ TimerFires)
    /\ WF_vars(~dead /\ DeferredStep)

FairSpec == Spec /\ Fairness

-----------------------------------------------------------------------------
(* Properties.                                                             *)

\* How many things will lead to the next attempt to connect: a client thread
\* that has not reported its end, a report that waits, the timer, a thread in
\* try_connect_websocket.
Chains ==
    (IF client # "done" /\ ~conn.stopRun THEN 1 ELSE 0)
    + Cardinality({i \in DOMAIN deferred : deferred[i] = "stopped"})
    + (IF timer # None THEN 1 ELSE 0)
    + Cardinality({c \in Callers : trying[c] # None \/ op[c] \in {"start", "starting"}})

(* A station that wants to be connected never stops trying: whatever the   *)
(* order of failures, closes and callbacks, something is under way that    *)
(* leads to the next attempt (client loop, stopped_connecting_callback,    *)
(* websocket_timer, try_connect_websocket).                                *)
StillTrying == wants => Chains >= 1

(* ... and only one thing is: a second one would tear down the connection  *)
(* that the first one made.  This is what mark_stop_executed is for.       *)
OneChain == Chains <= 1

(* Exactly one thing leads to the next attempt of a station that wants to  *)
(* be connected, and at most one of any other: no order of failures,       *)
(* closes, timer callbacks and calls of connect and disconnect leaves it   *)
(* with none, or with two that fight over the connection.                  *)
SingleChain == StillTrying /\ OneChain

(* Once its callbacks have run, the charge point's view of the connection  *)
(* (message queue paused or resumed) agrees with the websocket.            *)
ViewConverges == deferred = <<>> /\ deferredPc = "idle" => (online <=> connected)

(* The active slot is the one the websocket was opened with, as the        *)
(* comment on get_active_network_configuration_slot says.                  *)
ActiveSlotKept == options # None => ActiveInRange(slots) /\ ActiveSlot = options

(* connect(s) is followed by an attempt with slot s, before any other      *)
(* slot is tried.                                                          *)
RequestedSlotFirst ==
    [][\A c \in Callers : requested # None /\ trying'[c] # None /\ trying[c] = None
                              => trying'[c].slot = requested]_vars

\* A thread joins the message thread, which waits for the mutex it holds.
ThreadsStuck == op[Receiver] = "close" /\ \E c \in Callers : op[c] \in {"closing", "starting"}

(* A station that goes on wanting to be connected ends up connected, and   *)
(* stays so while nothing fails (unless CloseReturns, below, does not      *)
(* hold).                                                                  *)
SettlesConnected == <>[]wants => <>[](connected /\ online) \/ <>[]ThreadsStuck

(* A close() that has begun comes to its end: disconnect_websocket,        *)
(* on_network_disconnected and the ping timer get their thread back.       *)
CloseReturns == \A c \in Callers : op[c] = "closing" ~> op[c] = "idle"
=============================================================================
