----------------------------- MODULE Websocket -----------------------------
(***************************************************************************)
(* The websocket of libocpp: WebsocketLibwebsockets of                     *)
(* lib/ocpp/common/websocket/websocket_libwebsockets.cpp and the base      *)
(* class it shares with other transports, websocket_base.cpp.              *)
(*                                                                         *)
(* Threads.  Every connection has a client thread, which owns the          *)
(* libwebsockets context, connects, serves the connection and retries, and *)
(* a message thread, which handles what was received.  Threads that start  *)
(* or close a connection (Callers; the message thread itself is one of     *)
(* them) take connection_mutex and wait, with the mutex held, for the two  *)
(* threads of the connection to end.  The client thread reports what       *)
(* happened through a queue of deferred callbacks, which another thread    *)
(* runs one after the other.                                               *)
(*                                                                         *)
(* This module has the client thread and the two operations; Connectivity  *)
(* adds the manager that issues them and that receives the callbacks.      *)
(***************************************************************************)
EXTENDS Integers, Sequences

CONSTANTS
    Callers,        \* threads that start and close connections
    Receiver,       \* the message thread of the connection, one of them
    Slots,          \* network configuration slots
    None,
    MaxAttempts,    \* max_connection_attempts; -1: no limit
    MaxFailures     \* bound: failures of the network and of the CSMS

States == {"initialize", "connecting", "reconnecting", "connected", "error", "finalized"}

\* The fields of ConnectionData that the threads share.
Connections == [state : States, running : BOOLEAN, stopRun : BOOLEAN, heard : BOOLEAN]

ASSUME WebsocketAssumption ==
    /\ MaxAttempts \in Nat \cup {-1}
    /\ MaxFailures \in Nat
    /\ None \notin Slots
    /\ None \notin Connections
    /\ Receiver \in Callers

VARIABLES
    conn,           \* conn_data: None when it has been reset
    client,         \* where the client thread is
    est,            \* whether its libwebsockets connection is established
    connected,      \* m_is_connected
    attempts,       \* connection_attempts
    options,        \* the slot connection_options was built from
    deferred,       \* deferred_callback_queue
    op,             \* op[c]: what thread c is doing with the websocket
    failures

websocket == <<conn, client, est, connected, attempts, options, deferred, op, failures>>

\* The client thread reads and writes the rest; callers own these.
callerVars == <<options, op>>

\* What the client thread asks the deferred thread to run: connected_callback,
\* disconnected_callback, or stopped_connecting_callback and then
\* disconnected_callback.
Callbacks == {"connected", "disconnected", "stopped"}

WebsocketTypeOK ==
    /\ conn \in Connections \cup {None}
    /\ client \in {"done", "init", "service", "reset", "decide", "wait"}
    /\ est \in BOOLEAN
    /\ connected \in BOOLEAN
    /\ attempts \in Nat
    /\ MaxAttempts # -1 => attempts \in 1..(MaxAttempts + 1)
    /\ options \in Slots \cup {None}
    /\ deferred \in Seq(Callbacks)
    /\ op \in [Callers -> {"idle", "close", "closing", "start", "starting"}]
    /\ failures \in 0..MaxFailures

WebsocketInit ==
    /\ conn = None
    /\ client = "done"
    /\ est = FALSE
    /\ connected = FALSE
    /\ attempts = 1
    /\ options = None
    /\ deferred = <<>>
    /\ op = [c \in Callers |-> "idle"]
    /\ failures = 0

\* A freshly built ConnectionData.
NewConnection == [state |-> "initialize", running |-> TRUE, stopRun |-> FALSE, heard |-> FALSE]

Interrupted == ~conn.running
Trying == conn # None /\ conn.state # "finalized"

\* The network or the CSMS fails once more.
Failure == failures < MaxFailures /\ failures' = failures + 1

-----------------------------------------------------------------------------
(* The callbacks of libwebsockets, on the client thread.  Each sets the    *)
(* state of the connection and m_is_connected, and defers what the         *)
(* manager has to know.                                                    *)

OnConnConnected ==
    /\ conn' = [conn EXCEPT !.state = "connected", !.heard = TRUE]
    /\ connected' = TRUE
    /\ attempts' = 1
    /\ deferred' = Append(deferred, "connected")

OnConnFailSilent ==
    /\ conn' = [conn EXCEPT !.state = "error"]
    /\ connected' = FALSE
    /\ UNCHANGED <<attempts, deferred>>

OnConnFail ==
    /\ conn' = [conn EXCEPT !.state = "error"]
    /\ connected' = FALSE
    /\ deferred' = IF connected THEN Append(deferred, "disconnected") ELSE deferred
    /\ UNCHANGED attempts

OnConnCloseUnmarked ==
    /\ conn' = [conn EXCEPT !.state = "finalized"]
    /\ connected' = FALSE
    /\ deferred' = Append(deferred, "stopped")
    /\ UNCHANGED attempts

OnConnClose ==
    /\ conn' = [conn EXCEPT !.state = "finalized", !.stopRun = TRUE]
    /\ connected' = FALSE
    /\ deferred' = Append(deferred, "stopped")
    /\ UNCHANGED attempts

\* LWS_CALLBACK_CLIENT_CLOSED: requested by us, or the server went away.
ClientClosed ==
    \/ Interrupted /\ OnConnClose
    \/ ~Interrupted /\ OnConnFail

\* thread_websocket_client_loop ends: it gives control back to the
\* application unless on_conn_close has done so.
ClientExit(c) ==
    /\ client' = "done"
    /\ conn' = c
    /\ deferred' = IF c.stopRun THEN deferred ELSE Append(deferred, "stopped")

-----------------------------------------------------------------------------
(* The client thread.                                                      *)

\* initialize_connection_options and lws_client_connect_via_info.
ClientInit ==
    /\ client = "init"
    /\ \/ /\ client' = "service"
          /\ conn' = [conn EXCEPT !.state = "connecting", !.stopRun = FALSE]
          /\ UNCHANGED <<connected, attempts, deferred, failures>>
       \/ /\ Failure
          /\ client' = "decide"
          /\ OnConnFail
    /\ UNCHANGED <<est, callerVars>>

\* LWS_CALLBACK_CLIENT_ESTABLISHED
ClientEstablished ==
    /\ client = "service"
    /\ ~est
    /\ est' = TRUE
    /\ OnConnConnected
    /\ UNCHANGED <<client, failures, callerVars>>

\* LWS_CALLBACK_CLIENT_CONNECTION_ERROR; the loop sees the state ERROR and ends.
ClientConnectionError ==
    /\ client = "service"
    /\ ~est
    /\ Failure
    /\ OnConnFail
    /\ client' = "reset"
    /\ UNCHANGED <<est, callerVars>>

\* LWS_CALLBACK_WS_PEER_INITIATED_CLOSE.  The connection is torn down when the
\* context is destroyed, in ClientReset.
ClientPeerClose ==
    /\ client = "service"
    /\ est
    /\ Failure
    /\ OnConnFail
    /\ client' = "reset"
    /\ UNCHANGED <<est, callerVars>>

\* The service loop ends because of an interrupt, or because lws_service fails.
ClientServiceEnds ==
    /\ client = "service"
    /\ \/ Interrupted /\ UNCHANGED failures
       \/ Failure
    /\ client' = "reset"
    /\ UNCHANGED <<conn, est, connected, attempts, deferred, callerVars>>

\* reset_connection_data destroys the context: an established connection
\* gets its LWS_CALLBACK_CLIENT_CLOSED.
ClientReset ==
    /\ client = "reset"
    /\ client' = "decide"
    /\ est' = FALSE
    /\ IF est THEN ClientClosed ELSE UNCHANGED <<conn, connected, attempts, deferred>>
    /\ UNCHANGED <<failures, callerVars>>

MayRetry == MaxAttempts = -1 \/ attempts <= MaxAttempts

\* The end of an iteration: exit, retry after get_reconnect_interval(), or
\* give up.
ClientDecide ==
    /\ client = "decide"
    /\ IF Interrupted \/ conn.state = "finalized"
       THEN ClientExit(conn) /\ UNCHANGED attempts
       ELSE IF MayRetry
            THEN /\ client' = "wait"
                 /\ conn' = [conn EXCEPT !.state = "reconnecting"]
                 /\ attempts' = attempts + 1
                 /\ UNCHANGED deferred
            ELSE ClientExit([conn EXCEPT !.state = "finalized"]) /\ UNCHANGED attempts
    /\ UNCHANGED <<est, connected, failures, callerVars>>

ClientWaitUntilInterrupted ==
    /\ client = "wait"
    /\ Interrupted
    /\ ClientExit(conn)
    /\ UNCHANGED <<est, connected, attempts, failures, callerVars>>

\* The wait before the next attempt, cut short by an interrupt.
ClientWait ==
    /\ client = "wait"
    /\ IF Interrupted
       THEN ClientExit(conn)
       ELSE client' = "init" /\ UNCHANGED <<conn, deferred>>
    /\ UNCHANGED <<est, connected, attempts, failures, callerVars>>

ClientStep ==
    \/ ClientInit
    \/ ClientEstablished
    \/ ClientConnectionError
    \/ ClientPeerClose
    \/ ClientServiceEnds
    \/ ClientReset
    \/ ClientDecide
    \/ ClientWait

-----------------------------------------------------------------------------
(* close() and start_connecting().  A caller takes connection_mutex and    *)
(* interrupts the connection in one step, and joins the threads of the     *)
(* connection in another: they need steps of their own to end.             *)

MutexFree == \A c \in Callers : op[c] \notin {"closing", "starting"}

Interrupt == conn' = IF conn = None THEN None ELSE [conn EXCEPT !.running = FALSE]

\* safe_close_threads has joined the client thread and the message thread,
\* which ends when it is not in the middle of a handler.  A handler that closes
\* the connection itself detaches its thread instead.
Joined(c) == client = "done" /\ (c # Receiver => op[Receiver] = "idle")

clientVars == <<client, est, attempts, deferred, failures>>

\* close_internal: nothing to do for an inactive websocket.
Close(c) ==
    /\ op[c] = "close"
    /\ MutexFree
    /\ IF Trying \/ connected
       THEN Interrupt /\ op' = [op EXCEPT ![c] = "closing"]
       ELSE op' = [op EXCEPT ![c] = "idle"] /\ UNCHANGED conn
    /\ UNCHANGED <<connected, options, clientVars>>

\* ... the threads have been joined: conn_data.reset()
Closed(c) ==
    /\ op[c] = "closing"
    /\ Joined(c)
    /\ conn' = None
    /\ connected' = FALSE
    /\ op' = [op EXCEPT ![c] = "idle"]
    /\ UNCHANGED <<options, clientVars>>

\* start_connecting: shut down the connection there may be ...
Start(c) ==
    /\ op[c] = "start"
    /\ MutexFree
    /\ Interrupt
    /\ op' = [op EXCEPT ![c] = "starting"]
    /\ UNCHANGED <<connected, options, clientVars>>

\* ... and start a new client thread with a new ConnectionData.
Started(c) ==
    /\ op[c] = "starting"
    /\ Joined(c)
    /\ conn' = NewConnection
    /\ client' = "init"
    /\ attempts' = 1
    /\ op' = [op EXCEPT ![c] = "idle"]
    /\ UNCHANGED <<est, connected, options, deferred, failures>>

CallerStep(c) == Close(c) \/ Closed(c) \/ Start(c) \/ Started(c)
=============================================================================
