------------------------ MODULE TransactionDelivery ------------------------
(***************************************************************************)
(* What the message queue promises of transaction messages, whatever its   *)
(* queues, threads, timers and tables do: every message that is accepted   *)
(* is owed, durably, until the CSMS has answered it or the attempts of it  *)
(* are used up; the CSMS is only ever offered the oldest message that is   *)
(* owed, one at a time; and nothing that is owed is forgotten without      *)
(* having been offered, but updates of a transaction when the queue is     *)
(* full, and the kinds a restart is told to ignore.                        *)
(*                                                                         *)
(* MessageQueue implements this specification (DeliversTransactions).      *)
(***************************************************************************)
EXTENDS Integers

CONSTANTS
    Kinds,      \* kinds of transaction message
    Updates,    \* the kinds that may be dropped when the queue is full
    Ignored,    \* the kinds that are not sent after a restart
    None

VARIABLES
    accepted,   \* how many messages of any type the queue has taken
    owed,       \* the transaction messages that are owed, and their kinds
    offered     \* the one the CSMS has been sent and has not answered

vars == <<accepted, owed, offered>>

Without(S) == [m \in DOMAIN owed \ S |-> owed[m]]

Init == accepted = 0 /\ owed = <<>> /\ offered = None

\* The next message is taken. Updates may be dropped to make room for it, but
\* neither the message itself nor the one on offer.
Accept ==
    LET new == accepted + 1
        droppable == {m \in DOMAIN owed \ {offered} : owed[m] \in Updates}
    IN  /\ accepted' = new
        /\ \E dropped \in SUBSET droppable :
              \/ owed' = Without(dropped)
              \/ \E kind \in Kinds :
                    owed' = [m \in DOMAIN Without(dropped) \cup {new} |->
                                IF m = new THEN kind ELSE owed[m]]
        /\ UNCHANGED offered

\* The oldest message is sent.
Offer ==
    /\ offered = None
    /\ \E m \in DOMAIN owed :
          /\ \A other \in DOMAIN owed : m <= other
          /\ offered' = m
    /\ UNCHANGED <<accepted, owed>>

\* It is answered, or given up after its last attempt: it is owed no more.
Settle ==
    /\ offered # None
    /\ owed' = Without({offered})
    /\ offered' = None
    /\ UNCHANGED accepted

\* No answer came, or an error, or the process died: it is still owed.
Withdraw ==
    /\ offered # None
    /\ offered' = None
    /\ UNCHANGED <<accepted, owed>>

\* The process starts again.
Restart ==
    /\ owed' = Without({m \in DOMAIN owed : owed[m] \in Ignored})
    /\ offered' = None
    /\ UNCHANGED accepted

Next == Accept \/ Offer \/ Settle \/ Withdraw \/ Restart

Spec == Init /\ [][Next]_vars
=============================================================================
