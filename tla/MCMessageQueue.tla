--------------------------- MODULE MCMessageQueue ---------------------------
(* Instances of MessageQueue for TLC: the timing configurations.           *)
EXTENDS MessageQueue

\* Immediate retries: every order of events, without the clock.
NoDelay == {[attempts |-> 2, interval |-> 0, timeout |-> 0]}

\* Two attempts, one second apart, and a message timeout of one second.
Delay == {[attempts |-> 2, interval |-> 1, timeout |-> 1]}

\* ChangeConfiguration and SetVariables change all three while messages wait.
Reconfigured == NoDelay \cup Delay
=============================================================================
