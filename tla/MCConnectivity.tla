--------------------------- MODULE MCConnectivity ---------------------------
(* Instances of Connectivity for TLC: priorities and security profiles.    *)
EXTENDS Connectivity

Three == <<3, 1, 2>>

\* Slot 3 is below the level of the station: it is dropped before its first use.
Leftover == [s \in Slots |-> IF s = 3 THEN 1 ELSE 2]
=============================================================================
