--------------------------- MODULE MCAvailability2 ---------------------------
(* An instance of Availability2: EVSE 1 has two connectors, EVSE 2 one. *)
EXTENDS Availability2

TwoAndOne == {<<1, 1>>, <<1, 2>>, <<2, 1>>}

=============================================================================
