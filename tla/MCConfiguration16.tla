------------------------- MODULE MCConfiguration16 -------------------------
(* Instances of Configuration16.                                           *)
EXTENDS Configuration16

AllProfiles == {"FirmwareManagement", "LocalAuthListManagement", "SmartCharging", "PnC", "CostAndPrice"}

\* A station with everything; one without optional keys and CSMS certificate
\* whose URI may be changed; one with the Core profile only.
MCStations ==
    {[profiles |-> AllProfiles, optional |-> TRUE, ca |-> TRUE, leaf |-> TRUE,
      profile |-> 1, readonly |-> {"CentralSystemURI"}],
     [profiles |-> AllProfiles, optional |-> FALSE, ca |-> TRUE, leaf |-> FALSE,
      profile |-> 0, readonly |-> {"UnlockConnectorOnEVSideDisconnect"}],
     [profiles |-> {}, optional |-> FALSE, ca |-> FALSE, leaf |-> FALSE,
      profile |-> 0, readonly |-> {"CentralSystemURI"}]}
=============================================================================
