------------------------ MODULE MCChargingProfiles2 ------------------------
\* A station of two EVSEs, with OCPP 2.0.1 or 2.1, and the profiles a CSMS offers it.
EXTENDS ChargingProfiles2

Unset == <<None, None, None>>

Period(start, limit) ==
    [startPeriod |-> start, numberPhases |-> None, phaseToUse |-> None, operationMode |-> None,
     limit |-> [Unset EXCEPT ![1] = limit], dischargeLimit |-> Unset, setpoint |-> Unset,
     setpointReactive |-> Unset, evseSleep |-> FALSE, freqWattCurve |-> FALSE]

Profile(id, purpose, level, kind, periods) ==
    [id |-> id, purpose |-> purpose, stackLevel |-> level, kind |-> kind, recurrencyKind |-> None,
     startSchedule |-> None, duration |-> None, validFrom |-> None, validTo |-> None, unit |-> "A",
     tx |-> None, periods |-> periods, randomizedDelay |-> None, dynUpdate |-> FALSE,
     useLocalTime |-> FALSE, limitAtSoC |-> FALSE]

Daily(p, start) == [p EXCEPT !.kind = "Recurring", !.recurrencyKind = "Daily", !.startSchedule = start]

\* The station at most 40 A from time 1 on, and 36 W for a second of each day
Max1 == [Profile(1, "ChargingStationMaxProfile", 0, "Absolute", <<Period(0, 40)>>) EXCEPT !.startSchedule = 1]
Max2 == [Daily(Profile(2, "ChargingStationMaxProfile", 1, "Recurring", <<Period(0, 36)>>), 2)
           EXCEPT !.unit = "W", !.duration = 1]
\* By default 20 A, then 10 A for the rest of the day, from time 1 on
Default1 == [Daily(Profile(3, "TxDefaultProfile", 0, "Recurring", <<Period(0, 20), Period(2, 10)>>), -1)
               EXCEPT !.validFrom = 1]
\* On the level of Default1, for one EVSE
Default2 == [Profile(4, "TxDefaultProfile", 0, "Relative", <<Period(0, 16)>>) EXCEPT !.duration = 2]
\* With the id of Default1, on another level
Default3 == Profile(3, "TxDefaultProfile", 1, "Relative", <<Period(0, 30)>>)
\* For the transaction 1: limits, and a setpoint that OCPP 2.0.1 does not look at
Tx1 == [Profile(5, "TxProfile", 0, "Relative", <<Period(0, 44), Period(1, 12)>>) EXCEPT !.duration = 3, !.tx = 1]
Tx2 == [Profile(6, "TxProfile", 1, "Relative",
                <<[Period(0, 24) EXCEPT !.operationMode = "CentralSetpoint", !.setpoint[1] = 18]>>)
          EXCEPT !.tx = 1, !.validTo = 2]
\* Refused: an EVSE that is not there, periods out of order, external constraints
Absent == [evse |-> 9, profile |-> Default2]
OutOfOrder == [evse |-> 1, profile |-> [Default2 EXCEPT !.id = 8, !.periods = <<Period(0, 8), Period(0, 6)>>]]
External == [evse |-> 0, profile |-> [Max1 EXCEPT !.purpose = "ChargingStationExternalConstraints"]]

MCOffers ==
    {[evse |-> 0, profile |-> p] : p \in {Max1, Max2, Default1}}
    \cup {[evse |-> 1, profile |-> p] : p \in {Default2, Default3, Tx1, Tx2}}
    \cup {Absent, OutOfOrder, External}

MCStartOffers == {[evse |-> 2, profile |-> [Tx1 EXCEPT !.id = 7, !.tx = None]]}

Criteria(purpose, evse, level) == [purpose |-> purpose, evse |-> evse, stackLevel |-> level]
MCClearRequests ==
    {[id |-> 3, criteria |-> None], [id |-> None, criteria |-> None]}
    \cup {[id |-> None, criteria |-> c] :
            c \in {Criteria("ChargingStationMaxProfile", None, 1), Criteria(None, 1, None),
                   Criteria("ChargingStationExternalConstraints", None, None), Criteria(None, None, None)}}

MCGetRequests ==
    {[evse |-> None, ids |-> {}, purpose |-> None, stackLevel |-> 0, sources |-> {}],
     [evse |-> 1, ids |-> {3, 5}, purpose |-> "TxProfile", stackLevel |-> None, sources |-> {}]}

Device ==
    [version |-> "v201", available |-> TRUE, enabled |-> TRUE, units |-> {"A", "W"},
     supplyPhases |-> [e \in Evses \cup {0} |-> 3], phaseSwitching |-> FALSE, dcInputPhaseControl |-> {},
     supports |-> {}, additionalPurposes |-> {}, maxExternalConstraintsId |-> None, rateLimit |-> None,
     ignoredOffline |-> {}, default_limit |-> [A |-> 48, W |-> 288], default_number_phases |-> 3, supply_voltage |-> 2]

MCDevices ==
    {Device,
     [Device EXCEPT !.supplyPhases = [e \in Evses \cup {0} |-> 1]],
     [Device EXCEPT !.version = "v21", !.ignoredOffline = {"ChargingStationMaxProfile"}],
     [Device EXCEPT !.version = "v21", !.units = {"W"}, !.rateLimit = 1]}

=============================================================================
