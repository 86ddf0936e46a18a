----------------------- MODULE MCChargingProfiles16 -----------------------
\* A charge point of two connectors, and the profiles a CSMS offers it.
EXTENDS ChargingProfiles16

Period(start, limit) == [startPeriod |-> start, numberPhases |-> None, limit |-> limit]

Profile(id, purpose, level, kind, periods) ==
    [id |-> id, purpose |-> purpose, stackLevel |-> level, kind |-> kind, recurrencyKind |-> None,
     startSchedule |-> None, duration |-> None, validFrom |-> None, validTo |-> None, unit |-> "A",
     tx |-> None, periods |-> periods]

Max1 == [Profile(1, "ChargePointMaxProfile", 0, "Absolute", <<Period(0, 40)>>)
           EXCEPT !.startSchedule = -2, !.duration = 2]
Max2 == [Profile(2, "ChargePointMaxProfile", 1, "Recurring", <<Period(0, 36), [Period(1, 60) EXCEPT !.numberPhases = 1]>>)
           EXCEPT !.recurrencyKind = "Daily", !.startSchedule = 2, !.duration = 9, !.unit = "W", !.validTo = 3]
\* For all connectors; for connector 1 on the same level; for connector 1 with the same id
Default1 == [Profile(3, "TxDefaultProfile", 0, "Absolute", <<Period(0, 20), Period(2, 10)>>) EXCEPT !.validFrom = 1]
Default2 == [Profile(4, "TxDefaultProfile", 0, "Relative", <<Period(0, 16)>>) EXCEPT !.duration = 2]
Default3 == Profile(3, "TxDefaultProfile", 1, "Relative", <<Period(0, 66)>>)
\* For transaction 1; for whichever comes, with the id of Default1
Tx1 == [Profile(5, "TxProfile", 0, "Relative", <<Period(0, 44), Period(1, 12)>>) EXCEPT !.duration = 3, !.tx = 1]
Tx2 == Profile(3, "TxProfile", 1, "Relative", <<Period(0, 24)>>)

MCOffers ==
    {[connector |-> 0, profile |-> p] : p \in {Max1, Max2, Default1}}
    \cup {[connector |-> 1, profile |-> p] : p \in {Default2, [Default3 EXCEPT !.unit = "W"], Tx1}}
    \cup {[connector |-> 2, profile |-> Max1]}

MCStartOffers == {[connector |-> 2, profile |-> Tx2], [connector |-> None, profile |-> Tx2]}

MCClearRequests ==
    {[id |-> 3, connector |-> None, purpose |-> None, stackLevel |-> None],
     [id |-> None, connector |-> 1, purpose |-> None, stackLevel |-> 0],
     [id |-> None, connector |-> None, purpose |-> None, stackLevel |-> None]}

MCConfig ==
    [maxPeriods |-> 2, units |-> {"A", "W"}, allowWithoutStart |-> TRUE, maxStackLevel |-> 1, maxInstalled |-> 4,
     supportedPurposes |-> Purposes, ignoredOffline |-> {"TxDefaultProfile"},
     maxCompositeScheduleDuration |-> 4, default_limit |-> [A |-> 48, W |-> 288], default_number_phases |-> 3,
     supply_voltage |-> 2]

=============================================================================
