----------------------------------- MODULE Types2 -----------------------------------
(* OCPP 2.0.1 and 2.1: the data types. *)
EXTENDS Enums2

StatusInfo == [required |-> [reasonCode |-> [ci |-> 20]],
    optional |-> [additionalInfo |-> [ci |-> 1024], customData |-> Json]]
PeriodicEventStreamParams == [required |-> NoFields, optional |-> [interval |-> Int, values |-> Int,
    customData |-> Json]]
AdditionalInfo == [required |-> [additionalIdToken |-> [ci |-> 255], type |-> [ci |-> 50]],
    optional |-> [customData |-> Json]]
IdToken == [required |-> [idToken |-> [ci |-> 255], type |-> [ci |-> 20]],
    optional |-> [additionalInfo |-> [many |-> AdditionalInfo], customData |-> Json]]
OCSPRequestData == [required |-> [hashAlgorithm |-> HashAlgorithmEnum,
    issuerNameHash |-> [ci |-> 128], issuerKeyHash |-> [ci |-> 128], serialNumber |-> [ci |-> 40],
    responderURL |-> [ci |-> 2000]], optional |-> [customData |-> Json]]
MessageContent == [required |-> [format |-> MessageFormatEnum, content |-> [ci |-> 1024]],
    optional |-> [language |-> [ci |-> 8], customData |-> Json]]
IdTokenInfo == [required |-> [status |-> AuthorizationStatusEnum],
    optional |-> [cacheExpiryDateTime |-> DateTime, chargingPriority |-> Int,
    groupIdToken |-> IdToken, language1 |-> [ci |-> 8], language2 |-> [ci |-> 8],
    evseId |-> [many |-> Int], personalMessage |-> MessageContent, customData |-> Json]]
TariffConditions == [required |-> NoFields, optional |-> [startTimeOfDay |-> Text,
    endTimeOfDay |-> Text, dayOfWeek |-> [many |-> DayOfWeekEnum], validFromDate |-> Text,
    validToDate |-> Text, evseKind |-> EvseKindEnum, minEnergy |-> Float, maxEnergy |-> Float,
    minCurrent |-> Float, maxCurrent |-> Float, minPower |-> Float, maxPower |-> Float,
    minTime |-> Int, maxTime |-> Int, minChargingTime |-> Int, maxChargingTime |-> Int,
    minIdleTime |-> Int, maxIdleTime |-> Int, customData |-> Json]]
TariffEnergyPrice == [required |-> [priceKwh |-> Float],
    optional |-> [conditions |-> TariffConditions, customData |-> Json]]
TaxRate == [required |-> [type |-> [ci |-> 20], tax |-> Float], optional |-> [stack |-> Int,
    customData |-> Json]]
TariffEnergy == [required |-> [prices |-> [many |-> TariffEnergyPrice]],
    optional |-> [taxRates |-> [many |-> TaxRate], customData |-> Json]]
TariffTimePrice == [required |-> [priceMinute |-> Float],
    optional |-> [conditions |-> TariffConditions, customData |-> Json]]
TariffTime == [required |-> [prices |-> [many |-> TariffTimePrice]],
    optional |-> [taxRates |-> [many |-> TaxRate], customData |-> Json]]
TariffConditionsFixed == [required |-> NoFields, optional |-> [startTimeOfDay |-> Text,
    endTimeOfDay |-> Text, dayOfWeek |-> [many |-> DayOfWeekEnum], validFromDate |-> Text,
    validToDate |-> Text, evseKind |-> EvseKindEnum, paymentBrand |-> [ci |-> 20],
    paymentRecognition |-> [ci |-> 20], customData |-> Json]]
TariffFixedPrice == [required |-> [priceFixed |-> Float],
    optional |-> [conditions |-> TariffConditionsFixed, customData |-> Json]]
TariffFixed == [required |-> [prices |-> [many |-> TariffFixedPrice]],
    optional |-> [taxRates |-> [many |-> TaxRate], customData |-> Json]]
Price == [required |-> NoFields, optional |-> [exclTax |-> Float, inclTax |-> Float,
    taxRates |-> [many |-> TaxRate], customData |-> Json]]
Tariff == [required |-> [tariffId |-> [ci |-> 60], currency |-> [ci |-> 3]],
    optional |-> [description |-> [many |-> MessageContent], energy |-> TariffEnergy,
    validFrom |-> DateTime, chargingTime |-> TariffTime, idleTime |-> TariffTime,
    fixedFee |-> TariffFixed, reservationTime |-> TariffTime, reservationFixed |-> TariffFixed,
    minCost |-> Price, maxCost |-> Price, customData |-> Json]]
BatteryData == [required |-> [evseId |-> Int, serialNumber |-> [ci |-> 50], soC |-> Float,
    soH |-> Float], optional |-> [productionDate |-> DateTime, vendorInfo |-> [ci |-> 500],
    customData |-> Json]]
Modem == [required |-> NoFields, optional |-> [iccid |-> [ci |-> 20], imsi |-> [ci |-> 20],
    customData |-> Json]]
ChargingStation == [required |-> [model |-> [ci |-> 20], vendorName |-> [ci |-> 50]],
    optional |-> [serialNumber |-> [ci |-> 25], modem |-> Modem, firmwareVersion |-> [ci |-> 50],
    customData |-> Json]]
EVSE == [required |-> [id |-> Int], optional |-> [connectorId |-> Int, customData |-> Json]]
ClearChargingProfile == [required |-> NoFields, optional |-> [evseId |-> Int,
    chargingProfilePurpose |-> ChargingProfilePurposeEnum, stackLevel |-> Int, customData |-> Json]]
ClearTariffsResult == [required |-> [status |-> TariffClearStatusEnum],
    optional |-> [statusInfo |-> StatusInfo, tariffId |-> [ci |-> 60], customData |-> Json]]
ClearMonitoringResult == [required |-> [status |-> ClearMonitoringStatusEnum, id |-> Int],
    optional |-> [statusInfo |-> StatusInfo, customData |-> Json]]
CertificateHashDataType == [required |-> [hashAlgorithm |-> HashAlgorithmEnum,
    issuerNameHash |-> [ci |-> 128], issuerKeyHash |-> [ci |-> 128], serialNumber |-> [ci |-> 40]],
    optional |-> [customData |-> Json]]
CertificateStatusRequestInfo == [required |-> [certificateHashData |-> CertificateHashDataType,
    source |-> CertificateStatusSourceEnum, urls |-> [many |-> [ci |-> 2000]]],
    optional |-> [customData |-> Json]]
CertificateStatus == [required |-> [certificateHashData |-> CertificateHashDataType,
    source |-> CertificateStatusSourceEnum, status |-> CertificateStatusEnum,
    nextUpdate |-> DateTime], optional |-> [customData |-> Json]]
ChargingProfileCriterion == [required |-> NoFields,
    optional |-> [chargingProfilePurpose |-> ChargingProfilePurposeEnum, stackLevel |-> Int,
    chargingProfileId |-> [many |-> Int], chargingLimitSource |-> [many |-> [ci |-> 20]],
    customData |-> Json]]
V2XFreqWattPoint == [required |-> [frequency |-> Float, power |-> Float],
    optional |-> [customData |-> Json]]
V2XSignalWattPoint == [required |-> [signal |-> Int, power |-> Float],
    optional |-> [customData |-> Json]]
ChargingSchedulePeriod == [required |-> [startPeriod |-> Int], optional |-> [limit |-> Float,
    limit_L2 |-> Float, limit_L3 |-> Float, numberPhases |-> Int, phaseToUse |-> Int,
    dischargeLimit |-> Float, dischargeLimit_L2 |-> Float, dischargeLimit_L3 |-> Float,
    setpoint |-> Float, setpoint_L2 |-> Float, setpoint_L3 |-> Float, setpointReactive |-> Float,
    setpointReactive_L2 |-> Float, setpointReactive_L3 |-> Float, preconditioningRequest |-> Bool,
    evseSleep |-> Bool, v2xBaseline |-> Float, operationMode |-> OperationModeEnum,
    v2xFreqWattCurve |-> [many |-> V2XFreqWattPoint],
    v2xSignalWattCurve |-> [many |-> V2XSignalWattPoint], customData |-> Json]]
CompositeSchedule == [required |-> [evseId |-> Int, duration |-> Int, scheduleStart |-> DateTime,
    chargingRateUnit |-> ChargingRateUnitEnum,
    chargingSchedulePeriod |-> [many |-> ChargingSchedulePeriod]],
    optional |-> [customData |-> Json]]
CertificateHashDataChain == [required |-> [certificateHashData |-> CertificateHashDataType,
    certificateType |-> GetCertificateIdUseEnum],
    optional |-> [childCertificateHashData |-> [many |-> CertificateHashDataType],
    customData |-> Json]]
LogParameters == [required |-> [remoteLocation |-> [ci |-> 2000]],
    optional |-> [oldestTimestamp |-> DateTime, latestTimestamp |-> DateTime, customData |-> Json]]
Component == [required |-> [name |-> [ci |-> 50]], optional |-> [evse |-> EVSE,
    instance |-> [ci |-> 50], customData |-> Json]]
Variable == [required |-> [name |-> [ci |-> 50]], optional |-> [instance |-> [ci |-> 50],
    customData |-> Json]]
ComponentVariable == [required |-> [component |-> Component], optional |-> [variable |-> Variable,
    customData |-> Json]]
ConstantStreamData == [required |-> [id |-> Int, params |-> PeriodicEventStreamParams,
    variableMonitoringId |-> Int], optional |-> [customData |-> Json]]
TariffAssignment == [required |-> [tariffId |-> [ci |-> 60], tariffKind |-> TariffKindEnum],
    optional |-> [validFrom |-> DateTime, evseIds |-> [many |-> Int],
    idTokens |-> [many |-> [ci |-> 255]], customData |-> Json]]
GetVariableData == [required |-> [component |-> Component, variable |-> Variable],
    optional |-> [attributeType |-> AttributeEnum, customData |-> Json]]
GetVariableResult == [required |-> [attributeStatus |-> GetVariableStatusEnum,
    component |-> Component, variable |-> Variable],
    optional |-> [attributeStatusInfo |-> StatusInfo, attributeType |-> AttributeEnum,
    attributeValue |-> [ci |-> 2500], customData |-> Json]]
SignedMeterValue == [required |-> [signedMeterData |-> [ci |-> 32768],
    encodingMethod |-> [ci |-> 50]], optional |-> [signingMethod |-> [ci |-> 50],
    publicKey |-> [ci |-> 2500], customData |-> Json]]
UnitOfMeasure == [required |-> NoFields, optional |-> [unit |-> [ci |-> 20], multiplier |-> Int,
    customData |-> Json]]
SampledValue == [required |-> [value |-> Float], optional |-> [measurand |-> MeasurandEnum,
    context |-> ReadingContextEnum, phase |-> PhaseEnum, location |-> LocationEnum,
    signedMeterValue |-> SignedMeterValue, unitOfMeasure |-> UnitOfMeasure, customData |-> Json]]
MeterValue == [required |-> [sampledValue |-> [many |-> SampledValue], timestamp |-> DateTime],
    optional |-> [customData |-> Json]]
LimitAtSoC == [required |-> [soc |-> Int, limit |-> Float], optional |-> [customData |-> Json]]
RelativeTimeInterval == [required |-> [start |-> Int], optional |-> [duration |-> Int,
    customData |-> Json]]
Cost == [required |-> [costKind |-> CostKindEnum, amount |-> Int],
    optional |-> [amountMultiplier |-> Int, customData |-> Json]]
ConsumptionCost == [required |-> [startValue |-> Float, cost |-> [many |-> Cost]],
    optional |-> [customData |-> Json]]
SalesTariffEntry == [required |-> [relativeTimeInterval |-> RelativeTimeInterval],
    optional |-> [ePriceLevel |-> Int, consumptionCost |-> [many |-> ConsumptionCost],
    customData |-> Json]]
SalesTariff == [required |-> [id |-> Int, salesTariffEntry |-> [many |-> SalesTariffEntry]],
    optional |-> [salesTariffDescription |-> [ci |-> 32], numEPriceLevels |-> Int,
    customData |-> Json]]
RationalNumber == [required |-> [exponent |-> Int, value |-> Int],
    optional |-> [customData |-> Json]]
PriceRule == [required |-> [energyFee |-> RationalNumber, powerRangeStart |-> RationalNumber],
    optional |-> [parkingFeePeriod |-> Int, carbonDioxideEmission |-> Int,
    renewableGenerationPercentage |-> Int, parkingFee |-> RationalNumber, customData |-> Json]]
PriceRuleStack == [required |-> [duration |-> Int, priceRule |-> [many |-> PriceRule]],
    optional |-> [customData |-> Json]]
TaxRule == [required |-> [taxRuleID |-> Int, appliesToEnergyFee |-> Bool,
    appliesToParkingFee |-> Bool, appliesToOverstayFee |-> Bool,
    appliesToMinimumMaximumCost |-> Bool, taxRate |-> RationalNumber],
    optional |-> [taxRuleName |-> [ci |-> 100], taxIncludedInPrice |-> Bool, customData |-> Json]]
OverstayRule == [required |-> [overstayFee |-> RationalNumber, startTime |-> Int,
    overstayFeePeriod |-> Int], optional |-> [overstayRuleDescription |-> [ci |-> 32],
    customData |-> Json]]
OverstayRuleList == [required |-> [overstayRule |-> [many |-> OverstayRule]],
    optional |-> [overstayPowerThreshold |-> RationalNumber, overstayTimeThreshold |-> Int,
    customData |-> Json]]
AdditionalSelectedServices == [required |-> [serviceFee |-> RationalNumber,
    serviceName |-> [ci |-> 80]], optional |-> [customData |-> Json]]
AbsolutePriceSchedule == [required |-> [timeAnchor |-> DateTime, priceScheduleID |-> Int,
    currency |-> [ci |-> 3], language |-> [ci |-> 8], priceAlgorithm |-> [ci |-> 2000],
    priceRuleStacks |-> [many |-> PriceRuleStack]],
    optional |-> [priceScheduleDescription |-> [ci |-> 160], minimumCost |-> RationalNumber,
    maximumCost |-> RationalNumber, taxRules |-> [many |-> TaxRule],
    overstayRuleList |-> OverstayRuleList,
    additionalSelectedServices |-> [many |-> AdditionalSelectedServices], customData |-> Json]]
PriceLevelScheduleEntry == [required |-> [duration |-> Int, priceLevel |-> Int],
    optional |-> [customData |-> Json]]
PriceLevelSchedule ==
    [required |-> [priceLevelScheduleEntries |-> [many |-> PriceLevelScheduleEntry],
    timeAnchor |-> DateTime, priceScheduleId |-> Int, numberOfPriceLevels |-> Int],
    optional |-> [priceScheduleDescription |-> [ci |-> 32], customData |-> Json]]
ChargingSchedule == [required |-> [id |-> Int, chargingRateUnit |-> ChargingRateUnitEnum,
    chargingSchedulePeriod |-> [many |-> ChargingSchedulePeriod]],
    optional |-> [limitAtSoC |-> LimitAtSoC, startSchedule |-> DateTime, duration |-> Int,
    minChargingRate |-> Float, powerTolerance |-> Float, signatureId |-> Int,
    digestValue |-> [ci |-> 88], useLocalTime |-> Bool, randomizedDelay |-> Int,
    salesTariff |-> SalesTariff, absolutePriceSchedule |-> AbsolutePriceSchedule,
    priceLevelSchedule |-> PriceLevelSchedule, customData |-> Json]]
ChargingLimit == [required |-> [chargingLimitSource |-> [ci |-> 20]],
    optional |-> [isLocalGeneration |-> Bool, isGridCritical |-> Bool, customData |-> Json]]
MessageInfo == [required |-> [id |-> Int, priority |-> MessagePriorityEnum,
    message |-> MessageContent], optional |-> [display |-> Component, state |-> MessageStateEnum,
    startDateTime |-> DateTime, endDateTime |-> DateTime, transactionId |-> [ci |-> 36],
    messageExtra |-> [many |-> MessageContent], customData |-> Json]]
ACChargingParameters == [required |-> [energyAmount |-> Float, evMinCurrent |-> Float,
    evMaxCurrent |-> Float, evMaxVoltage |-> Float], optional |-> [customData |-> Json]]
DERChargingParameters == [required |-> NoFields,
    optional |-> [evSupportedDERControl |-> [many |-> DERControlEnum],
    evOverExcitedMaxDischargePower |-> Float, evOverExcitedPowerFactor |-> Float,
    evUnderExcitedMaxDischargePower |-> Float, evUnderExcitedPowerFactor |-> Float,
    maxApparentPower |-> Float, maxChargeApparentPower |-> Float,
    maxChargeApparentPower_L2 |-> Float, maxChargeApparentPower_L3 |-> Float,
    maxDischargeApparentPower |-> Float, maxDischargeApparentPower_L2 |-> Float,
    maxDischargeApparentPower_L3 |-> Float, maxChargeReactivePower |-> Float,
    maxChargeReactivePower_L2 |-> Float, maxChargeReactivePower_L3 |-> Float,
    minChargeReactivePower |-> Float, minChargeReactivePower_L2 |-> Float,
    minChargeReactivePower_L3 |-> Float, maxDischargeReactivePower |-> Float,
    maxDischargeReactivePower_L2 |-> Float, maxDischargeReactivePower_L3 |-> Float,
    minDischargeReactivePower |-> Float, minDischargeReactivePower_L2 |-> Float,
    minDischargeReactivePower_L3 |-> Float, nominalVoltage |-> Float,
    nominalVoltageOffset |-> Float, maxNominalVoltage |-> Float, minNominalVoltage |-> Float,
    evInverterManufacturer |-> [ci |-> 50], evInverterModel |-> [ci |-> 50],
    evInverterSerialNumber |-> [ci |-> 50], evInverterSwVersion |-> [ci |-> 50],
    evInverterHwVersion |-> [ci |-> 50],
    evIslandingDetectionMethod |-> [many |-> IslandingDetectionEnum], evIslandingTripTime |-> Float,
    evMaximumLevel1DCInjection |-> Float, evDurationLevel1DCInjection |-> Float,
    evMaximumLevel2DCInjection |-> Float, evDurationLevel2DCInjection |-> Float,
    evReactiveSusceptance |-> Float, evSessionTotalDischargeEnergyAvailable |-> Float,
    customData |-> Json]]
EVPriceRule == [required |-> [energyFee |-> Float, powerRangeStart |-> Float],
    optional |-> [customData |-> Json]]
EVAbsolutePriceScheduleEntry == [required |-> [duration |-> Int,
    evPriceRule |-> [many |-> EVPriceRule]], optional |-> [customData |-> Json]]
EVAbsolutePriceSchedule == [required |-> [timeAnchor |-> DateTime, currency |-> [ci |-> 3],
    evAbsolutePriceScheduleEntries |-> [many |-> EVAbsolutePriceScheduleEntry],
    priceAlgorithm |-> [ci |-> 2000]], optional |-> [customData |-> Json]]
EVPowerScheduleEntry == [required |-> [duration |-> Int, power |-> Float],
    optional |-> [customData |-> Json]]
EVPowerSchedule == [required |-> [evPowerScheduleEntries |-> [many |-> EVPowerScheduleEntry],
    timeAnchor |-> DateTime], optional |-> [customData |-> Json]]
EVEnergyOffer == [required |-> [evPowerSchedule |-> EVPowerSchedule],
    optional |-> [evAbsolutePriceSchedule |-> EVAbsolutePriceSchedule, customData |-> Json]]
DCChargingParameters == [required |-> [evMaxCurrent |-> Float, evMaxVoltage |-> Float],
    optional |-> [evMaxPower |-> Float, evEnergyCapacity |-> Float, energyAmount |-> Float,
    stateOfCharge |-> Int, fullSoC |-> Int, bulkSoC |-> Int, customData |-> Json]]
V2XChargingParameters == [required |-> NoFields, optional |-> [minChargePower |-> Float,
    minChargePower_L2 |-> Float, minChargePower_L3 |-> Float, maxChargePower |-> Float,
    maxChargePower_L2 |-> Float, maxChargePower_L3 |-> Float, minDischargePower |-> Float,
    minDischargePower_L2 |-> Float, minDischargePower_L3 |-> Float, maxDischargePower |-> Float,
    maxDischargePower_L2 |-> Float, maxDischargePower_L3 |-> Float, minChargeCurrent |-> Float,
    maxChargeCurrent |-> Float, minDischargeCurrent |-> Float, maxDischargeCurrent |-> Float,
    minVoltage |-> Float, maxVoltage |-> Float, evTargetEnergyRequest |-> Float,
    evMinEnergyRequest |-> Float, evMaxEnergyRequest |-> Float, evMinV2XEnergyRequest |-> Float,
    evMaxV2XEnergyRequest |-> Float, targetSoC |-> Int, customData |-> Json]]
ChargingNeeds == [required |-> [requestedEnergyTransfer |-> EnergyTransferModeEnum],
    optional |-> [acChargingParameters |-> ACChargingParameters,
    derChargingParameters |-> DERChargingParameters, evEnergyOffer |-> EVEnergyOffer,
    dcChargingParameters |-> DCChargingParameters, v2xChargingParameters |-> V2XChargingParameters,
    availableEnergyTransfer |-> [many |-> EnergyTransferModeEnum], controlMode |-> ControlModeEnum,
    mobilityNeedsMode |-> MobilityNeedsModeEnum, departureTime |-> DateTime, customData |-> Json]]
EventData == [required |-> [eventId |-> Int, timestamp |-> DateTime, trigger |-> EventTriggerEnum,
    actualValue |-> [ci |-> 2500], component |-> Component,
    eventNotificationType |-> EventNotificationEnum, variable |-> Variable],
    optional |-> [cause |-> Int, techCode |-> [ci |-> 50], techInfo |-> [ci |-> 500],
    cleared |-> Bool, transactionId |-> [ci |-> 36], variableMonitoringId |-> Int, severity |-> Int,
    customData |-> Json]]
VariableMonitoring == [required |-> [id |-> Int, transaction |-> Bool, value |-> Float,
    type |-> MonitorEnum, severity |-> Int],
    optional |-> [eventNotificationType |-> EventNotificationEnum, customData |-> Json]]
MonitoringData == [required |-> [component |-> Component, variable |-> Variable,
    variableMonitoring |-> [many |-> VariableMonitoring]], optional |-> [customData |-> Json]]
StreamDataElement == [required |-> [t |-> Float, v |-> [ci |-> 2500]],
    optional |-> [customData |-> Json]]
NotifyPeriodicEventStream == [required |-> [data |-> [many |-> StreamDataElement], id |-> Int,
    pending |-> Int, basetime |-> DateTime], optional |-> [customData |-> Json]]
VariableAttribute == [required |-> NoFields, optional |-> [type |-> AttributeEnum,
    value |-> [ci |-> 2500], mutability |-> MutabilityEnum, persistent |-> Bool, constant |-> Bool,
    customData |-> Json]]
VariableCharacteristics == [required |-> [dataType |-> DataEnum, supportsMonitoring |-> Bool],
    optional |-> [unit |-> [ci |-> 16], minLimit |-> Float, maxLimit |-> Float, maxElements |-> Int,
    valuesList |-> [ci |-> 1000], customData |-> Json]]
ReportData == [required |-> [component |-> Component, variable |-> Variable,
    variableAttribute |-> [many |-> VariableAttribute]],
    optional |-> [variableCharacteristics |-> VariableCharacteristics, customData |-> Json]]
Address == [required |-> [name |-> [ci |-> 50], address1 |-> [ci |-> 100], city |-> [ci |-> 100],
    country |-> [ci |-> 50]], optional |-> [address2 |-> [ci |-> 100], postalCode |-> [ci |-> 20],
    customData |-> Json]]
ChargingScheduleUpdate == [required |-> NoFields, optional |-> [limit |-> Float, limit_L2 |-> Float,
    limit_L3 |-> Float, dischargeLimit |-> Float, dischargeLimit_L2 |-> Float,
    dischargeLimit_L3 |-> Float, setpoint |-> Float, setpoint_L2 |-> Float, setpoint_L3 |-> Float,
    setpointReactive |-> Float, setpointReactive_L2 |-> Float, setpointReactive_L3 |-> Float,
    customData |-> Json]]
ChargingProfile == [required |-> [id |-> Int, stackLevel |-> Int,
    chargingProfilePurpose |-> ChargingProfilePurposeEnum,
    chargingProfileKind |-> ChargingProfileKindEnum,
    chargingSchedule |-> [many |-> ChargingSchedule]],
    optional |-> [recurrencyKind |-> RecurrencyKindEnum, validFrom |-> DateTime,
    validTo |-> DateTime, transactionId |-> [ci |-> 36], maxOfflineDuration |-> Int,
    invalidAfterOfflineDuration |-> Bool, dynUpdateInterval |-> Int, dynUpdateTime |-> DateTime,
    priceScheduleSignature |-> [ci |-> 256], customData |-> Json]]
DERCurvePoints == [required |-> [x |-> Float, y |-> Float], optional |-> [customData |-> Json]]
Hysteresis == [required |-> NoFields, optional |-> [hysteresisHigh |-> Float,
    hysteresisLow |-> Float, hysteresisDelay |-> Float, hysteresisGradient |-> Float,
    customData |-> Json]]
ReactivePowerParams == [required |-> NoFields, optional |-> [vRef |-> Float,
    autonomousVRefEnable |-> Bool, autonomousVRefTimeConstant |-> Float, customData |-> Json]]
VoltageParams == [required |-> NoFields, optional |-> [hv10MinMeanValue |-> Float,
    hv10MinMeanTripDelay |-> Float, powerDuringCessation |-> PowerDuringCessationEnum,
    customData |-> Json]]
DERCurve == [required |-> [curveData |-> [many |-> DERCurvePoints], priority |-> Int,
    yUnit |-> DERUnitEnum], optional |-> [hysteresis |-> Hysteresis,
    reactivePowerParams |-> ReactivePowerParams, voltageParams |-> VoltageParams,
    responseTime |-> Float, startTime |-> DateTime, duration |-> Float, customData |-> Json]]
DERCurveGet == [required |-> [curve |-> DERCurve, id |-> [ci |-> 36], curveType |-> DERControlEnum,
    isDefault |-> Bool, isSuperseded |-> Bool], optional |-> [customData |-> Json]]
EnterService == [required |-> [priority |-> Int, highVoltage |-> Float, lowVoltage |-> Float,
    highFreq |-> Float, lowFreq |-> Float], optional |-> [delay |-> Float, randomDelay |-> Float,
    rampRate |-> Float, customData |-> Json]]
EnterServiceGet == [required |-> [enterService |-> EnterService, id |-> [ci |-> 36]],
    optional |-> [customData |-> Json]]
FixedPF == [required |-> [priority |-> Int, displacement |-> Float, excitation |-> Bool],
    optional |-> [startTime |-> DateTime, duration |-> Float, customData |-> Json]]
FixedPFGet == [required |-> [fixedPF |-> FixedPF, id |-> [ci |-> 36], isDefault |-> Bool,
    isSuperseded |-> Bool], optional |-> [customData |-> Json]]
FixedVar == [required |-> [priority |-> Int, setpoint |-> Float, unit |-> DERUnitEnum],
    optional |-> [startTime |-> DateTime, duration |-> Float, customData |-> Json]]
FixedVarGet == [required |-> [fixedVar |-> FixedVar, id |-> [ci |-> 36], isDefault |-> Bool,
    isSuperseded |-> Bool], optional |-> [customData |-> Json]]
FreqDroop == [required |-> [priority |-> Int, overFreq |-> Float, underFreq |-> Float,
    overDroop |-> Float, underDroop |-> Float, responseTime |-> Float],
    optional |-> [startTime |-> DateTime, duration |-> Float, customData |-> Json]]
FreqDroopGet == [required |-> [freqDroop |-> FreqDroop, id |-> [ci |-> 36], isDefault |-> Bool,
    isSuperseded |-> Bool], optional |-> [customData |-> Json]]
Gradient == [required |-> [priority |-> Int, gradient |-> Float, softGradient |-> Float],
    optional |-> [customData |-> Json]]
GradientGet == [required |-> [gradient |-> Gradient, id |-> [ci |-> 36]],
    optional |-> [customData |-> Json]]
LimitMaxDischarge == [required |-> [priority |-> Int], optional |-> [pctMaxDischargePower |-> Float,
    powerMonitoringMustTrip |-> DERCurve, startTime |-> DateTime, duration |-> Float,
    customData |-> Json]]
LimitMaxDischargeGet == [required |-> [id |-> [ci |-> 36], isDefault |-> Bool,
    isSuperseded |-> Bool, limitMaxDischarge |-> LimitMaxDischarge],
    optional |-> [customData |-> Json]]
AuthorizationData == [required |-> [idToken |-> IdToken], optional |-> [idTokenInfo |-> IdTokenInfo,
    customData |-> Json]]
APN == [required |-> [apn |-> [ci |-> 2000], apnAuthentication |-> APNAuthenticationEnum],
    optional |-> [apnUserName |-> [ci |-> 50], apnPassword |-> [ci |-> 64], simPin |-> Int,
    preferredNetwork |-> [ci |-> 6], useOnlyPreferredNetwork |-> Bool, customData |-> Json]]
VPN == [required |-> [server |-> [ci |-> 2000], user |-> [ci |-> 50], password |-> [ci |-> 64],
    key |-> [ci |-> 255], type |-> VPNEnum], optional |-> [group |-> [ci |-> 50],
    customData |-> Json]]
NetworkConnectionProfile == [required |-> [ocppInterface |-> OCPPInterfaceEnum,
    ocppTransport |-> OCPPTransportEnum, messageTimeout |-> Int, ocppCsmsUrl |-> [ci |-> 2000],
    securityProfile |-> Int], optional |-> [apn |-> APN, ocppVersion |-> OCPPVersionEnum,
    identity |-> [ci |-> 48], basicAuthPassword |-> [ci |-> 64], vpn |-> VPN, customData |-> Json]]
SetMonitoringData == [required |-> [value |-> Float, type |-> MonitorEnum, severity |-> Int,
    component |-> Component, variable |-> Variable], optional |-> [id |-> Int,
    periodicEventStream |-> PeriodicEventStreamParams, transaction |-> Bool, customData |-> Json]]
SetMonitoringResult == [required |-> [status |-> SetMonitoringStatusEnum, type |-> MonitorEnum,
    component |-> Component, variable |-> Variable, severity |-> Int], optional |-> [id |-> Int,
    statusInfo |-> StatusInfo, customData |-> Json]]
SetVariableData == [required |-> [attributeValue |-> [ci |-> 2500], component |-> Component,
    variable |-> Variable], optional |-> [attributeType |-> AttributeEnum, customData |-> Json]]
SetVariableResult == [required |-> [attributeStatus |-> SetVariableStatusEnum,
    component |-> Component, variable |-> Variable], optional |-> [attributeType |-> AttributeEnum,
    attributeStatusInfo |-> StatusInfo, customData |-> Json]]
CostDimension == [required |-> [type |-> CostDimensionEnum, volume |-> Float],
    optional |-> [customData |-> Json]]
ChargingPeriod == [required |-> [startPeriod |-> DateTime],
    optional |-> [dimensions |-> [many |-> CostDimension], tariffId |-> [ci |-> 60],
    customData |-> Json]]
TotalPrice == [required |-> NoFields, optional |-> [exclTax |-> Float, inclTax |-> Float,
    customData |-> Json]]
TotalCost == [required |-> [currency |-> [ci |-> 3], typeOfCost |-> TariffCostEnum,
    total |-> TotalPrice], optional |-> [fixed |-> Price, energy |-> Price, chargingTime |-> Price,
    idleTime |-> Price, reservationTime |-> Price, reservationFixed |-> Price, customData |-> Json]]
TotalUsage == [required |-> [energy |-> Float, chargingTime |-> Int, idleTime |-> Int],
    optional |-> [reservationTime |-> Int, customData |-> Json]]
CostDetails == [required |-> [totalCost |-> TotalCost, totalUsage |-> TotalUsage],
    optional |-> [chargingPeriods |-> [many |-> ChargingPeriod], failureToCalculate |-> Bool,
    failureReason |-> [ci |-> 500], customData |-> Json]]
TransactionLimit == [required |-> NoFields, optional |-> [maxCost |-> Float, maxEnergy |-> Float,
    maxTime |-> Int, maxSoC |-> Int, customData |-> Json]]
Transaction == [required |-> [transactionId |-> [ci |-> 36]],
    optional |-> [chargingState |-> ChargingStateEnum, timeSpentCharging |-> Int,
    stoppedReason |-> ReasonEnum, remoteStartId |-> Int, operationMode |-> OperationModeEnum,
    tariffId |-> [ci |-> 60], transactionLimit |-> TransactionLimit, customData |-> Json]]
Firmware == [required |-> [location |-> [ci |-> 2000], retrieveDateTime |-> DateTime],
    optional |-> [installDateTime |-> DateTime, signingCertificate |-> [ci |-> 5500],
    signature |-> [ci |-> 800], customData |-> Json]]

DataTypes2 == [StatusInfo |-> StatusInfo, PeriodicEventStreamParams |-> PeriodicEventStreamParams,
    AdditionalInfo |-> AdditionalInfo, IdToken |-> IdToken, OCSPRequestData |-> OCSPRequestData,
    MessageContent |-> MessageContent, IdTokenInfo |-> IdTokenInfo,
    TariffConditions |-> TariffConditions, TariffEnergyPrice |-> TariffEnergyPrice,
    TaxRate |-> TaxRate, TariffEnergy |-> TariffEnergy, TariffTimePrice |-> TariffTimePrice,
    TariffTime |-> TariffTime, TariffConditionsFixed |-> TariffConditionsFixed,
    TariffFixedPrice |-> TariffFixedPrice, TariffFixed |-> TariffFixed, Price |-> Price,
    Tariff |-> Tariff, BatteryData |-> BatteryData, Modem |-> Modem,
    ChargingStation |-> ChargingStation, EVSE |-> EVSE,
    ClearChargingProfile |-> ClearChargingProfile, ClearTariffsResult |-> ClearTariffsResult,
    ClearMonitoringResult |-> ClearMonitoringResult,
    CertificateHashDataType |-> CertificateHashDataType,
    CertificateStatusRequestInfo |-> CertificateStatusRequestInfo,
    CertificateStatus |-> CertificateStatus, ChargingProfileCriterion |-> ChargingProfileCriterion,
    V2XFreqWattPoint |-> V2XFreqWattPoint, V2XSignalWattPoint |-> V2XSignalWattPoint,
    ChargingSchedulePeriod |-> ChargingSchedulePeriod, CompositeSchedule |-> CompositeSchedule,
    CertificateHashDataChain |-> CertificateHashDataChain, LogParameters |-> LogParameters,
    Component |-> Component, Variable |-> Variable, ComponentVariable |-> ComponentVariable,
    ConstantStreamData |-> ConstantStreamData, TariffAssignment |-> TariffAssignment,
    GetVariableData |-> GetVariableData, GetVariableResult |-> GetVariableResult,
    SignedMeterValue |-> SignedMeterValue, UnitOfMeasure |-> UnitOfMeasure,
    SampledValue |-> SampledValue, MeterValue |-> MeterValue, LimitAtSoC |-> LimitAtSoC,
    RelativeTimeInterval |-> RelativeTimeInterval, Cost |-> Cost,
    ConsumptionCost |-> ConsumptionCost, SalesTariffEntry |-> SalesTariffEntry,
    SalesTariff |-> SalesTariff, RationalNumber |-> RationalNumber, PriceRule |-> PriceRule,
    PriceRuleStack |-> PriceRuleStack, TaxRule |-> TaxRule, OverstayRule |-> OverstayRule,
    OverstayRuleList |-> OverstayRuleList,
    AdditionalSelectedServices |-> AdditionalSelectedServices,
    AbsolutePriceSchedule |-> AbsolutePriceSchedule,
    PriceLevelScheduleEntry |-> PriceLevelScheduleEntry, PriceLevelSchedule |-> PriceLevelSchedule,
    ChargingSchedule |-> ChargingSchedule, ChargingLimit |-> ChargingLimit,
    MessageInfo |-> MessageInfo, ACChargingParameters |-> ACChargingParameters,
    DERChargingParameters |-> DERChargingParameters, EVPriceRule |-> EVPriceRule,
    EVAbsolutePriceScheduleEntry |-> EVAbsolutePriceScheduleEntry,
    EVAbsolutePriceSchedule |-> EVAbsolutePriceSchedule,
    EVPowerScheduleEntry |-> EVPowerScheduleEntry, EVPowerSchedule |-> EVPowerSchedule,
    EVEnergyOffer |-> EVEnergyOffer, DCChargingParameters |-> DCChargingParameters,
    V2XChargingParameters |-> V2XChargingParameters, ChargingNeeds |-> ChargingNeeds,
    EventData |-> EventData, VariableMonitoring |-> VariableMonitoring,
    MonitoringData |-> MonitoringData, StreamDataElement |-> StreamDataElement,
    NotifyPeriodicEventStream |-> NotifyPeriodicEventStream,
    VariableAttribute |-> VariableAttribute, VariableCharacteristics |-> VariableCharacteristics,
    ReportData |-> ReportData, Address |-> Address,
    ChargingScheduleUpdate |-> ChargingScheduleUpdate, ChargingProfile |-> ChargingProfile,
    DERCurvePoints |-> DERCurvePoints, Hysteresis |-> Hysteresis,
    ReactivePowerParams |-> ReactivePowerParams, VoltageParams |-> VoltageParams,
    DERCurve |-> DERCurve, DERCurveGet |-> DERCurveGet, EnterService |-> EnterService,
    EnterServiceGet |-> EnterServiceGet, FixedPF |-> FixedPF, FixedPFGet |-> FixedPFGet,
    FixedVar |-> FixedVar, FixedVarGet |-> FixedVarGet, FreqDroop |-> FreqDroop,
    FreqDroopGet |-> FreqDroopGet, Gradient |-> Gradient, GradientGet |-> GradientGet,
    LimitMaxDischarge |-> LimitMaxDischarge, LimitMaxDischargeGet |-> LimitMaxDischargeGet,
    AuthorizationData |-> AuthorizationData, APN |-> APN, VPN |-> VPN,
    NetworkConnectionProfile |-> NetworkConnectionProfile, SetMonitoringData |-> SetMonitoringData,
    SetMonitoringResult |-> SetMonitoringResult, SetVariableData |-> SetVariableData,
    SetVariableResult |-> SetVariableResult, CostDimension |-> CostDimension,
    ChargingPeriod |-> ChargingPeriod, TotalPrice |-> TotalPrice, TotalCost |-> TotalCost,
    TotalUsage |-> TotalUsage, CostDetails |-> CostDetails, TransactionLimit |-> TransactionLimit,
    Transaction |-> Transaction, Firmware |-> Firmware]
==============================================================================
