--------------------------------- MODULE Messages2 ---------------------------------
(* OCPP 2.0.1 and 2.1: the messages. *)
EXTENDS Types2

AuthorizeMessage ==
    [Request |-> [required |-> [idToken |-> IdToken],
        optional |-> [certificate |-> [ci |-> 10000],
        iso15118CertificateHashData |-> [many |-> OCSPRequestData], customData |-> Json]],
     Response |-> [required |-> [idTokenInfo |-> IdTokenInfo],
        optional |-> [certificateStatus |-> AuthorizeCertificateStatusEnum,
        allowedEnergyTransfer |-> [many |-> EnergyTransferModeEnum], tariff |-> Tariff,
        customData |-> Json]]]
BootNotificationMessage ==
    [Request |-> [required |-> [chargingStation |-> ChargingStation, reason |-> BootReasonEnum],
        optional |-> [customData |-> Json]],
     Response |-> [required |-> [currentTime |-> DateTime, interval |-> Int,
        status |-> RegistrationStatusEnum], optional |-> [statusInfo |-> StatusInfo,
        customData |-> Json]]]
CancelReservationMessage ==
    [Request |-> [required |-> [reservationId |-> Int], optional |-> [customData |-> Json]],
     Response |-> [required |-> [status |-> CancelReservationStatusEnum],
        optional |-> [statusInfo |-> StatusInfo, customData |-> Json]]]
CertificateSignedMessage ==
    [Request |-> [required |-> [certificateChain |-> [ci |-> 10000]],
        optional |-> [certificateType |-> CertificateSigningUseEnum, requestId |-> Int,
        customData |-> Json]],
     Response |-> [required |-> [status |-> CertificateSignedStatusEnum],
        optional |-> [statusInfo |-> StatusInfo, customData |-> Json]]]
ChangeAvailabilityMessage ==
    [Request |-> [required |-> [operationalStatus |-> OperationalStatusEnum],
        optional |-> [evse |-> EVSE, customData |-> Json]],
     Response |-> [required |-> [status |-> ChangeAvailabilityStatusEnum],
        optional |-> [statusInfo |-> StatusInfo, customData |-> Json]]]
ClearCacheMessage ==
    [Request |-> [required |-> NoFields, optional |-> [customData |-> Json]],
     Response |-> [required |-> [status |-> ClearCacheStatusEnum],
        optional |-> [statusInfo |-> StatusInfo, customData |-> Json]]]
ClearChargingProfileMessage ==
    [Request |-> [required |-> NoFields, optional |-> [chargingProfileId |-> Int,
        chargingProfileCriteria |-> ClearChargingProfile, customData |-> Json]],
     Response |-> [required |-> [status |-> ClearChargingProfileStatusEnum],
        optional |-> [statusInfo |-> StatusInfo, customData |-> Json]]]
ClearDisplayMessageMessage ==
    [Request |-> [required |-> [id |-> Int], optional |-> [customData |-> Json]],
     Response |-> [required |-> [status |-> ClearMessageStatusEnum],
        optional |-> [statusInfo |-> StatusInfo, customData |-> Json]]]
ClearVariableMonitoringMessage ==
    [Request |-> [required |-> [id |-> [many |-> Int]], optional |-> [customData |-> Json]],
     Response |-> [required |-> [clearMonitoringResult |-> [many |-> ClearMonitoringResult]],
        optional |-> [customData |-> Json]]]
ClearedChargingLimitMessage ==
    [Request |-> [required |-> [chargingLimitSource |-> [ci |-> 20]],
        optional |-> [evseId |-> Int, customData |-> Json]],
     Response |-> [required |-> NoFields, optional |-> [customData |-> Json]]]
CostUpdatedMessage ==
    [Request |-> [required |-> [totalCost |-> Float, transactionId |-> [ci |-> 36]],
        optional |-> [customData |-> Json]],
     Response |-> [required |-> NoFields, optional |-> [customData |-> Json]]]
CustomerInformationMessage ==
    [Request |-> [required |-> [requestId |-> Int, report |-> Bool, clear |-> Bool],
        optional |-> [customerCertificate |-> CertificateHashDataType, idToken |-> IdToken,
        customerIdentifier |-> [ci |-> 64], customData |-> Json]],
     Response |-> [required |-> [status |-> CustomerInformationStatusEnum],
        optional |-> [statusInfo |-> StatusInfo, customData |-> Json]]]
DataTransferMessage ==
    [Request |-> [required |-> [vendorId |-> [ci |-> 255]],
        optional |-> [messageId |-> [ci |-> 50], data |-> Json, customData |-> Json]],
     Response |-> [required |-> [status |-> DataTransferStatusEnum],
        optional |-> [statusInfo |-> StatusInfo, data |-> Json, customData |-> Json]]]
DeleteCertificateMessage ==
    [Request |-> [required |-> [certificateHashData |-> CertificateHashDataType],
        optional |-> [customData |-> Json]],
     Response |-> [required |-> [status |-> DeleteCertificateStatusEnum],
        optional |-> [statusInfo |-> StatusInfo, customData |-> Json]]]
FirmwareStatusNotificationMessage ==
    [Request |-> [required |-> [status |-> FirmwareStatusEnum], optional |-> [requestId |-> Int,
        statusInfo |-> StatusInfo, customData |-> Json]],
     Response |-> [required |-> NoFields, optional |-> [customData |-> Json]]]
Get15118EVCertificateMessage ==
    [Request |-> [required |-> [iso15118SchemaVersion |-> [ci |-> 50],
        action |-> CertificateActionEnum, exiRequest |-> [ci |-> 11000]],
        optional |-> [maximumContractCertificateChains |-> Int,
        prioritizedEMAIDs |-> [many |-> [ci |-> 255]], customData |-> Json]],
     Response |-> [required |-> [status |-> Iso15118EVCertificateStatusEnum,
        exiResponse |-> [ci |-> 17000]], optional |-> [statusInfo |-> StatusInfo,
        remainingContracts |-> Int, customData |-> Json]]]
GetBaseReportMessage ==
    [Request |-> [required |-> [requestId |-> Int, reportBase |-> ReportBaseEnum],
        optional |-> [customData |-> Json]],
     Response |-> [required |-> [status |-> GenericDeviceModelStatusEnum],
        optional |-> [statusInfo |-> StatusInfo, customData |-> Json]]]
GetCertificateStatusMessage ==
    [Request |-> [required |-> [ocspRequestData |-> OCSPRequestData],
        optional |-> [customData |-> Json]],
     Response |-> [required |-> [status |-> GetCertificateStatusEnum],
        optional |-> [statusInfo |-> StatusInfo, ocspResult |-> [ci |-> 18000],
        customData |-> Json]]]
GetChargingProfilesMessage ==
    [Request |-> [required |-> [requestId |-> Int, chargingProfile |-> ChargingProfileCriterion],
        optional |-> [evseId |-> Int, customData |-> Json]],
     Response |-> [required |-> [status |-> GetChargingProfileStatusEnum],
        optional |-> [statusInfo |-> StatusInfo, customData |-> Json]]]
GetCompositeScheduleMessage ==
    [Request |-> [required |-> [duration |-> Int, evseId |-> Int],
        optional |-> [chargingRateUnit |-> ChargingRateUnitEnum, customData |-> Json]],
     Response |-> [required |-> [status |-> GenericStatusEnum],
        optional |-> [statusInfo |-> StatusInfo, schedule |-> CompositeSchedule,
        customData |-> Json]]]
GetDisplayMessagesMessage ==
    [Request |-> [required |-> [requestId |-> Int], optional |-> [id |-> [many |-> Int],
        priority |-> MessagePriorityEnum, state |-> MessageStateEnum, customData |-> Json]],
     Response |-> [required |-> [status |-> GetDisplayMessagesStatusEnum],
        optional |-> [statusInfo |-> StatusInfo, customData |-> Json]]]
GetInstalledCertificateIdsMessage ==
    [Request |-> [required |-> NoFields,
        optional |-> [certificateType |-> [many |-> GetCertificateIdUseEnum],
        customData |-> Json]],
     Response |-> [required |-> [status |-> GetInstalledCertificateStatusEnum],
        optional |-> [statusInfo |-> StatusInfo,
        certificateHashDataChain |-> [many |-> CertificateHashDataChain],
        customData |-> Json]]]
GetLocalListVersionMessage ==
    [Request |-> [required |-> NoFields, optional |-> [customData |-> Json]],
     Response |-> [required |-> [versionNumber |-> Int], optional |-> [customData |-> Json]]]
GetLogMessage ==
    [Request |-> [required |-> [log |-> LogParameters, logType |-> LogEnum, requestId |-> Int],
        optional |-> [retries |-> Int, retryInterval |-> Int, customData |-> Json]],
     Response |-> [required |-> [status |-> LogStatusEnum],
        optional |-> [statusInfo |-> StatusInfo, filename |-> [ci |-> 255],
        customData |-> Json]]]
GetMonitoringReportMessage ==
    [Request |-> [required |-> [requestId |-> Int],
        optional |-> [componentVariable |-> [many |-> ComponentVariable],
        monitoringCriteria |-> [many |-> MonitoringCriterionEnum], customData |-> Json]],
     Response |-> [required |-> [status |-> GenericDeviceModelStatusEnum],
        optional |-> [statusInfo |-> StatusInfo, customData |-> Json]]]
GetReportMessage ==
    [Request |-> [required |-> [requestId |-> Int],
        optional |-> [componentVariable |-> [many |-> ComponentVariable],
        componentCriteria |-> [many |-> ComponentCriterionEnum], customData |-> Json]],
     Response |-> [required |-> [status |-> GenericDeviceModelStatusEnum],
        optional |-> [statusInfo |-> StatusInfo, customData |-> Json]]]
GetTransactionStatusMessage ==
    [Request |-> [required |-> NoFields, optional |-> [transactionId |-> [ci |-> 36],
        customData |-> Json]],
     Response |-> [required |-> [messagesInQueue |-> Bool],
        optional |-> [ongoingIndicator |-> Bool, customData |-> Json]]]
GetVariablesMessage ==
    [Request |-> [required |-> [getVariableData |-> [many |-> GetVariableData]],
        optional |-> [customData |-> Json]],
     Response |-> [required |-> [getVariableResult |-> [many |-> GetVariableResult]],
        optional |-> [customData |-> Json]]]
HeartbeatMessage ==
    [Request |-> [required |-> NoFields, optional |-> [customData |-> Json]],
     Response |-> [required |-> [currentTime |-> DateTime], optional |-> [customData |-> Json]]]
InstallCertificateMessage ==
    [Request |-> [required |-> [certificateType |-> InstallCertificateUseEnum,
        certificate |-> [ci |-> 10000]], optional |-> [customData |-> Json]],
     Response |-> [required |-> [status |-> InstallCertificateStatusEnum],
        optional |-> [statusInfo |-> StatusInfo, customData |-> Json]]]
LogStatusNotificationMessage ==
    [Request |-> [required |-> [status |-> UploadLogStatusEnum], optional |-> [requestId |-> Int,
        statusInfo |-> StatusInfo, customData |-> Json]],
     Response |-> [required |-> NoFields, optional |-> [customData |-> Json]]]
MeterValuesMessage ==
    [Request |-> [required |-> [evseId |-> Int, meterValue |-> [many |-> MeterValue]],
        optional |-> [customData |-> Json]],
     Response |-> [required |-> NoFields, optional |-> [customData |-> Json]]]
NotifyChargingLimitMessage ==
    [Request |-> [required |-> [chargingLimit |-> ChargingLimit],
        optional |-> [chargingSchedule |-> [many |-> ChargingSchedule], evseId |-> Int,
        customData |-> Json]],
     Response |-> [required |-> NoFields, optional |-> [customData |-> Json]]]
NotifyCustomerInformationMessage ==
    [Request |-> [required |-> [data |-> [ci |-> 512], seqNo |-> Int, generatedAt |-> DateTime,
        requestId |-> Int], optional |-> [tbc |-> Bool, customData |-> Json]],
     Response |-> [required |-> NoFields, optional |-> [customData |-> Json]]]
NotifyDisplayMessagesMessage ==
    [Request |-> [required |-> [requestId |-> Int],
        optional |-> [messageInfo |-> [many |-> MessageInfo], tbc |-> Bool,
        customData |-> Json]],
     Response |-> [required |-> NoFields, optional |-> [customData |-> Json]]]
NotifyEVChargingNeedsMessage ==
    [Request |-> [required |-> [evseId |-> Int, chargingNeeds |-> ChargingNeeds],
        optional |-> [maxScheduleTuples |-> Int, timestamp |-> DateTime,
        customData |-> Json]],
     Response |-> [required |-> [status |-> NotifyEVChargingNeedsStatusEnum],
        optional |-> [statusInfo |-> StatusInfo, customData |-> Json]]]
NotifyEVChargingScheduleMessage ==
    [Request |-> [required |-> [timeBase |-> DateTime, chargingSchedule |-> ChargingSchedule,
        evseId |-> Int], optional |-> [selectedChargingScheduleId |-> Int,
        powerToleranceAcceptance |-> Bool, customData |-> Json]],
     Response |-> [required |-> [status |-> GenericStatusEnum],
        optional |-> [statusInfo |-> StatusInfo, customData |-> Json]]]
NotifyEventMessage ==
    [Request |-> [required |-> [generatedAt |-> DateTime, seqNo |-> Int,
        eventData |-> [many |-> EventData]], optional |-> [tbc |-> Bool,
        customData |-> Json]],
     Response |-> [required |-> NoFields, optional |-> [customData |-> Json]]]
NotifyMonitoringReportMessage ==
    [Request |-> [required |-> [requestId |-> Int, seqNo |-> Int, generatedAt |-> DateTime],
        optional |-> [monitor |-> [many |-> MonitoringData], tbc |-> Bool,
        customData |-> Json]],
     Response |-> [required |-> NoFields, optional |-> [customData |-> Json]]]
NotifyReportMessage ==
    [Request |-> [required |-> [requestId |-> Int, generatedAt |-> DateTime, seqNo |-> Int],
        optional |-> [reportData |-> [many |-> ReportData], tbc |-> Bool,
        customData |-> Json]],
     Response |-> [required |-> NoFields, optional |-> [customData |-> Json]]]
PublishFirmwareMessage ==
    [Request |-> [required |-> [location |-> [ci |-> 2000], checksum |-> [ci |-> 32],
        requestId |-> Int], optional |-> [retries |-> Int, retryInterval |-> Int,
        customData |-> Json]],
     Response |-> [required |-> [status |-> GenericStatusEnum],
        optional |-> [statusInfo |-> StatusInfo, customData |-> Json]]]
PublishFirmwareStatusNotificationMessage ==
    [Request |-> [required |-> [status |-> PublishFirmwareStatusEnum],
        optional |-> [location |-> [many |-> [ci |-> 2000]], requestId |-> Int,
        statusInfo |-> StatusInfo, customData |-> Json]],
     Response |-> [required |-> NoFields, optional |-> [customData |-> Json]]]
ReportChargingProfilesMessage ==
    [Request |-> [required |-> [requestId |-> Int, chargingLimitSource |-> [ci |-> 20],
        chargingProfile |-> [many |-> ChargingProfile], evseId |-> Int],
        optional |-> [tbc |-> Bool, customData |-> Json]],
     Response |-> [required |-> NoFields, optional |-> [customData |-> Json]]]
RequestStartTransactionMessage ==
    [Request |-> [required |-> [idToken |-> IdToken, remoteStartId |-> Int],
        optional |-> [evseId |-> Int, groupIdToken |-> IdToken,
        chargingProfile |-> ChargingProfile, customData |-> Json]],
     Response |-> [required |-> [status |-> RequestStartStopStatusEnum],
        optional |-> [statusInfo |-> StatusInfo, transactionId |-> [ci |-> 36],
        customData |-> Json]]]
RequestStopTransactionMessage ==
    [Request |-> [required |-> [transactionId |-> [ci |-> 36]],
        optional |-> [customData |-> Json]],
     Response |-> [required |-> [status |-> RequestStartStopStatusEnum],
        optional |-> [statusInfo |-> StatusInfo, customData |-> Json]]]
ReservationStatusUpdateMessage ==
    [Request |-> [required |-> [reservationId |-> Int,
        reservationUpdateStatus |-> ReservationUpdateStatusEnum],
        optional |-> [customData |-> Json]],
     Response |-> [required |-> NoFields, optional |-> [customData |-> Json]]]
ReserveNowMessage ==
    [Request |-> [required |-> [id |-> Int, expiryDateTime |-> DateTime, idToken |-> IdToken],
        optional |-> [connectorType |-> [ci |-> 20], evseId |-> Int, groupIdToken |-> IdToken,
        customData |-> Json]],
     Response |-> [required |-> [status |-> ReserveNowStatusEnum],
        optional |-> [statusInfo |-> StatusInfo, customData |-> Json]]]
ResetMessage ==
    [Request |-> [required |-> [type |-> ResetEnum], optional |-> [evseId |-> Int,
        customData |-> Json]],
     Response |-> [required |-> [status |-> ResetStatusEnum],
        optional |-> [statusInfo |-> StatusInfo, customData |-> Json]]]
SecurityEventNotificationMessage ==
    [Request |-> [required |-> [type |-> [ci |-> 50], timestamp |-> DateTime],
        optional |-> [techInfo |-> [ci |-> 255], customData |-> Json]],
     Response |-> [required |-> NoFields, optional |-> [customData |-> Json]]]
SendLocalListMessage ==
    [Request |-> [required |-> [versionNumber |-> Int, updateType |-> UpdateEnum],
        optional |-> [localAuthorizationList |-> [many |-> AuthorizationData],
        customData |-> Json]],
     Response |-> [required |-> [status |-> SendLocalListStatusEnum],
        optional |-> [statusInfo |-> StatusInfo, customData |-> Json]]]
SetChargingProfileMessage ==
    [Request |-> [required |-> [evseId |-> Int, chargingProfile |-> ChargingProfile],
        optional |-> [customData |-> Json]],
     Response |-> [required |-> [status |-> ChargingProfileStatusEnum],
        optional |-> [statusInfo |-> StatusInfo, customData |-> Json]]]
SetDisplayMessageMessage ==
    [Request |-> [required |-> [message |-> MessageInfo], optional |-> [customData |-> Json]],
     Response |-> [required |-> [status |-> DisplayMessageStatusEnum],
        optional |-> [statusInfo |-> StatusInfo, customData |-> Json]]]
SetMonitoringBaseMessage ==
    [Request |-> [required |-> [monitoringBase |-> MonitoringBaseEnum],
        optional |-> [customData |-> Json]],
     Response |-> [required |-> [status |-> GenericDeviceModelStatusEnum],
        optional |-> [statusInfo |-> StatusInfo, customData |-> Json]]]
SetMonitoringLevelMessage ==
    [Request |-> [required |-> [severity |-> Int], optional |-> [customData |-> Json]],
     Response |-> [required |-> [status |-> GenericStatusEnum],
        optional |-> [statusInfo |-> StatusInfo, customData |-> Json]]]
SetNetworkProfileMessage ==
    [Request |-> [required |-> [configurationSlot |-> Int,
        connectionData |-> NetworkConnectionProfile], optional |-> [customData |-> Json]],
     Response |-> [required |-> [status |-> SetNetworkProfileStatusEnum],
        optional |-> [statusInfo |-> StatusInfo, customData |-> Json]]]
SetVariableMonitoringMessage ==
    [Request |-> [required |-> [setMonitoringData |-> [many |-> SetMonitoringData]],
        optional |-> [customData |-> Json]],
     Response |-> [required |-> [setMonitoringResult |-> [many |-> SetMonitoringResult]],
        optional |-> [customData |-> Json]]]
SetVariablesMessage ==
    [Request |-> [required |-> [setVariableData |-> [many |-> SetVariableData]],
        optional |-> [customData |-> Json]],
     Response |-> [required |-> [setVariableResult |-> [many |-> SetVariableResult]],
        optional |-> [customData |-> Json]]]
SignCertificateMessage ==
    [Request |-> [required |-> [csr |-> [ci |-> 5500]],
        optional |-> [certificateType |-> CertificateSigningUseEnum,
        hashRootCertificate |-> CertificateHashDataType, requestId |-> Int,
        customData |-> Json]],
     Response |-> [required |-> [status |-> GenericStatusEnum],
        optional |-> [statusInfo |-> StatusInfo, customData |-> Json]]]
StatusNotificationMessage ==
    [Request |-> [required |-> [timestamp |-> DateTime, connectorStatus |-> ConnectorStatusEnum,
        evseId |-> Int, connectorId |-> Int], optional |-> [customData |-> Json]],
     Response |-> [required |-> NoFields, optional |-> [customData |-> Json]]]
TransactionEventMessage ==
    [Request |-> [required |-> [eventType |-> TransactionEventEnum, timestamp |-> DateTime,
        triggerReason |-> TriggerReasonEnum, seqNo |-> Int, transactionInfo |-> Transaction],
        optional |-> [costDetails |-> CostDetails, meterValue |-> [many |-> MeterValue],
        offline |-> Bool, numberOfPhasesUsed |-> Int, cableMaxCurrent |-> Int,
        reservationId |-> Int, preconditioningStatus |-> PreconditioningStatusEnum,
        evseSleep |-> Bool, evse |-> EVSE, idToken |-> IdToken, customData |-> Json]],
     Response |-> [required |-> NoFields, optional |-> [totalCost |-> Float,
        chargingPriority |-> Int, idTokenInfo |-> IdTokenInfo,
        transactionLimit |-> TransactionLimit, updatedPersonalMessage |-> MessageContent,
        updatedPersonalMessageExtra |-> [many |-> MessageContent], customData |-> Json]]]
TriggerMessageMessage ==
    [Request |-> [required |-> [requestedMessage |-> MessageTriggerEnum],
        optional |-> [evse |-> EVSE, customTrigger |-> [ci |-> 50], customData |-> Json]],
     Response |-> [required |-> [status |-> TriggerMessageStatusEnum],
        optional |-> [statusInfo |-> StatusInfo, customData |-> Json]]]
UnlockConnectorMessage ==
    [Request |-> [required |-> [evseId |-> Int, connectorId |-> Int],
        optional |-> [customData |-> Json]],
     Response |-> [required |-> [status |-> UnlockStatusEnum],
        optional |-> [statusInfo |-> StatusInfo, customData |-> Json]]]
UnpublishFirmwareMessage ==
    [Request |-> [required |-> [checksum |-> [ci |-> 32]], optional |-> [customData |-> Json]],
     Response |-> [required |-> [status |-> UnpublishFirmwareStatusEnum],
        optional |-> [customData |-> Json]]]
UpdateFirmwareMessage ==
    [Request |-> [required |-> [requestId |-> Int, firmware |-> Firmware],
        optional |-> [retries |-> Int, retryInterval |-> Int, customData |-> Json]],
     Response |-> [required |-> [status |-> UpdateFirmwareStatusEnum],
        optional |-> [statusInfo |-> StatusInfo, customData |-> Json]]]
AFRRSignalMessage ==
    [Request |-> [required |-> [timestamp |-> DateTime, signal |-> Int],
        optional |-> [customData |-> Json]],
     Response |-> [required |-> [status |-> GenericStatusEnum],
        optional |-> [statusInfo |-> StatusInfo, customData |-> Json]]]
AdjustPeriodicEventStreamMessage ==
    [Request |-> [required |-> [id |-> Int, params |-> PeriodicEventStreamParams],
        optional |-> [customData |-> Json]],
     Response |-> [required |-> [status |-> GenericStatusEnum],
        optional |-> [statusInfo |-> StatusInfo, customData |-> Json]]]
BatterySwapMessage ==
    [Request |-> [required |-> [batteryData |-> [many |-> BatteryData],
        eventType |-> BatterySwapEventEnum, idToken |-> IdToken, requestId |-> Int],
        optional |-> [customData |-> Json]],
     Response |-> [required |-> NoFields, optional |-> [customData |-> Json]]]
ChangeTransactionTariffMessage ==
    [Request |-> [required |-> [tariff |-> Tariff, transactionId |-> [ci |-> 36]],
        optional |-> [customData |-> Json]],
     Response |-> [required |-> [status |-> TariffChangeStatusEnum],
        optional |-> [statusInfo |-> StatusInfo, customData |-> Json]]]
ClearDERControlMessage ==
    [Request |-> [required |-> [isDefault |-> Bool], optional |-> [controlType |-> DERControlEnum,
        controlId |-> [ci |-> 36], customData |-> Json]],
     Response |-> [required |-> [status |-> DERControlStatusEnum],
        optional |-> [statusInfo |-> StatusInfo, customData |-> Json]]]
ClearTariffsMessage ==
    [Request |-> [required |-> NoFields, optional |-> [tariffIds |-> [many |-> [ci |-> 60]],
        evseId |-> Int, customData |-> Json]],
     Response |-> [required |-> [clearTariffsResult |-> [many |-> ClearTariffsResult]],
        optional |-> [customData |-> Json]]]
ClosePeriodicEventStreamMessage ==
    [Request |-> [required |-> [id |-> Int], optional |-> [customData |-> Json]],
     Response |-> [required |-> NoFields, optional |-> [customData |-> Json]]]
GetCertificateChainStatusMessage ==
    [Request |-> [required |-> [certificateStatusRequests |-> [many |-> CertificateStatusRequestInfo]],
        optional |-> [customData |-> Json]],
     Response |-> [required |-> [certificateStatus |-> [many |-> CertificateStatus]],
        optional |-> [customData |-> Json]]]
GetDERControlMessage ==
    [Request |-> [required |-> [requestId |-> Int], optional |-> [isDefault |-> Bool,
        controlType |-> DERControlEnum, controlId |-> [ci |-> 36], customData |-> Json]],
     Response |-> [required |-> [status |-> DERControlStatusEnum],
        optional |-> [statusInfo |-> StatusInfo, customData |-> Json]]]
GetPeriodicEventStreamMessage ==
    [Request |-> [required |-> NoFields, optional |-> [customData |-> Json]],
     Response |-> [required |-> NoFields,
        optional |-> [constantStreamData |-> [many |-> ConstantStreamData],
        customData |-> Json]]]
GetTariffsMessage ==
    [Request |-> [required |-> [evseId |-> Int], optional |-> [customData |-> Json]],
     Response |-> [required |-> [status |-> TariffGetStatusEnum],
        optional |-> [statusInfo |-> StatusInfo,
        tariffAssignments |-> [many |-> TariffAssignment], customData |-> Json]]]
NotifyAllowedEnergyTransferMessage ==
    [Request |-> [required |-> [transactionId |-> [ci |-> 36],
        allowedEnergyTransfer |-> [many |-> EnergyTransferModeEnum]],
        optional |-> [customData |-> Json]],
     Response |-> [required |-> [status |-> NotifyAllowedEnergyTransferStatusEnum],
        optional |-> [statusInfo |-> StatusInfo, customData |-> Json]]]
NotifyDERAlarmMessage ==
    [Request |-> [required |-> [controlType |-> DERControlEnum, timestamp |-> DateTime],
        optional |-> [gridEventFault |-> GridEventFaultEnum, alarmEnded |-> Bool,
        extraInfo |-> [ci |-> 200], customData |-> Json]],
     Response |-> [required |-> NoFields, optional |-> [customData |-> Json]]]
NotifyDERStartStopMessage ==
    [Request |-> [required |-> [controlId |-> [ci |-> 36], started |-> Bool,
        timestamp |-> DateTime], optional |-> [supersededIds |-> [many |-> [ci |-> 36]],
        customData |-> Json]],
     Response |-> [required |-> NoFields, optional |-> [customData |-> Json]]]
NotifyPeriodicEventStreamMessage == [required |-> [data |-> [many |-> StreamDataElement],
    id |-> Int, pending |-> Int, basetime |-> DateTime], optional |-> [customData |-> Json]]
NotifyPriorityChargingMessage ==
    [Request |-> [required |-> [transactionId |-> [ci |-> 36], activated |-> Bool],
        optional |-> [customData |-> Json]],
     Response |-> [required |-> NoFields, optional |-> [customData |-> Json]]]
NotifySettlementMessage ==
    [Request |-> [required |-> [pspRef |-> [ci |-> 255], status |-> PaymentStatusEnum,
        settlementAmount |-> Float, settlementTime |-> DateTime],
        optional |-> [transactionId |-> [ci |-> 36], statusInfo |-> [ci |-> 500],
        receiptId |-> [ci |-> 50], receiptUrl |-> [ci |-> 2000], vatCompany |-> Address,
        vatNumber |-> [ci |-> 20], customData |-> Json]],
     Response |-> [required |-> NoFields, optional |-> [receiptUrl |-> [ci |-> 2000],
        receiptId |-> [ci |-> 50], customData |-> Json]]]
NotifyWebPaymentStartedMessage ==
    [Request |-> [required |-> [evseId |-> Int, timeout |-> Int],
        optional |-> [customData |-> Json]],
     Response |-> [required |-> NoFields, optional |-> [customData |-> Json]]]
OpenPeriodicEventStreamMessage ==
    [Request |-> [required |-> [constantStreamData |-> ConstantStreamData],
        optional |-> [customData |-> Json]],
     Response |-> [required |-> [status |-> GenericStatusEnum],
        optional |-> [statusInfo |-> StatusInfo, customData |-> Json]]]
PullDynamicScheduleUpdateMessage ==
    [Request |-> [required |-> [chargingProfileId |-> Int], optional |-> [customData |-> Json]],
     Response |-> [required |-> [status |-> ChargingProfileStatusEnum],
        optional |-> [scheduleUpdate |-> ChargingScheduleUpdate, statusInfo |-> StatusInfo,
        customData |-> Json]]]
ReportDERControlMessage ==
    [Request |-> [required |-> [requestId |-> Int],
        optional |-> [curve |-> [many |-> DERCurveGet],
        enterService |-> [many |-> EnterServiceGet], fixedPFAbsorb |-> [many |-> FixedPFGet],
        fixedPFInject |-> [many |-> FixedPFGet], fixedVar |-> [many |-> FixedVarGet],
        freqDroop |-> [many |-> FreqDroopGet], gradient |-> [many |-> GradientGet],
        limitMaxDischarge |-> [many |-> LimitMaxDischargeGet], tbc |-> Bool,
        customData |-> Json]],
     Response |-> [required |-> NoFields, optional |-> [customData |-> Json]]]
RequestBatterySwapMessage ==
    [Request |-> [required |-> [idToken |-> IdToken, requestId |-> Int],
        optional |-> [customData |-> Json]],
     Response |-> [required |-> [status |-> GenericStatusEnum],
        optional |-> [statusInfo |-> StatusInfo, customData |-> Json]]]
SetDERControlMessage ==
    [Request |-> [required |-> [isDefault |-> Bool, controlId |-> [ci |-> 36],
        controlType |-> DERControlEnum], optional |-> [curve |-> DERCurve,
        enterService |-> EnterService, fixedPFAbsorb |-> FixedPF, fixedPFInject |-> FixedPF,
        fixedVar |-> FixedVar, freqDroop |-> FreqDroop, gradient |-> Gradient,
        limitMaxDischarge |-> LimitMaxDischarge, customData |-> Json]],
     Response |-> [required |-> [status |-> DERControlStatusEnum],
        optional |-> [statusInfo |-> StatusInfo, supersededIds |-> [many |-> [ci |-> 36]],
        customData |-> Json]]]
SetDefaultTariffMessage ==
    [Request |-> [required |-> [evseId |-> Int, tariff |-> Tariff],
        optional |-> [customData |-> Json]],
     Response |-> [required |-> [status |-> TariffSetStatusEnum],
        optional |-> [statusInfo |-> StatusInfo, customData |-> Json]]]
UpdateDynamicScheduleMessage ==
    [Request |-> [required |-> [chargingProfileId |-> Int,
        scheduleUpdate |-> ChargingScheduleUpdate], optional |-> [customData |-> Json]],
     Response |-> [required |-> [status |-> ChargingProfileStatusEnum],
        optional |-> [statusInfo |-> StatusInfo, customData |-> Json]]]
UsePriorityChargingMessage ==
    [Request |-> [required |-> [transactionId |-> [ci |-> 36], activate |-> Bool],
        optional |-> [customData |-> Json]],
     Response |-> [required |-> [status |-> PriorityChargingStatusEnum],
        optional |-> [statusInfo |-> StatusInfo, customData |-> Json]]]
VatNumberValidationMessage ==
    [Request |-> [required |-> [vatNumber |-> [ci |-> 20]], optional |-> [evseId |-> Int,
        customData |-> Json]],
     Response |-> [required |-> [vatNumber |-> [ci |-> 20], status |-> GenericStatusEnum],
        optional |-> [company |-> Address, statusInfo |-> StatusInfo, evseId |-> Int,
        customData |-> Json]]]
AllMessages2 == [AuthorizeRequest |-> AuthorizeMessage.Request,
    AuthorizeResponse |-> AuthorizeMessage.Response,
    BootNotificationRequest |-> BootNotificationMessage.Request,
    BootNotificationResponse |-> BootNotificationMessage.Response,
    CancelReservationRequest |-> CancelReservationMessage.Request,
    CancelReservationResponse |-> CancelReservationMessage.Response,
    CertificateSignedRequest |-> CertificateSignedMessage.Request,
    CertificateSignedResponse |-> CertificateSignedMessage.Response,
    ChangeAvailabilityRequest |-> ChangeAvailabilityMessage.Request,
    ChangeAvailabilityResponse |-> ChangeAvailabilityMessage.Response,
    ClearCacheRequest |-> ClearCacheMessage.Request,
    ClearCacheResponse |-> ClearCacheMessage.Response,
    ClearChargingProfileRequest |-> ClearChargingProfileMessage.Request,
    ClearChargingProfileResponse |-> ClearChargingProfileMessage.Response,
    ClearDisplayMessageRequest |-> ClearDisplayMessageMessage.Request,
    ClearDisplayMessageResponse |-> ClearDisplayMessageMessage.Response,
    ClearVariableMonitoringRequest |-> ClearVariableMonitoringMessage.Request,
    ClearVariableMonitoringResponse |-> ClearVariableMonitoringMessage.Response,
    ClearedChargingLimitRequest |-> ClearedChargingLimitMessage.Request,
    ClearedChargingLimitResponse |-> ClearedChargingLimitMessage.Response,
    CostUpdatedRequest |-> CostUpdatedMessage.Request,
    CostUpdatedResponse |-> CostUpdatedMessage.Response,
    CustomerInformationRequest |-> CustomerInformationMessage.Request,
    CustomerInformationResponse |-> CustomerInformationMessage.Response,
    DataTransferRequest |-> DataTransferMessage.Request,
    DataTransferResponse |-> DataTransferMessage.Response,
    DeleteCertificateRequest |-> DeleteCertificateMessage.Request,
    DeleteCertificateResponse |-> DeleteCertificateMessage.Response,
    FirmwareStatusNotificationRequest |-> FirmwareStatusNotificationMessage.Request,
    FirmwareStatusNotificationResponse |-> FirmwareStatusNotificationMessage.Response,
    Get15118EVCertificateRequest |-> Get15118EVCertificateMessage.Request,
    Get15118EVCertificateResponse |-> Get15118EVCertificateMessage.Response,
    GetBaseReportRequest |-> GetBaseReportMessage.Request,
    GetBaseReportResponse |-> GetBaseReportMessage.Response,
    GetCertificateStatusRequest |-> GetCertificateStatusMessage.Request,
    GetCertificateStatusResponse |-> GetCertificateStatusMessage.Response,
    GetChargingProfilesRequest |-> GetChargingProfilesMessage.Request,
    GetChargingProfilesResponse |-> GetChargingProfilesMessage.Response,
    GetCompositeScheduleRequest |-> GetCompositeScheduleMessage.Request,
    GetCompositeScheduleResponse |-> GetCompositeScheduleMessage.Response,
    GetDisplayMessagesRequest |-> GetDisplayMessagesMessage.Request,
    GetDisplayMessagesResponse |-> GetDisplayMessagesMessage.Response,
    GetInstalledCertificateIdsRequest |-> GetInstalledCertificateIdsMessage.Request,
    GetInstalledCertificateIdsResponse |-> GetInstalledCertificateIdsMessage.Response,
    GetLocalListVersionRequest |-> GetLocalListVersionMessage.Request,
    GetLocalListVersionResponse |-> GetLocalListVersionMessage.Response,
    GetLogRequest |-> GetLogMessage.Request, GetLogResponse |-> GetLogMessage.Response,
    GetMonitoringReportRequest |-> GetMonitoringReportMessage.Request,
    GetMonitoringReportResponse |-> GetMonitoringReportMessage.Response,
    GetReportRequest |-> GetReportMessage.Request,
    GetReportResponse |-> GetReportMessage.Response,
    GetTransactionStatusRequest |-> GetTransactionStatusMessage.Request,
    GetTransactionStatusResponse |-> GetTransactionStatusMessage.Response,
    GetVariablesRequest |-> GetVariablesMessage.Request,
    GetVariablesResponse |-> GetVariablesMessage.Response,
    HeartbeatRequest |-> HeartbeatMessage.Request,
    HeartbeatResponse |-> HeartbeatMessage.Response,
    InstallCertificateRequest |-> InstallCertificateMessage.Request,
    InstallCertificateResponse |-> InstallCertificateMessage.Response,
    LogStatusNotificationRequest |-> LogStatusNotificationMessage.Request,
    LogStatusNotificationResponse |-> LogStatusNotificationMessage.Response,
    MeterValuesRequest |-> MeterValuesMessage.Request,
    MeterValuesResponse |-> MeterValuesMessage.Response,
    NotifyChargingLimitRequest |-> NotifyChargingLimitMessage.Request,
    NotifyChargingLimitResponse |-> NotifyChargingLimitMessage.Response,
    NotifyCustomerInformationRequest |-> NotifyCustomerInformationMessage.Request,
    NotifyCustomerInformationResponse |-> NotifyCustomerInformationMessage.Response,
    NotifyDisplayMessagesRequest |-> NotifyDisplayMessagesMessage.Request,
    NotifyDisplayMessagesResponse |-> NotifyDisplayMessagesMessage.Response,
    NotifyEVChargingNeedsRequest |-> NotifyEVChargingNeedsMessage.Request,
    NotifyEVChargingNeedsResponse |-> NotifyEVChargingNeedsMessage.Response,
    NotifyEVChargingScheduleRequest |-> NotifyEVChargingScheduleMessage.Request,
    NotifyEVChargingScheduleResponse |-> NotifyEVChargingScheduleMessage.Response,
    NotifyEventRequest |-> NotifyEventMessage.Request,
    NotifyEventResponse |-> NotifyEventMessage.Response,
    NotifyMonitoringReportRequest |-> NotifyMonitoringReportMessage.Request,
    NotifyMonitoringReportResponse |-> NotifyMonitoringReportMessage.Response,
    NotifyReportRequest |-> NotifyReportMessage.Request,
    NotifyReportResponse |-> NotifyReportMessage.Response,
    PublishFirmwareRequest |-> PublishFirmwareMessage.Request,
    PublishFirmwareResponse |-> PublishFirmwareMessage.Response,
    PublishFirmwareStatusNotificationRequest |-> PublishFirmwareStatusNotificationMessage.Request,
    PublishFirmwareStatusNotificationResponse |-> PublishFirmwareStatusNotificationMessage.Response,
    ReportChargingProfilesRequest |-> ReportChargingProfilesMessage.Request,
    ReportChargingProfilesResponse |-> ReportChargingProfilesMessage.Response,
    RequestStartTransactionRequest |-> RequestStartTransactionMessage.Request,
    RequestStartTransactionResponse |-> RequestStartTransactionMessage.Response,
    RequestStopTransactionRequest |-> RequestStopTransactionMessage.Request,
    RequestStopTransactionResponse |-> RequestStopTransactionMessage.Response,
    ReservationStatusUpdateRequest |-> ReservationStatusUpdateMessage.Request,
    ReservationStatusUpdateResponse |-> ReservationStatusUpdateMessage.Response,
    ReserveNowRequest |-> ReserveNowMessage.Request,
    ReserveNowResponse |-> ReserveNowMessage.Response, ResetRequest |-> ResetMessage.Request,
    ResetResponse |-> ResetMessage.Response,
    SecurityEventNotificationRequest |-> SecurityEventNotificationMessage.Request,
    SecurityEventNotificationResponse |-> SecurityEventNotificationMessage.Response,
    SendLocalListRequest |-> SendLocalListMessage.Request,
    SendLocalListResponse |-> SendLocalListMessage.Response,
    SetChargingProfileRequest |-> SetChargingProfileMessage.Request,
    SetChargingProfileResponse |-> SetChargingProfileMessage.Response,
    SetDisplayMessageRequest |-> SetDisplayMessageMessage.Request,
    SetDisplayMessageResponse |-> SetDisplayMessageMessage.Response,
    SetMonitoringBaseRequest |-> SetMonitoringBaseMessage.Request,
    SetMonitoringBaseResponse |-> SetMonitoringBaseMessage.Response,
    SetMonitoringLevelRequest |-> SetMonitoringLevelMessage.Request,
    SetMonitoringLevelResponse |-> SetMonitoringLevelMessage.Response,
    SetNetworkProfileRequest |-> SetNetworkProfileMessage.Request,
    SetNetworkProfileResponse |-> SetNetworkProfileMessage.Response,
    SetVariableMonitoringRequest |-> SetVariableMonitoringMessage.Request,
    SetVariableMonitoringResponse |-> SetVariableMonitoringMessage.Response,
    SetVariablesRequest |-> SetVariablesMessage.Request,
    SetVariablesResponse |-> SetVariablesMessage.Response,
    SignCertificateRequest |-> SignCertificateMessage.Request,
    SignCertificateResponse |-> SignCertificateMessage.Response,
    StatusNotificationRequest |-> StatusNotificationMessage.Request,
    StatusNotificationResponse |-> StatusNotificationMessage.Response,
    TransactionEventRequest |-> TransactionEventMessage.Request,
    TransactionEventResponse |-> TransactionEventMessage.Response,
    TriggerMessageRequest |-> TriggerMessageMessage.Request,
    TriggerMessageResponse |-> TriggerMessageMessage.Response,
    UnlockConnectorRequest |-> UnlockConnectorMessage.Request,
    UnlockConnectorResponse |-> UnlockConnectorMessage.Response,
    UnpublishFirmwareRequest |-> UnpublishFirmwareMessage.Request,
    UnpublishFirmwareResponse |-> UnpublishFirmwareMessage.Response,
    UpdateFirmwareRequest |-> UpdateFirmwareMessage.Request,
    UpdateFirmwareResponse |-> UpdateFirmwareMessage.Response,
    AFRRSignalRequest |-> AFRRSignalMessage.Request,
    AFRRSignalResponse |-> AFRRSignalMessage.Response,
    AdjustPeriodicEventStreamRequest |-> AdjustPeriodicEventStreamMessage.Request,
    AdjustPeriodicEventStreamResponse |-> AdjustPeriodicEventStreamMessage.Response,
    BatterySwapRequest |-> BatterySwapMessage.Request,
    BatterySwapResponse |-> BatterySwapMessage.Response,
    ChangeTransactionTariffRequest |-> ChangeTransactionTariffMessage.Request,
    ChangeTransactionTariffResponse |-> ChangeTransactionTariffMessage.Response,
    ClearDERControlRequest |-> ClearDERControlMessage.Request,
    ClearDERControlResponse |-> ClearDERControlMessage.Response,
    ClearTariffsRequest |-> ClearTariffsMessage.Request,
    ClearTariffsResponse |-> ClearTariffsMessage.Response,
    ClosePeriodicEventStreamRequest |-> ClosePeriodicEventStreamMessage.Request,
    ClosePeriodicEventStreamResponse |-> ClosePeriodicEventStreamMessage.Response,
    GetCertificateChainStatusRequest |-> GetCertificateChainStatusMessage.Request,
    GetCertificateChainStatusResponse |-> GetCertificateChainStatusMessage.Response,
    GetDERControlRequest |-> GetDERControlMessage.Request,
    GetDERControlResponse |-> GetDERControlMessage.Response,
    GetPeriodicEventStreamRequest |-> GetPeriodicEventStreamMessage.Request,
    GetPeriodicEventStreamResponse |-> GetPeriodicEventStreamMessage.Response,
    GetTariffsRequest |-> GetTariffsMessage.Request,
    GetTariffsResponse |-> GetTariffsMessage.Response,
    NotifyAllowedEnergyTransferRequest |-> NotifyAllowedEnergyTransferMessage.Request,
    NotifyAllowedEnergyTransferResponse |-> NotifyAllowedEnergyTransferMessage.Response,
    NotifyDERAlarmRequest |-> NotifyDERAlarmMessage.Request,
    NotifyDERAlarmResponse |-> NotifyDERAlarmMessage.Response,
    NotifyDERStartStopRequest |-> NotifyDERStartStopMessage.Request,
    NotifyDERStartStopResponse |-> NotifyDERStartStopMessage.Response,
    NotifyPeriodicEventStreamMessage |-> NotifyPeriodicEventStreamMessage,
    NotifyPriorityChargingRequest |-> NotifyPriorityChargingMessage.Request,
    NotifyPriorityChargingResponse |-> NotifyPriorityChargingMessage.Response,
    NotifySettlementRequest |-> NotifySettlementMessage.Request,
    NotifySettlementResponse |-> NotifySettlementMessage.Response,
    NotifyWebPaymentStartedRequest |-> NotifyWebPaymentStartedMessage.Request,
    NotifyWebPaymentStartedResponse |-> NotifyWebPaymentStartedMessage.Response,
    OpenPeriodicEventStreamRequest |-> OpenPeriodicEventStreamMessage.Request,
    OpenPeriodicEventStreamResponse |-> OpenPeriodicEventStreamMessage.Response,
    PullDynamicScheduleUpdateRequest |-> PullDynamicScheduleUpdateMessage.Request,
    PullDynamicScheduleUpdateResponse |-> PullDynamicScheduleUpdateMessage.Response,
    ReportDERControlRequest |-> ReportDERControlMessage.Request,
    ReportDERControlResponse |-> ReportDERControlMessage.Response,
    RequestBatterySwapRequest |-> RequestBatterySwapMessage.Request,
    RequestBatterySwapResponse |-> RequestBatterySwapMessage.Response,
    SetDERControlRequest |-> SetDERControlMessage.Request,
    SetDERControlResponse |-> SetDERControlMessage.Response,
    SetDefaultTariffRequest |-> SetDefaultTariffMessage.Request,
    SetDefaultTariffResponse |-> SetDefaultTariffMessage.Response,
    UpdateDynamicScheduleRequest |-> UpdateDynamicScheduleMessage.Request,
    UpdateDynamicScheduleResponse |-> UpdateDynamicScheduleMessage.Response,
    UsePriorityChargingRequest |-> UsePriorityChargingMessage.Request,
    UsePriorityChargingResponse |-> UsePriorityChargingMessage.Response,
    VatNumberValidationRequest |-> VatNumberValidationMessage.Request,
    VatNumberValidationResponse |-> VatNumberValidationMessage.Response]
==============================================================================
