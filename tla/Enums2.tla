----------------------------------- MODULE Enums2 -----------------------------------
(* OCPP 2.0.1 and 2.1: the enums. *)
EXTENDS Codec

GenericStatusEnum == [enum |-> <<"Accepted", "Rejected">>]
HashAlgorithmEnum == [enum |-> <<"SHA256", "SHA384", "SHA512">>]
AuthorizationStatusEnum == [enum |-> <<"Accepted", "Blocked", "ConcurrentTx", "Expired", "Invalid",
    "NoCredit", "NotAllowedTypeEVSE", "NotAtThisLocation", "NotAtThisTime", "Unknown">>]
MessageFormatEnum == [enum |-> <<"ASCII", "HTML", "URI", "UTF8", "QRCODE">>]
AuthorizeCertificateStatusEnum == [enum |-> <<"Accepted", "SignatureError", "CertificateExpired",
    "CertificateRevoked", "NoCertificateAvailable", "CertChainError", "ContractCancelled">>]
EnergyTransferModeEnum == [enum |-> <<"AC_single_phase", "AC_two_phase", "AC_three_phase", "DC",
    "AC_BPT", "AC_BPT_DER", "AC_DER", "DC_BPT", "DC_ACDP", "DC_ACDP_BPT", "WPT">>]
DayOfWeekEnum == [enum |-> <<"Monday", "Tuesday", "Wednesday", "Thursday", "Friday", "Saturday",
    "Sunday">>]
EvseKindEnum == [enum |-> <<"AC", "DC">>]
BatterySwapEventEnum == [enum |-> <<"BatteryIn", "BatteryOut", "BatteryOutTimeout">>]
BootReasonEnum == [enum |-> <<"ApplicationReset", "FirmwareUpdate", "LocalReset", "PowerUp",
    "RemoteReset", "ScheduledReset", "Triggered", "Unknown", "Watchdog">>]
RegistrationStatusEnum == [enum |-> <<"Accepted", "Pending", "Rejected">>]
CancelReservationStatusEnum == [enum |-> <<"Accepted", "Rejected">>]
CertificateSigningUseEnum == [enum |-> <<"ChargingStationCertificate", "V2GCertificate",
    "V2G20Certificate">>]
CertificateSignedStatusEnum == [enum |-> <<"Accepted", "Rejected">>]
OperationalStatusEnum == [enum |-> <<"Inoperative", "Operative">>]
ChangeAvailabilityStatusEnum == [enum |-> <<"Accepted", "Rejected", "Scheduled">>]
TariffChangeStatusEnum == [enum |-> <<"Accepted", "Rejected", "TooManyElements",
    "ConditionNotSupported", "TxNotFound", "NoCurrencyChange">>]
ClearCacheStatusEnum == [enum |-> <<"Accepted", "Rejected">>]
ChargingProfilePurposeEnum == [enum |-> <<"ChargingStationExternalConstraints",
    "ChargingStationMaxProfile", "TxDefaultProfile", "TxProfile", "PriorityCharging",
    "LocalGeneration">>]
ClearChargingProfileStatusEnum == [enum |-> <<"Accepted", "Unknown">>]
DERControlEnum == [enum |-> <<"EnterService", "FreqDroop", "FreqWatt", "FixedPFAbsorb",
    "FixedPFInject", "FixedVar", "Gradients", "HFMustTrip", "HFMayTrip", "HVMustTrip", "HVMomCess",
    "HVMayTrip", "LimitMaxDischarge", "LFMustTrip", "LVMustTrip", "LVMomCess", "LVMayTrip",
    "PowerMonitoringMustTrip", "VoltVar", "VoltWatt", "WattPF", "WattVar">>]
DERControlStatusEnum == [enum |-> <<"Accepted", "Rejected", "NotSupported", "NotFound">>]
ClearMessageStatusEnum == [enum |-> <<"Accepted", "Unknown", "Rejected">>]
TariffClearStatusEnum == [enum |-> <<"Accepted", "Rejected", "NoTariff">>]
ClearMonitoringStatusEnum == [enum |-> <<"Accepted", "Rejected", "NotFound">>]
CustomerInformationStatusEnum == [enum |-> <<"Accepted", "Rejected", "Invalid">>]
DataTransferStatusEnum == [enum |-> <<"Accepted", "Rejected", "UnknownMessageId",
    "UnknownVendorId">>]
DeleteCertificateStatusEnum == [enum |-> <<"Accepted", "Failed", "NotFound">>]
FirmwareStatusEnum == [enum |-> <<"Downloaded", "DownloadFailed", "Downloading",
    "DownloadScheduled", "DownloadPaused", "Idle", "InstallationFailed", "Installing", "Installed",
    "InstallRebooting", "InstallScheduled", "InstallVerificationFailed", "InvalidSignature",
    "SignatureVerified">>]
CertificateActionEnum == [enum |-> <<"Install", "Update">>]
Iso15118EVCertificateStatusEnum == [enum |-> <<"Accepted", "Failed">>]
ReportBaseEnum == [enum |-> <<"ConfigurationInventory", "FullInventory", "SummaryInventory">>]
GenericDeviceModelStatusEnum == [enum |-> <<"Accepted", "Rejected", "NotSupported",
    "EmptyResultSet">>]
CertificateStatusSourceEnum == [enum |-> <<"CRL", "OCSP">>]
CertificateStatusEnum == [enum |-> <<"Good", "Revoked", "Unknown", "Failed">>]
GetCertificateStatusEnum == [enum |-> <<"Accepted", "Failed">>]
GetChargingProfileStatusEnum == [enum |-> <<"Accepted", "NoProfiles">>]
ChargingRateUnitEnum == [enum |-> <<"W", "A">>]
OperationModeEnum == [enum |-> <<"Idle", "ChargingOnly", "CentralSetpoint", "ExternalSetpoint",
    "ExternalLimits", "CentralFrequency", "LocalFrequency", "LocalLoadBalancing">>]
MessagePriorityEnum == [enum |-> <<"AlwaysFront", "InFront", "NormalCycle">>]
MessageStateEnum == [enum |-> <<"Charging", "Faulted", "Idle", "Unavailable", "Suspended",
    "Discharging">>]
GetDisplayMessagesStatusEnum == [enum |-> <<"Accepted", "Unknown">>]
GetCertificateIdUseEnum == [enum |-> <<"V2GRootCertificate", "MORootCertificate",
    "CSMSRootCertificate", "V2GCertificateChain", "ManufacturerRootCertificate",
    "OEMRootCertificate">>]
GetInstalledCertificateStatusEnum == [enum |-> <<"Accepted", "NotFound">>]
LogEnum == [enum |-> <<"DiagnosticsLog", "SecurityLog", "DataCollectorLog">>]
LogStatusEnum == [enum |-> <<"Accepted", "Rejected", "AcceptedCanceled">>]
MonitoringCriterionEnum == [enum |-> <<"ThresholdMonitoring", "DeltaMonitoring",
    "PeriodicMonitoring">>]
ComponentCriterionEnum == [enum |-> <<"Active", "Available", "Enabled", "Problem">>]
TariffGetStatusEnum == [enum |-> <<"Accepted", "Rejected", "NoTariff">>]
TariffKindEnum == [enum |-> <<"DefaultTariff", "DriverTariff">>]
AttributeEnum == [enum |-> <<"Actual", "Target", "MinSet", "MaxSet">>]
GetVariableStatusEnum == [enum |-> <<"Accepted", "Rejected", "UnknownComponent", "UnknownVariable",
    "NotSupportedAttributeType">>]
InstallCertificateUseEnum == [enum |-> <<"V2GRootCertificate", "MORootCertificate",
    "ManufacturerRootCertificate", "CSMSRootCertificate", "OEMRootCertificate">>]
InstallCertificateStatusEnum == [enum |-> <<"Accepted", "Rejected", "Failed">>]
UploadLogStatusEnum == [enum |-> <<"BadMessage", "Idle", "NotSupportedOperation",
    "PermissionDenied", "Uploaded", "UploadFailure", "Uploading", "AcceptedCanceled">>]
MeasurandEnum == [enum |-> <<"Current.Export", "Current.Export.Offered", "Current.Export.Minimum",
    "Current.Import", "Current.Import.Offered", "Current.Import.Minimum", "Current.Offered",
    "Display.PresentSOC", "Display.MinimumSOC", "Display.TargetSOC", "Display.MaximumSOC",
    "Display.RemainingTimeToMinimumSOC", "Display.RemainingTimeToTargetSOC",
    "Display.RemainingTimeToMaximumSOC", "Display.ChargingComplete",
    "Display.BatteryEnergyCapacity", "Display.InletHot", "Energy.Active.Export.Interval",
    "Energy.Active.Export.Register", "Energy.Active.Import.Interval",
    "Energy.Active.Import.Register", "Energy.Active.Import.CableLoss",
    "Energy.Active.Import.LocalGeneration.Register", "Energy.Active.Net",
    "Energy.Active.Setpoint.Interval", "Energy.Apparent.Export", "Energy.Apparent.Import",
    "Energy.Apparent.Net", "Energy.Reactive.Export.Interval", "Energy.Reactive.Export.Register",
    "Energy.Reactive.Import.Interval", "Energy.Reactive.Import.Register", "Energy.Reactive.Net",
    "EnergyRequest.Target", "EnergyRequest.Minimum", "EnergyRequest.Maximum",
    "EnergyRequest.Minimum.V2X", "EnergyRequest.Maximum.V2X", "EnergyRequest.Bulk", "Frequency",
    "Power.Active.Export", "Power.Active.Import", "Power.Active.Setpoint", "Power.Active.Residual",
    "Power.Export.Minimum", "Power.Export.Offered", "Power.Factor", "Power.Import.Offered",
    "Power.Import.Minimum", "Power.Offered", "Power.Reactive.Export", "Power.Reactive.Import",
    "SoC", "Voltage", "Voltage.Minimum", "Voltage.Maximum">>]
ReadingContextEnum == [enum |-> <<"Interruption.Begin", "Interruption.End", "Other", "Sample.Clock",
    "Sample.Periodic", "Transaction.Begin", "Transaction.End", "Trigger">>]
PhaseEnum == [enum |-> <<"L1", "L2", "L3", "N", "L1-N", "L2-N", "L3-N", "L1-L2", "L2-L3", "L3-L1">>]
LocationEnum == [enum |-> <<"Body", "Cable", "EV", "Inlet", "Outlet", "Upstream">>]
NotifyAllowedEnergyTransferStatusEnum == [enum |-> <<"Accepted", "Rejected">>]
CostKindEnum == [enum |-> <<"CarbonDioxideEmission", "RelativePricePercentage",
    "RenewableGenerationPercentage">>]
GridEventFaultEnum == [enum |-> <<"CurrentImbalance", "LocalEmergency", "LowInputPower",
    "OverCurrent", "OverFrequency", "OverVoltage", "PhaseRotation", "RemoteEmergency",
    "UnderFrequency", "UnderVoltage", "VoltageImbalance">>]
IslandingDetectionEnum == [enum |-> <<"NoAntiIslandingSupport", "RoCoF", "UVP_OVP", "UFP_OFP",
    "VoltageVectorShift", "ZeroCrossingDetection", "OtherPassive", "ImpedanceMeasurement",
    "ImpedanceAtFrequency", "SlipModeFrequencyShift", "SandiaFrequencyShift", "SandiaVoltageShift",
    "FrequencyJump", "RCLQFactor", "OtherActive">>]
ControlModeEnum == [enum |-> <<"ScheduledControl", "DynamicControl">>]
MobilityNeedsModeEnum == [enum |-> <<"EVCC", "EVCC_SECC">>]
NotifyEVChargingNeedsStatusEnum == [enum |-> <<"Accepted", "Rejected", "Processing",
    "NoChargingProfile">>]
EventTriggerEnum == [enum |-> <<"Alerting", "Delta", "Periodic">>]
EventNotificationEnum == [enum |-> <<"HardWiredNotification", "HardWiredMonitor",
    "PreconfiguredMonitor", "CustomMonitor">>]
MonitorEnum == [enum |-> <<"UpperThreshold", "LowerThreshold", "Delta", "Periodic",
    "PeriodicClockAligned", "TargetDelta", "TargetDeltaRelative">>]
MutabilityEnum == [enum |-> <<"ReadOnly", "WriteOnly", "ReadWrite">>]
DataEnum == [enum |-> <<"string", "decimal", "integer", "dateTime", "boolean", "OptionList",
    "SequenceList", "MemberList">>]
PaymentStatusEnum == [enum |-> <<"Settled", "Canceled", "Rejected", "Failed">>]
PublishFirmwareStatusEnum == [enum |-> <<"Idle", "DownloadScheduled", "Downloading", "Downloaded",
    "Published", "DownloadFailed", "DownloadPaused", "InvalidChecksum", "ChecksumVerified",
    "PublishFailed">>]
ChargingProfileStatusEnum == [enum |-> <<"Accepted", "Rejected">>]
ChargingProfileKindEnum == [enum |-> <<"Absolute", "Recurring", "Relative", "Dynamic">>]
RecurrencyKindEnum == [enum |-> <<"Daily", "Weekly">>]
PowerDuringCessationEnum == [enum |-> <<"Active", "Reactive">>]
DERUnitEnum == [enum |-> <<"Not_Applicable", "PctMaxW", "PctMaxVar", "PctWAvail", "PctVarAvail",
    "PctEffectiveV">>]
RequestStartStopStatusEnum == [enum |-> <<"Accepted", "Rejected">>]
ReservationUpdateStatusEnum == [enum |-> <<"Expired", "Removed", "NoTransaction">>]
ReserveNowStatusEnum == [enum |-> <<"Accepted", "Faulted", "Occupied", "Rejected", "Unavailable">>]
ResetEnum == [enum |-> <<"Immediate", "OnIdle", "ImmediateAndResume">>]
ResetStatusEnum == [enum |-> <<"Accepted", "Rejected", "Scheduled">>]
UpdateEnum == [enum |-> <<"Differential", "Full">>]
SendLocalListStatusEnum == [enum |-> <<"Accepted", "Failed", "VersionMismatch">>]
TariffSetStatusEnum == [enum |-> <<"Accepted", "Rejected", "TooManyElements",
    "ConditionNotSupported", "DuplicateTariffId">>]
DisplayMessageStatusEnum == [enum |-> <<"Accepted", "NotSupportedMessageFormat", "Rejected",
    "NotSupportedPriority", "NotSupportedState", "UnknownTransaction", "LanguageNotSupported">>]
MonitoringBaseEnum == [enum |-> <<"All", "FactoryDefault", "HardWiredOnly">>]
APNAuthenticationEnum == [enum |-> <<"PAP", "CHAP", "NONE", "AUTO">>]
OCPPVersionEnum == [enum |-> <<"OCPP12", "OCPP15", "OCPP16", "OCPP20", "OCPP201", "OCPP21">>]
OCPPInterfaceEnum == [enum |-> <<"Wired0", "Wired1", "Wired2", "Wired3", "Wireless0", "Wireless1",
    "Wireless2", "Wireless3", "Any">>]
OCPPTransportEnum == [enum |-> <<"SOAP", "JSON">>]
VPNEnum == [enum |-> <<"IKEv2", "IPSec", "L2TP", "PPTP">>]
SetNetworkProfileStatusEnum == [enum |-> <<"Accepted", "Rejected", "Failed">>]
SetMonitoringStatusEnum == [enum |-> <<"Accepted", "UnknownComponent", "UnknownVariable",
    "UnsupportedMonitorType", "Rejected", "Duplicate">>]
SetVariableStatusEnum == [enum |-> <<"Accepted", "Rejected", "UnknownComponent", "UnknownVariable",
    "NotSupportedAttributeType", "RebootRequired">>]
ConnectorStatusEnum == [enum |-> <<"Available", "Occupied", "Reserved", "Unavailable", "Faulted">>]
CostDimensionEnum == [enum |-> <<"Energy", "MaxCurrent", "MinCurrent", "MaxPower", "MinPower",
    "IdleTIme", "ChargingTime">>]
TariffCostEnum == [enum |-> <<"NormalCost", "MinCost", "MaxCost">>]
TransactionEventEnum == [enum |-> <<"Ended", "Started", "Updated">>]
TriggerReasonEnum == [enum |-> <<"AbnormalCondition", "Authorized", "CablePluggedIn",
    "ChargingRateChanged", "ChargingStateChanged", "CostLimitReached", "Deauthorized",
    "EnergyLimitReached", "EVCommunicationLost", "EVConnectTimeout", "EVDeparted", "EVDetected",
    "LimitSet", "MeterValueClock", "MeterValuePeriodic", "OperationModeChanged", "RemoteStart",
    "RemoteStop", "ResetCommand", "RunningCost", "SignedDataReceived", "SoCLimitReached",
    "StopAuthorized", "TariffChanged", "TariffNotAccepted", "TimeLimitReached", "Trigger",
    "TxResumed", "UnlockCommand">>]
PreconditioningStatusEnum == [enum |-> <<"Unknown", "Ready", "NotReady", "Preconditioning">>]
ChargingStateEnum == [enum |-> <<"EVConnected", "Charging", "SuspendedEV", "SuspendedEVSE",
    "Idle">>]
ReasonEnum == [enum |-> <<"DeAuthorized", "EmergencyStop", "EnergyLimitReached", "EVDisconnected",
    "GroundFault", "ImmediateReset", "MasterPass", "Local", "LocalOutOfCredit", "Other",
    "OvercurrentFault", "PowerLoss", "PowerQuality", "Reboot", "Remote", "SOCLimitReached",
    "StoppedByEV", "TimeLimitReached", "Timeout", "ReqEnergyTransferRejected">>]
MessageTriggerEnum == [enum |-> <<"BootNotification", "LogStatusNotification",
    "FirmwareStatusNotification", "Heartbeat", "MeterValues", "SignChargingStationCertificate",
    "SignV2GCertificate", "SignV2G20Certificate", "StatusNotification", "TransactionEvent",
    "SignCombinedCertificate", "PublishFirmwareStatusNotification", "CustomTrigger">>]
TriggerMessageStatusEnum == [enum |-> <<"Accepted", "Rejected", "NotImplemented">>]
UnlockStatusEnum == [enum |-> <<"Unlocked", "UnlockFailed", "OngoingAuthorizedTransaction",
    "UnknownConnector">>]
UnpublishFirmwareStatusEnum == [enum |-> <<"DownloadOngoing", "NoFirmware", "Unpublished">>]
UpdateFirmwareStatusEnum == [enum |-> <<"Accepted", "Rejected", "AcceptedCanceled",
    "InvalidCertificate", "RevokedCertificate">>]
PriorityChargingStatusEnum == [enum |-> <<"Accepted", "Rejected", "NoProfile">>]
MessageType == [enum |-> <<"Authorize", "AuthorizeResponse", "BootNotification",
    "BootNotificationResponse", "CancelReservation", "CancelReservationResponse",
    "CertificateSigned", "CertificateSignedResponse", "ChangeAvailability",
    "ChangeAvailabilityResponse", "ClearCache", "ClearCacheResponse", "ClearChargingProfile",
    "ClearChargingProfileResponse", "ClearDisplayMessage", "ClearDisplayMessageResponse",
    "ClearedChargingLimit", "ClearedChargingLimitResponse", "ClearVariableMonitoring",
    "ClearVariableMonitoringResponse", "CostUpdated", "CostUpdatedResponse", "CustomerInformation",
    "CustomerInformationResponse", "DataTransfer", "DataTransferResponse", "DeleteCertificate",
    "DeleteCertificateResponse", "FirmwareStatusNotification", "FirmwareStatusNotificationResponse",
    "Get15118EVCertificate", "Get15118EVCertificateResponse", "GetBaseReport",
    "GetBaseReportResponse", "GetCertificateStatus", "GetCertificateStatusResponse",
    "GetChargingProfiles", "GetChargingProfilesResponse", "GetCompositeSchedule",
    "GetCompositeScheduleResponse", "GetDisplayMessages", "GetDisplayMessagesResponse",
    "GetInstalledCertificateIds", "GetInstalledCertificateIdsResponse", "GetLocalListVersion",
    "GetLocalListVersionResponse", "GetLog", "GetLogResponse", "GetMonitoringReport",
    "GetMonitoringReportResponse", "GetReport", "GetReportResponse", "GetTransactionStatus",
    "GetTransactionStatusResponse", "GetVariables", "GetVariablesResponse", "Heartbeat",
    "HeartbeatResponse", "InstallCertificate", "InstallCertificateResponse",
    "LogStatusNotification", "LogStatusNotificationResponse", "MeterValues", "MeterValuesResponse",
    "NotifyChargingLimit", "NotifyChargingLimitResponse", "NotifyCustomerInformation",
    "NotifyCustomerInformationResponse", "NotifyDisplayMessages", "NotifyDisplayMessagesResponse",
    "NotifyEVChargingNeeds", "NotifyEVChargingNeedsResponse", "NotifyEVChargingSchedule",
    "NotifyEVChargingScheduleResponse", "NotifyEvent", "NotifyEventResponse",
    "NotifyMonitoringReport", "NotifyMonitoringReportResponse", "NotifyReport",
    "NotifyReportResponse", "PublishFirmware", "PublishFirmwareResponse",
    "PublishFirmwareStatusNotification", "PublishFirmwareStatusNotificationResponse",
    "ReportChargingProfiles", "ReportChargingProfilesResponse", "RequestStartTransaction",
    "RequestStartTransactionResponse", "RequestStopTransaction", "RequestStopTransactionResponse",
    "ReservationStatusUpdate", "ReservationStatusUpdateResponse", "ReserveNow",
    "ReserveNowResponse", "Reset", "ResetResponse", "SecurityEventNotification",
    "SecurityEventNotificationResponse", "SendLocalList", "SendLocalListResponse",
    "SetChargingProfile", "SetChargingProfileResponse", "SetDisplayMessage",
    "SetDisplayMessageResponse", "SetMonitoringBase", "SetMonitoringBaseResponse",
    "SetMonitoringLevel", "SetMonitoringLevelResponse", "SetNetworkProfile",
    "SetNetworkProfileResponse", "SetVariableMonitoring", "SetVariableMonitoringResponse",
    "SetVariables", "SetVariablesResponse", "SignCertificate", "SignCertificateResponse",
    "StatusNotification", "StatusNotificationResponse", "TransactionEvent",
    "TransactionEventResponse", "TriggerMessage", "TriggerMessageResponse", "UnlockConnector",
    "UnlockConnectorResponse", "UnpublishFirmware", "UnpublishFirmwareResponse", "UpdateFirmware",
    "UpdateFirmwareResponse", "AdjustPeriodicEventStream", "AdjustPeriodicEventStreamResponse",
    "AFRRSignal", "AFRRSignalResponse", "BatterySwap", "BatterySwapResponse",
    "ChangeTransactionTariff", "ChangeTransactionTariffResponse", "ClearDERControl",
    "ClearDERControlResponse", "ClearTariffs", "ClearTariffsResponse", "ClosePeriodicEventStream",
    "ClosePeriodicEventStreamResponse", "GetCRL", "GetCRLResponse", "GetDERControl",
    "GetDERControlResponse", "GetPeriodicEventStream", "GetPeriodicEventStreamResponse",
    "GetTariffs", "GetTariffsResponse", "NotifyAllowedEnergyTransfer",
    "NotifyAllowedEnergyTransferResponse", "NotifyDERAlarm", "NotifyDERAlarmResponse",
    "NotifyDERStartStop", "NotifyDERStartStopResponse", "NotifyPeriodicEventStream",
    "NotifyPeriodicEventStreamResponse", "NotifyPriorityCharging", "NotifyPriorityChargingResponse",
    "NotifySettlement", "NotifySettlementResponse", "OpenPeriodicEventStream",
    "OpenPeriodicEventStreamResponse", "PullDynamicScheduleUpdate",
    "PullDynamicScheduleUpdateResponse", "RequestBatterySwap", "RequestBatterySwapResponse",
    "SetDefaultTariff", "SetDefaultTariffResponse", "SetDERControl", "SetDERControlResponse",
    "UpdateDynamicSchedule", "UpdateDynamicScheduleResponse", "UsePriorityCharging",
    "UsePriorityChargingResponse", "VatNumberValidation", "VatNumberValidationResponse",
    "InternalError">>]

AllEnums2 == [GenericStatusEnum |-> GenericStatusEnum, HashAlgorithmEnum |-> HashAlgorithmEnum,
    AuthorizationStatusEnum |-> AuthorizationStatusEnum, MessageFormatEnum |-> MessageFormatEnum,
    AuthorizeCertificateStatusEnum |-> AuthorizeCertificateStatusEnum,
    EnergyTransferModeEnum |-> EnergyTransferModeEnum, DayOfWeekEnum |-> DayOfWeekEnum,
    EvseKindEnum |-> EvseKindEnum, BatterySwapEventEnum |-> BatterySwapEventEnum,
    BootReasonEnum |-> BootReasonEnum, RegistrationStatusEnum |-> RegistrationStatusEnum,
    CancelReservationStatusEnum |-> CancelReservationStatusEnum,
    CertificateSigningUseEnum |-> CertificateSigningUseEnum,
    CertificateSignedStatusEnum |-> CertificateSignedStatusEnum,
    OperationalStatusEnum |-> OperationalStatusEnum,
    ChangeAvailabilityStatusEnum |-> ChangeAvailabilityStatusEnum,
    TariffChangeStatusEnum |-> TariffChangeStatusEnum,
    ClearCacheStatusEnum |-> ClearCacheStatusEnum,
    ChargingProfilePurposeEnum |-> ChargingProfilePurposeEnum,
    ClearChargingProfileStatusEnum |-> ClearChargingProfileStatusEnum,
    DERControlEnum |-> DERControlEnum, DERControlStatusEnum |-> DERControlStatusEnum,
    ClearMessageStatusEnum |-> ClearMessageStatusEnum,
    TariffClearStatusEnum |-> TariffClearStatusEnum,
    ClearMonitoringStatusEnum |-> ClearMonitoringStatusEnum,
    CustomerInformationStatusEnum |-> CustomerInformationStatusEnum,
    DataTransferStatusEnum |-> DataTransferStatusEnum,
    DeleteCertificateStatusEnum |-> DeleteCertificateStatusEnum,
    FirmwareStatusEnum |-> FirmwareStatusEnum, CertificateActionEnum |-> CertificateActionEnum,
    Iso15118EVCertificateStatusEnum |-> Iso15118EVCertificateStatusEnum,
    ReportBaseEnum |-> ReportBaseEnum,
    GenericDeviceModelStatusEnum |-> GenericDeviceModelStatusEnum,
    CertificateStatusSourceEnum |-> CertificateStatusSourceEnum,
    CertificateStatusEnum |-> CertificateStatusEnum,
    GetCertificateStatusEnum |-> GetCertificateStatusEnum,
    GetChargingProfileStatusEnum |-> GetChargingProfileStatusEnum,
    ChargingRateUnitEnum |-> ChargingRateUnitEnum, OperationModeEnum |-> OperationModeEnum,
    MessagePriorityEnum |-> MessagePriorityEnum, MessageStateEnum |-> MessageStateEnum,
    GetDisplayMessagesStatusEnum |-> GetDisplayMessagesStatusEnum,
    GetCertificateIdUseEnum |-> GetCertificateIdUseEnum,
    GetInstalledCertificateStatusEnum |-> GetInstalledCertificateStatusEnum, LogEnum |-> LogEnum,
    LogStatusEnum |-> LogStatusEnum, MonitoringCriterionEnum |-> MonitoringCriterionEnum,
    ComponentCriterionEnum |-> ComponentCriterionEnum, TariffGetStatusEnum |-> TariffGetStatusEnum,
    TariffKindEnum |-> TariffKindEnum, AttributeEnum |-> AttributeEnum,
    GetVariableStatusEnum |-> GetVariableStatusEnum,
    InstallCertificateUseEnum |-> InstallCertificateUseEnum,
    InstallCertificateStatusEnum |-> InstallCertificateStatusEnum,
    UploadLogStatusEnum |-> UploadLogStatusEnum, MeasurandEnum |-> MeasurandEnum,
    ReadingContextEnum |-> ReadingContextEnum, PhaseEnum |-> PhaseEnum,
    LocationEnum |-> LocationEnum,
    NotifyAllowedEnergyTransferStatusEnum |-> NotifyAllowedEnergyTransferStatusEnum,
    CostKindEnum |-> CostKindEnum, GridEventFaultEnum |-> GridEventFaultEnum,
    IslandingDetectionEnum |-> IslandingDetectionEnum, ControlModeEnum |-> ControlModeEnum,
    MobilityNeedsModeEnum |-> MobilityNeedsModeEnum,
    NotifyEVChargingNeedsStatusEnum |-> NotifyEVChargingNeedsStatusEnum,
    EventTriggerEnum |-> EventTriggerEnum, EventNotificationEnum |-> EventNotificationEnum,
    MonitorEnum |-> MonitorEnum, MutabilityEnum |-> MutabilityEnum, DataEnum |-> DataEnum,
    PaymentStatusEnum |-> PaymentStatusEnum,
    PublishFirmwareStatusEnum |-> PublishFirmwareStatusEnum,
    ChargingProfileStatusEnum |-> ChargingProfileStatusEnum,
    ChargingProfileKindEnum |-> ChargingProfileKindEnum, RecurrencyKindEnum |-> RecurrencyKindEnum,
    PowerDuringCessationEnum |-> PowerDuringCessationEnum, DERUnitEnum |-> DERUnitEnum,
    RequestStartStopStatusEnum |-> RequestStartStopStatusEnum,
    ReservationUpdateStatusEnum |-> ReservationUpdateStatusEnum,
    ReserveNowStatusEnum |-> ReserveNowStatusEnum, ResetEnum |-> ResetEnum,
    ResetStatusEnum |-> ResetStatusEnum, UpdateEnum |-> UpdateEnum,
    SendLocalListStatusEnum |-> SendLocalListStatusEnum,
    TariffSetStatusEnum |-> TariffSetStatusEnum,
    DisplayMessageStatusEnum |-> DisplayMessageStatusEnum,
    MonitoringBaseEnum |-> MonitoringBaseEnum, APNAuthenticationEnum |-> APNAuthenticationEnum,
    OCPPVersionEnum |-> OCPPVersionEnum, OCPPInterfaceEnum |-> OCPPInterfaceEnum,
    OCPPTransportEnum |-> OCPPTransportEnum, VPNEnum |-> VPNEnum,
    SetNetworkProfileStatusEnum |-> SetNetworkProfileStatusEnum,
    SetMonitoringStatusEnum |-> SetMonitoringStatusEnum,
    SetVariableStatusEnum |-> SetVariableStatusEnum, ConnectorStatusEnum |-> ConnectorStatusEnum,
    CostDimensionEnum |-> CostDimensionEnum, TariffCostEnum |-> TariffCostEnum,
    TransactionEventEnum |-> TransactionEventEnum, TriggerReasonEnum |-> TriggerReasonEnum,
    PreconditioningStatusEnum |-> PreconditioningStatusEnum,
    ChargingStateEnum |-> ChargingStateEnum, ReasonEnum |-> ReasonEnum,
    MessageTriggerEnum |-> MessageTriggerEnum,
    TriggerMessageStatusEnum |-> TriggerMessageStatusEnum, UnlockStatusEnum |-> UnlockStatusEnum,
    UnpublishFirmwareStatusEnum |-> UnpublishFirmwareStatusEnum,
    UpdateFirmwareStatusEnum |-> UpdateFirmwareStatusEnum,
    PriorityChargingStatusEnum |-> PriorityChargingStatusEnum, MessageType |-> MessageType]
==============================================================================
