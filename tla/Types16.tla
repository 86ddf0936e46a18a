---------------------------------- MODULE Types16 ----------------------------------
(* OCPP 1.6: the enums, the types and the messages, with the fields that to_json *)
(* and from_json read and write.                                               *)
EXTENDS Codec

AuthorizationStatus16 == [enum |-> <<"Accepted", "Blocked", "Expired", "Invalid", "ConcurrentTx">>]
RegistrationStatus16 == [enum |-> <<"Accepted", "Pending", "Rejected">>]
CancelReservationStatus16 == [enum |-> <<"Accepted", "Rejected">>]
CertificateSignedStatusEnumType16 == [enum |-> <<"Accepted", "Rejected">>]
AvailabilityType16 == [enum |-> <<"Inoperative", "Operative">>]
AvailabilityStatus16 == [enum |-> <<"Accepted", "Rejected", "Scheduled">>]
ConfigurationStatus16 == [enum |-> <<"Accepted", "Rejected", "RebootRequired", "NotSupported">>]
ClearCacheStatus16 == [enum |-> <<"Accepted", "Rejected">>]
ChargingProfilePurposeType16 == [enum |-> <<"ChargePointMaxProfile", "TxDefaultProfile",
    "TxProfile">>]
ClearChargingProfileStatus16 == [enum |-> <<"Accepted", "Unknown">>]
DataTransferStatus16 == [enum |-> <<"Accepted", "Rejected", "UnknownMessageId", "UnknownVendorId">>]
HashAlgorithmEnumType16 == [enum |-> <<"SHA256", "SHA384", "SHA512">>]
DeleteCertificateStatusEnumType16 == [enum |-> <<"Accepted", "Failed", "NotFound">>]
DiagnosticsStatus16 == [enum |-> <<"Idle", "Uploaded", "UploadFailed", "Uploading">>]
MessageTriggerEnumType16 == [enum |-> <<"BootNotification", "LogStatusNotification",
    "FirmwareStatusNotification", "Heartbeat", "MeterValues", "SignChargePointCertificate",
    "StatusNotification">>]
TriggerMessageStatusEnumType16 == [enum |-> <<"Accepted", "Rejected", "NotImplemented">>]
FirmwareStatus16 == [enum |-> <<"Downloaded", "DownloadFailed", "Downloading", "Idle",
    "InstallationFailed", "Installing", "Installed">>]
ChargingRateUnit16 == [enum |-> <<"A", "W">>]
GetCompositeScheduleStatus16 == [enum |-> <<"Accepted", "Rejected">>]
CertificateUseEnumType16 == [enum |-> <<"CentralSystemRootCertificate",
    "ManufacturerRootCertificate">>]
GetInstalledCertificateStatusEnumType16 == [enum |-> <<"Accepted", "NotFound">>]
LogEnumType16 == [enum |-> <<"DiagnosticsLog", "SecurityLog">>]
LogStatusEnumType16 == [enum |-> <<"Accepted", "Rejected", "AcceptedCanceled">>]
InstallCertificateStatusEnumType16 == [enum |-> <<"Accepted", "Failed", "Rejected">>]
UploadLogStatusEnumType16 == [enum |-> <<"BadMessage", "Idle", "NotSupportedOperation",
    "PermissionDenied", "Uploaded", "UploadFailure", "Uploading">>]
ReadingContext16 == [enum |-> <<"Interruption.Begin", "Interruption.End", "Sample.Clock",
    "Sample.Periodic", "Transaction.Begin", "Transaction.End", "Trigger", "Other">>]
ValueFormat16 == [enum |-> <<"Raw", "SignedData">>]
Measurand16 == [enum |-> <<"Energy.Active.Export.Register", "Energy.Active.Import.Register",
    "Energy.Reactive.Export.Register", "Energy.Reactive.Import.Register",
    "Energy.Active.Export.Interval", "Energy.Active.Import.Interval",
    "Energy.Reactive.Export.Interval", "Energy.Reactive.Import.Interval", "Power.Active.Export",
    "Power.Active.Import", "Power.Offered", "Power.Reactive.Export", "Power.Reactive.Import",
    "Power.Factor", "Current.Import", "Current.Export", "Current.Offered", "Voltage", "Frequency",
    "Temperature", "SoC", "RPM">>]
Phase16 == [enum |-> <<"L1", "L2", "L3", "N", "L1-N", "L2-N", "L3-N", "L1-L2", "L2-L3", "L3-L1">>]
Location16 == [enum |-> <<"Cable", "EV", "Inlet", "Outlet", "Body">>]
UnitOfMeasure16 == [enum |-> <<"Wh", "kWh", "varh", "kvarh", "W", "kW", "VA", "kVA", "var", "kvar",
    "A", "V", "K", "Celcius", "Celsius", "Fahrenheit", "Percent">>]
ChargingProfileKindType16 == [enum |-> <<"Absolute", "Recurring", "Relative">>]
RecurrencyKindType16 == [enum |-> <<"Daily", "Weekly">>]
RemoteStartStopStatus16 == [enum |-> <<"Accepted", "Rejected">>]
ReservationStatus16 == [enum |-> <<"Accepted", "Faulted", "Occupied", "Rejected", "Unavailable">>]
ResetType16 == [enum |-> <<"Hard", "Soft">>]
ResetStatus16 == [enum |-> <<"Accepted", "Rejected">>]
UpdateType16 == [enum |-> <<"Differential", "Full">>]
UpdateStatus16 == [enum |-> <<"Accepted", "Failed", "NotSupported", "VersionMismatch">>]
ChargingProfileStatus16 == [enum |-> <<"Accepted", "Rejected", "NotSupported">>]
GenericStatusEnumType16 == [enum |-> <<"Accepted", "Rejected">>]
FirmwareStatusEnumType16 == [enum |-> <<"Downloaded", "DownloadFailed", "Downloading",
    "DownloadScheduled", "DownloadPaused", "Idle", "InstallationFailed", "Installing", "Installed",
    "InstallRebooting", "InstallScheduled", "InstallVerificationFailed", "InvalidSignature",
    "SignatureVerified">>]
UpdateFirmwareStatusEnumType16 == [enum |-> <<"Accepted", "Rejected", "AcceptedCanceled",
    "InvalidCertificate", "RevokedCertificate">>]
ChargePointErrorCode16 == [enum |-> <<"ConnectorLockFailure", "EVCommunicationError",
    "GroundFailure", "HighTemperature", "InternalError", "LocalListConflict", "NoError",
    "OtherError", "OverCurrentFailure", "PowerMeterFailure", "PowerSwitchFailure", "ReaderFailure",
    "ResetFailure", "UnderVoltage", "OverVoltage", "WeakSignal">>]
ChargePointStatus16 == [enum |-> <<"Available", "Preparing", "Charging", "SuspendedEVSE",
    "SuspendedEV", "Finishing", "Reserved", "Unavailable", "Faulted">>]
Reason16 == [enum |-> <<"EmergencyStop", "EVDisconnected", "HardReset", "Local", "Other",
    "PowerLoss", "Reboot", "Remote", "SoftReset", "UnlockCommand", "DeAuthorized">>]
MessageTrigger16 == [enum |-> <<"BootNotification", "DiagnosticsStatusNotification",
    "FirmwareStatusNotification", "Heartbeat", "MeterValues", "StatusNotification">>]
TriggerMessageStatus16 == [enum |-> <<"Accepted", "Rejected", "NotImplemented">>]
UnlockStatus16 == [enum |-> <<"Unlocked", "UnlockFailed", "NotSupported">>]
MessageType16 == [enum |-> <<"Authorize", "AuthorizeResponse", "BootNotification",
    "BootNotificationResponse", "CancelReservation", "CancelReservationResponse",
    "CertificateSigned", "CertificateSignedResponse", "ChangeAvailability",
    "ChangeAvailabilityResponse", "ChangeConfiguration", "ChangeConfigurationResponse",
    "ClearCache", "ClearCacheResponse", "ClearChargingProfile", "ClearChargingProfileResponse",
    "DataTransfer", "DataTransferResponse", "DeleteCertificate", "DeleteCertificateResponse",
    "DiagnosticsStatusNotification", "DiagnosticsStatusNotificationResponse",
    "ExtendedTriggerMessage", "ExtendedTriggerMessageResponse", "FirmwareStatusNotification",
    "FirmwareStatusNotificationResponse", "GetCompositeSchedule", "GetCompositeScheduleResponse",
    "GetConfiguration", "GetConfigurationResponse", "GetDiagnostics", "GetDiagnosticsResponse",
    "GetInstalledCertificateIds", "GetInstalledCertificateIdsResponse", "GetLocalListVersion",
    "GetLocalListVersionResponse", "GetLog", "GetLogResponse", "Heartbeat", "HeartbeatResponse",
    "InstallCertificate", "InstallCertificateResponse", "LogStatusNotification",
    "LogStatusNotificationResponse", "MeterValues", "MeterValuesResponse", "RemoteStartTransaction",
    "RemoteStartTransactionResponse", "RemoteStopTransaction", "RemoteStopTransactionResponse",
    "ReserveNow", "ReserveNowResponse", "Reset", "ResetResponse", "SecurityEventNotification",
    "SecurityEventNotificationResponse", "SendLocalList", "SendLocalListResponse",
    "SetChargingProfile", "SetChargingProfileResponse", "SignCertificate",
    "SignCertificateResponse", "SignedFirmwareStatusNotification",
    "SignedFirmwareStatusNotificationResponse", "SignedUpdateFirmware",
    "SignedUpdateFirmwareResponse", "StartTransaction", "StartTransactionResponse",
    "StatusNotification", "StatusNotificationResponse", "StopTransaction",
    "StopTransactionResponse", "TriggerMessage", "TriggerMessageResponse", "UnlockConnector",
    "UnlockConnectorResponse", "UpdateFirmware", "UpdateFirmwareResponse">>]
SupportedFeatureProfiles16 == [enum |-> <<"Internal", "Core", "FirmwareManagement",
    "LocalAuthListManagement", "Reservation", "SmartCharging", "RemoteTrigger", "Security", "PnC",
    "CostAndPrice", "Custom">>]
ChargePointConnectionState16 == [enum |-> <<"Disconnected", "Connected", "Booted", "Pending",
    "Rejected">>]

IdTagInfo16 == [required |-> [status |-> AuthorizationStatus16],
    optional |-> [expiryDate |-> DateTime, parentIdTag |-> [ci |-> 20]]]
CertificateHashDataType16 == [required |-> [hashAlgorithm |-> HashAlgorithmEnumType16,
    issuerNameHash |-> [ci |-> 128], issuerKeyHash |-> [ci |-> 128], serialNumber |-> [ci |-> 40]],
    optional |-> NoFields]
ChargingSchedulePeriod16 == [required |-> [startPeriod |-> Int, limit |-> Float],
    optional |-> [numberPhases |-> Int]]
ChargingSchedule16 == [required |-> [chargingRateUnit |-> ChargingRateUnit16,
    chargingSchedulePeriod |-> [many |-> ChargingSchedulePeriod16]], optional |-> [duration |-> Int,
    startSchedule |-> DateTime, minChargingRate |-> Float]]
KeyValue16 == [required |-> [key |-> [ci |-> 50], readonly |-> Bool],
    optional |-> [value |-> [ci |-> 500]]]
LogParametersType16 == [required |-> [remoteLocation |-> [ci |-> 512]],
    optional |-> [oldestTimestamp |-> DateTime, latestTimestamp |-> DateTime]]
SampledValue16 == [required |-> [value |-> Text], optional |-> [context |-> ReadingContext16,
    format |-> ValueFormat16, measurand |-> Measurand16, phase |-> Phase16, location |-> Location16,
    unit |-> UnitOfMeasure16]]
MeterValue16 == [required |-> [timestamp |-> DateTime, sampledValue |-> [many |-> SampledValue16]],
    optional |-> NoFields]
ChargingProfile16 == [required |-> [chargingProfileId |-> Int, stackLevel |-> Int,
    chargingProfilePurpose |-> ChargingProfilePurposeType16,
    chargingProfileKind |-> ChargingProfileKindType16, chargingSchedule |-> ChargingSchedule16],
    optional |-> [transactionId |-> Int, recurrencyKind |-> RecurrencyKindType16,
    validFrom |-> DateTime, validTo |-> DateTime]]
LocalAuthorizationList16 == [required |-> [idTag |-> [ci |-> 20]],
    optional |-> [idTagInfo |-> IdTagInfo16]]
FirmwareType16 == [required |-> [location |-> [ci |-> 512], retrieveDateTime |-> DateTime,
    signingCertificate |-> [ci |-> 5500], signature |-> [ci |-> 800]],
    optional |-> [installDateTime |-> DateTime]]
TransactionData16 == [required |-> [timestamp |-> DateTime,
    sampledValue |-> [many |-> SampledValue16]], optional |-> NoFields]
EnhancedChargingSchedulePeriod16 == [required |-> [startPeriod |-> Int, limit |-> Float,
    stackLevel |-> Int], optional |-> [numberPhases |-> Int]]
EnhancedChargingSchedule16 == [required |-> [chargingRateUnit |-> ChargingRateUnit16,
    chargingSchedulePeriod |-> [many |-> EnhancedChargingSchedulePeriod16]],
    optional |-> [duration |-> Int, startSchedule |-> DateTime, minChargingRate |-> Float]]
AuthorizeMessage16 ==
    [Request |-> [required |-> [idTag |-> [ci |-> 20]], optional |-> NoFields],
     Response |-> [required |-> [idTagInfo |-> IdTagInfo16], optional |-> NoFields]]
BootNotificationMessage16 ==
    [Request |-> [required |-> [chargePointVendor |-> [ci |-> 20],
        chargePointModel |-> [ci |-> 20]],
        optional |-> [chargePointSerialNumber |-> [ci |-> 25],
        chargeBoxSerialNumber |-> [ci |-> 25], firmwareVersion |-> [ci |-> 50],
        iccid |-> [ci |-> 20], imsi |-> [ci |-> 20], meterType |-> [ci |-> 25],
        meterSerialNumber |-> [ci |-> 25]]],
     Response |-> [required |-> [status |-> RegistrationStatus16, currentTime |-> DateTime,
        interval |-> Int], optional |-> NoFields]]
CancelReservationMessage16 ==
    [Request |-> [required |-> [reservationId |-> Int], optional |-> NoFields],
     Response |-> [required |-> [status |-> CancelReservationStatus16], optional |-> NoFields]]
CertificateSignedMessage16 ==
    [Request |-> [required |-> [certificateChain |-> [ci |-> 10000]], optional |-> NoFields],
     Response |-> [required |-> [status |-> CertificateSignedStatusEnumType16],
        optional |-> NoFields]]
ChangeAvailabilityMessage16 ==
    [Request |-> [required |-> [connectorId |-> Int, type |-> AvailabilityType16],
        optional |-> NoFields],
     Response |-> [required |-> [status |-> AvailabilityStatus16], optional |-> NoFields]]
ChangeConfigurationMessage16 ==
    [Request |-> [required |-> [key |-> [ci |-> 50], value |-> [ci |-> 500]],
        optional |-> NoFields],
     Response |-> [required |-> [status |-> ConfigurationStatus16], optional |-> NoFields]]
ClearCacheMessage16 ==
    [Request |-> [required |-> NoFields, optional |-> NoFields],
     Response |-> [required |-> [status |-> ClearCacheStatus16], optional |-> NoFields]]
ClearChargingProfileMessage16 ==
    [Request |-> [required |-> NoFields, optional |-> [id |-> Int, connectorId |-> Int,
        chargingProfilePurpose |-> ChargingProfilePurposeType16, stackLevel |-> Int]],
     Response |-> [required |-> [status |-> ClearChargingProfileStatus16], optional |-> NoFields]]
DataTransferMessage16 ==
    [Request |-> [required |-> [vendorId |-> [ci |-> 255]],
        optional |-> [messageId |-> [ci |-> 50], data |-> Text]],
     Response |-> [required |-> [status |-> DataTransferStatus16], optional |-> [data |-> Text]]]
DeleteCertificateMessage16 ==
    [Request |-> [required |-> [certificateHashData |-> CertificateHashDataType16],
        optional |-> NoFields],
     Response |-> [required |-> [status |-> DeleteCertificateStatusEnumType16],
        optional |-> NoFields]]
DiagnosticsStatusNotificationMessage16 ==
    [Request |-> [required |-> [status |-> DiagnosticsStatus16], optional |-> NoFields],
     Response |-> [required |-> NoFields, optional |-> NoFields]]
ExtendedTriggerMessageMessage16 ==
    [Request |-> [required |-> [requestedMessage |-> MessageTriggerEnumType16],
        optional |-> [connectorId |-> Int]],
     Response |-> [required |-> [status |-> TriggerMessageStatusEnumType16],
        optional |-> NoFields]]
FirmwareStatusNotificationMessage16 ==
    [Request |-> [required |-> [status |-> FirmwareStatus16], optional |-> NoFields],
     Response |-> [required |-> NoFields, optional |-> NoFields]]
GetCompositeScheduleMessage16 ==
    [Request |-> [required |-> [connectorId |-> Int, duration |-> Int],
        optional |-> [chargingRateUnit |-> ChargingRateUnit16]],
     Response |-> [required |-> [status |-> GetCompositeScheduleStatus16],
        optional |-> [connectorId |-> Int, scheduleStart |-> DateTime,
        chargingSchedule |-> ChargingSchedule16]]]
GetConfigurationMessage16 ==
    [Request |-> [required |-> NoFields, optional |-> [key |-> [many |-> [ci |-> 50]]]],
     Response |-> [required |-> NoFields,
        optional |-> [configurationKey |-> [many |-> KeyValue16],
        unknownKey |-> [many |-> [ci |-> 50]]]]]
GetDiagnosticsMessage16 ==
    [Request |-> [required |-> [location |-> Text], optional |-> [retries |-> Int,
        retryInterval |-> Int, startTime |-> DateTime, stopTime |-> DateTime]],
     Response |-> [required |-> NoFields, optional |-> [fileName |-> [ci |-> 255]]]]
GetInstalledCertificateIdsMessage16 ==
    [Request |-> [required |-> [certificateType |-> CertificateUseEnumType16],
        optional |-> NoFields],
     Response |-> [required |-> [status |-> GetInstalledCertificateStatusEnumType16],
        optional |-> [certificateHashData |-> [many |-> CertificateHashDataType16]]]]
GetLocalListVersionMessage16 ==
    [Request |-> [required |-> NoFields, optional |-> NoFields],
     Response |-> [required |-> [listVersion |-> Int], optional |-> NoFields]]
GetLogMessage16 ==
    [Request |-> [required |-> [log |-> LogParametersType16, logType |-> LogEnumType16,
        requestId |-> Int], optional |-> [retries |-> Int, retryInterval |-> Int]],
     Response |-> [required |-> [status |-> LogStatusEnumType16],
        optional |-> [filename |-> [ci |-> 255]]]]
HeartbeatMessage16 ==
    [Request |-> [required |-> NoFields, optional |-> NoFields],
     Response |-> [required |-> [currentTime |-> DateTime], optional |-> NoFields]]
InstallCertificateMessage16 ==
    [Request |-> [required |-> [certificateType |-> CertificateUseEnumType16,
        certificate |-> [ci |-> 5500]], optional |-> NoFields],
     Response |-> [required |-> [status |-> InstallCertificateStatusEnumType16],
        optional |-> NoFields]]
LogStatusNotificationMessage16 ==
    [Request |-> [required |-> [status |-> UploadLogStatusEnumType16],
        optional |-> [requestId |-> Int]],
     Response |-> [required |-> NoFields, optional |-> NoFields]]
MeterValuesMessage16 ==
    [Request |-> [required |-> [connectorId |-> Int, meterValue |-> [many |-> MeterValue16]],
        optional |-> [transactionId |-> Int]],
     Response |-> [required |-> NoFields, optional |-> NoFields]]
RemoteStartTransactionMessage16 ==
    [Request |-> [required |-> [idTag |-> [ci |-> 20]], optional |-> [connectorId |-> Int,
        chargingProfile |-> ChargingProfile16]],
     Response |-> [required |-> [status |-> RemoteStartStopStatus16], optional |-> NoFields]]
RemoteStopTransactionMessage16 ==
    [Request |-> [required |-> [transactionId |-> Int], optional |-> NoFields],
     Response |-> [required |-> [status |-> RemoteStartStopStatus16], optional |-> NoFields]]
ReserveNowMessage16 ==
    [Request |-> [required |-> [connectorId |-> Int, expiryDate |-> DateTime,
        idTag |-> [ci |-> 20], reservationId |-> Int],
        optional |-> [parentIdTag |-> [ci |-> 20]]],
     Response |-> [required |-> [status |-> ReservationStatus16], optional |-> NoFields]]
ResetMessage16 ==
    [Request |-> [required |-> [type |-> ResetType16], optional |-> NoFields],
     Response |-> [required |-> [status |-> ResetStatus16], optional |-> NoFields]]
SecurityEventNotificationMessage16 ==
    [Request |-> [required |-> [type |-> [ci |-> 50], timestamp |-> DateTime],
        optional |-> [techInfo |-> [ci |-> 255]]],
     Response |-> [required |-> NoFields, optional |-> NoFields]]
SendLocalListMessage16 ==
    [Request |-> [required |-> [listVersion |-> Int, updateType |-> UpdateType16],
        optional |-> [localAuthorizationList |-> [many |-> LocalAuthorizationList16]]],
     Response |-> [required |-> [status |-> UpdateStatus16], optional |-> NoFields]]
SetChargingProfileMessage16 ==
    [Request |-> [required |-> [connectorId |-> Int, csChargingProfiles |-> ChargingProfile16],
        optional |-> NoFields],
     Response |-> [required |-> [status |-> ChargingProfileStatus16], optional |-> NoFields]]
SignCertificateMessage16 ==
    [Request |-> [required |-> [csr |-> [ci |-> 5500]], optional |-> NoFields],
     Response |-> [required |-> [status |-> GenericStatusEnumType16], optional |-> NoFields]]
SignedFirmwareStatusNotificationMessage16 ==
    [Request |-> [required |-> [status |-> FirmwareStatusEnumType16],
        optional |-> [requestId |-> Int]],
     Response |-> [required |-> NoFields, optional |-> NoFields]]
SignedUpdateFirmwareMessage16 ==
    [Request |-> [required |-> [requestId |-> Int, firmware |-> FirmwareType16],
        optional |-> [retries |-> Int, retryInterval |-> Int]],
     Response |-> [required |-> [status |-> UpdateFirmwareStatusEnumType16],
        optional |-> NoFields]]
StartTransactionMessage16 ==
    [Request |-> [required |-> [connectorId |-> Int, idTag |-> [ci |-> 20], meterStart |-> Int,
        timestamp |-> DateTime], optional |-> [reservationId |-> Int]],
     Response |-> [required |-> [idTagInfo |-> IdTagInfo16, transactionId |-> Int],
        optional |-> NoFields]]
StatusNotificationMessage16 ==
    [Request |-> [required |-> [connectorId |-> Int, errorCode |-> ChargePointErrorCode16,
        status |-> ChargePointStatus16], optional |-> [info |-> [ci |-> 50],
        timestamp |-> DateTime, vendorId |-> [ci |-> 255], vendorErrorCode |-> [ci |-> 50]]],
     Response |-> [required |-> NoFields, optional |-> NoFields]]
StopTransactionMessage16 ==
    [Request |-> [required |-> [meterStop |-> Int, timestamp |-> DateTime, transactionId |-> Int],
        optional |-> [idTag |-> [ci |-> 20], reason |-> Reason16,
        transactionData |-> [many |-> TransactionData16]]],
     Response |-> [required |-> NoFields, optional |-> [idTagInfo |-> IdTagInfo16]]]
TriggerMessageMessage16 ==
    [Request |-> [required |-> [requestedMessage |-> MessageTrigger16],
        optional |-> [connectorId |-> Int]],
     Response |-> [required |-> [status |-> TriggerMessageStatus16], optional |-> NoFields]]
UnlockConnectorMessage16 ==
    [Request |-> [required |-> [connectorId |-> Int], optional |-> NoFields],
     Response |-> [required |-> [status |-> UnlockStatus16], optional |-> NoFields]]
UpdateFirmwareMessage16 ==
    [Request |-> [required |-> [location |-> Text, retrieveDate |-> DateTime],
        optional |-> [retries |-> Int, retryInterval |-> Int]],
     Response |-> [required |-> NoFields, optional |-> NoFields]]
(* The enums and the structs of this module, for the properties. *)
Enums16 == [AuthorizationStatus |-> AuthorizationStatus16,
    RegistrationStatus |-> RegistrationStatus16,
    CancelReservationStatus |-> CancelReservationStatus16,
    CertificateSignedStatusEnumType |-> CertificateSignedStatusEnumType16,
    AvailabilityType |-> AvailabilityType16, AvailabilityStatus |-> AvailabilityStatus16,
    ConfigurationStatus |-> ConfigurationStatus16, ClearCacheStatus |-> ClearCacheStatus16,
    ChargingProfilePurposeType |-> ChargingProfilePurposeType16,
    ClearChargingProfileStatus |-> ClearChargingProfileStatus16,
    DataTransferStatus |-> DataTransferStatus16, HashAlgorithmEnumType |-> HashAlgorithmEnumType16,
    DeleteCertificateStatusEnumType |-> DeleteCertificateStatusEnumType16,
    DiagnosticsStatus |-> DiagnosticsStatus16, MessageTriggerEnumType |-> MessageTriggerEnumType16,
    TriggerMessageStatusEnumType |-> TriggerMessageStatusEnumType16,
    FirmwareStatus |-> FirmwareStatus16, ChargingRateUnit |-> ChargingRateUnit16,
    GetCompositeScheduleStatus |-> GetCompositeScheduleStatus16,
    CertificateUseEnumType |-> CertificateUseEnumType16,
    GetInstalledCertificateStatusEnumType |-> GetInstalledCertificateStatusEnumType16,
    LogEnumType |-> LogEnumType16, LogStatusEnumType |-> LogStatusEnumType16,
    InstallCertificateStatusEnumType |-> InstallCertificateStatusEnumType16,
    UploadLogStatusEnumType |-> UploadLogStatusEnumType16, ReadingContext |-> ReadingContext16,
    ValueFormat |-> ValueFormat16, Measurand |-> Measurand16, Phase |-> Phase16,
    Location |-> Location16, UnitOfMeasure |-> UnitOfMeasure16,
    ChargingProfileKindType |-> ChargingProfileKindType16,
    RecurrencyKindType |-> RecurrencyKindType16, RemoteStartStopStatus |-> RemoteStartStopStatus16,
    ReservationStatus |-> ReservationStatus16, ResetType |-> ResetType16,
    ResetStatus |-> ResetStatus16, UpdateType |-> UpdateType16, UpdateStatus |-> UpdateStatus16,
    ChargingProfileStatus |-> ChargingProfileStatus16,
    GenericStatusEnumType |-> GenericStatusEnumType16,
    FirmwareStatusEnumType |-> FirmwareStatusEnumType16,
    UpdateFirmwareStatusEnumType |-> UpdateFirmwareStatusEnumType16,
    ChargePointErrorCode |-> ChargePointErrorCode16, ChargePointStatus |-> ChargePointStatus16,
    Reason |-> Reason16, MessageTrigger |-> MessageTrigger16,
    TriggerMessageStatus |-> TriggerMessageStatus16, UnlockStatus |-> UnlockStatus16,
    MessageType |-> MessageType16, SupportedFeatureProfiles |-> SupportedFeatureProfiles16,
    ChargePointConnectionState |-> ChargePointConnectionState16]

Structs16 == [IdTagInfo |-> IdTagInfo16, CertificateHashDataType |-> CertificateHashDataType16,
    ChargingSchedulePeriod |-> ChargingSchedulePeriod16, ChargingSchedule |-> ChargingSchedule16,
    KeyValue |-> KeyValue16, LogParametersType |-> LogParametersType16,
    SampledValue |-> SampledValue16, MeterValue |-> MeterValue16,
    ChargingProfile |-> ChargingProfile16, LocalAuthorizationList |-> LocalAuthorizationList16,
    FirmwareType |-> FirmwareType16, TransactionData |-> TransactionData16,
    EnhancedChargingSchedulePeriod |-> EnhancedChargingSchedulePeriod16,
    EnhancedChargingSchedule |-> EnhancedChargingSchedule16,
    AuthorizeRequest |-> AuthorizeMessage16.Request,
    AuthorizeResponse |-> AuthorizeMessage16.Response,
    BootNotificationRequest |-> BootNotificationMessage16.Request,
    BootNotificationResponse |-> BootNotificationMessage16.Response,
    CancelReservationRequest |-> CancelReservationMessage16.Request,
    CancelReservationResponse |-> CancelReservationMessage16.Response,
    CertificateSignedRequest |-> CertificateSignedMessage16.Request,
    CertificateSignedResponse |-> CertificateSignedMessage16.Response,
    ChangeAvailabilityRequest |-> ChangeAvailabilityMessage16.Request,
    ChangeAvailabilityResponse |-> ChangeAvailabilityMessage16.Response,
    ChangeConfigurationRequest |-> ChangeConfigurationMessage16.Request,
    ChangeConfigurationResponse |-> ChangeConfigurationMessage16.Response,
    ClearCacheRequest |-> ClearCacheMessage16.Request,
    ClearCacheResponse |-> ClearCacheMessage16.Response,
    ClearChargingProfileRequest |-> ClearChargingProfileMessage16.Request,
    ClearChargingProfileResponse |-> ClearChargingProfileMessage16.Response,
    DataTransferRequest |-> DataTransferMessage16.Request,
    DataTransferResponse |-> DataTransferMessage16.Response,
    DeleteCertificateRequest |-> DeleteCertificateMessage16.Request,
    DeleteCertificateResponse |-> DeleteCertificateMessage16.Response,
    DiagnosticsStatusNotificationRequest |-> DiagnosticsStatusNotificationMessage16.Request,
    DiagnosticsStatusNotificationResponse |-> DiagnosticsStatusNotificationMessage16.Response,
    ExtendedTriggerMessageRequest |-> ExtendedTriggerMessageMessage16.Request,
    ExtendedTriggerMessageResponse |-> ExtendedTriggerMessageMessage16.Response,
    FirmwareStatusNotificationRequest |-> FirmwareStatusNotificationMessage16.Request,
    FirmwareStatusNotificationResponse |-> FirmwareStatusNotificationMessage16.Response,
    GetCompositeScheduleRequest |-> GetCompositeScheduleMessage16.Request,
    GetCompositeScheduleResponse |-> GetCompositeScheduleMessage16.Response,
    GetConfigurationRequest |-> GetConfigurationMessage16.Request,
    GetConfigurationResponse |-> GetConfigurationMessage16.Response,
    GetDiagnosticsRequest |-> GetDiagnosticsMessage16.Request,
    GetDiagnosticsResponse |-> GetDiagnosticsMessage16.Response,
    GetInstalledCertificateIdsRequest |-> GetInstalledCertificateIdsMessage16.Request,
    GetInstalledCertificateIdsResponse |-> GetInstalledCertificateIdsMessage16.Response,
    GetLocalListVersionRequest |-> GetLocalListVersionMessage16.Request,
    GetLocalListVersionResponse |-> GetLocalListVersionMessage16.Response,
    GetLogRequest |-> GetLogMessage16.Request, GetLogResponse |-> GetLogMessage16.Response,
    HeartbeatRequest |-> HeartbeatMessage16.Request,
    HeartbeatResponse |-> HeartbeatMessage16.Response,
    InstallCertificateRequest |-> InstallCertificateMessage16.Request,
    InstallCertificateResponse |-> InstallCertificateMessage16.Response,
    LogStatusNotificationRequest |-> LogStatusNotificationMessage16.Request,
    LogStatusNotificationResponse |-> LogStatusNotificationMessage16.Response,
    MeterValuesRequest |-> MeterValuesMessage16.Request,
    MeterValuesResponse |-> MeterValuesMessage16.Response,
    RemoteStartTransactionRequest |-> RemoteStartTransactionMessage16.Request,
    RemoteStartTransactionResponse |-> RemoteStartTransactionMessage16.Response,
    RemoteStopTransactionRequest |-> RemoteStopTransactionMessage16.Request,
    RemoteStopTransactionResponse |-> RemoteStopTransactionMessage16.Response,
    ReserveNowRequest |-> ReserveNowMessage16.Request,
    ReserveNowResponse |-> ReserveNowMessage16.Response, ResetRequest |-> ResetMessage16.Request,
    ResetResponse |-> ResetMessage16.Response,
    SecurityEventNotificationRequest |-> SecurityEventNotificationMessage16.Request,
    SecurityEventNotificationResponse |-> SecurityEventNotificationMessage16.Response,
    SendLocalListRequest |-> SendLocalListMessage16.Request,
    SendLocalListResponse |-> SendLocalListMessage16.Response,
    SetChargingProfileRequest |-> SetChargingProfileMessage16.Request,
    SetChargingProfileResponse |-> SetChargingProfileMessage16.Response,
    SignCertificateRequest |-> SignCertificateMessage16.Request,
    SignCertificateResponse |-> SignCertificateMessage16.Response,
    SignedFirmwareStatusNotificationRequest |-> SignedFirmwareStatusNotificationMessage16.Request,
    SignedFirmwareStatusNotificationResponse |-> SignedFirmwareStatusNotificationMessage16.Response,
    SignedUpdateFirmwareRequest |-> SignedUpdateFirmwareMessage16.Request,
    SignedUpdateFirmwareResponse |-> SignedUpdateFirmwareMessage16.Response,
    StartTransactionRequest |-> StartTransactionMessage16.Request,
    StartTransactionResponse |-> StartTransactionMessage16.Response,
    StatusNotificationRequest |-> StatusNotificationMessage16.Request,
    StatusNotificationResponse |-> StatusNotificationMessage16.Response,
    StopTransactionRequest |-> StopTransactionMessage16.Request,
    StopTransactionResponse |-> StopTransactionMessage16.Response,
    TriggerMessageRequest |-> TriggerMessageMessage16.Request,
    TriggerMessageResponse |-> TriggerMessageMessage16.Response,
    UnlockConnectorRequest |-> UnlockConnectorMessage16.Request,
    UnlockConnectorResponse |-> UnlockConnectorMessage16.Response,
    UpdateFirmwareRequest |-> UpdateFirmwareMessage16.Request,
    UpdateFirmwareResponse |-> UpdateFirmwareMessage16.Response]
==============================================================================
