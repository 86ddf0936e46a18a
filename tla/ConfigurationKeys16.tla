------------------------ MODULE ConfigurationKeys16 ------------------------
(***************************************************************************)
(* The configuration keys of a 1.6 charge point: the section of the        *)
(* configuration each one is kept in, the type of its value, whether it    *)
(* has to be configured, and whether a KeyValue function reports it as     *)
(* readonly.  The tables follow ChargePointConfiguration in the order of   *)
(* its functions; Configuration16 models what is done with the keys.       *)
(***************************************************************************)
EXTENDS Naturals

\* The entries of f, and those of g that f does not have.
Over(f, g) == [k \in DOMAIN f \cup DOMAIN g |-> IF k \in DOMAIN f THEN f[k] ELSE g[k]]

\* A getter that returns the value, and one that returns an optional.
Always(t) == [type |-> t, optional |-> FALSE]
Maybe(t) == [type |-> t, optional |-> TRUE]

\* A key of a section: readonly, writable, as the schema says, or never
\* reported (the station reads it for itself).
Key(s, t, opt, a) == [section |-> s, type |-> t, optional |-> opt, access |-> a]
RO(s, t) == Key(s, t, FALSE, "RO")
RW(s, t) == Key(s, t, FALSE, "RW")
OptionalRO(s, t) == Key(s, t, TRUE, "RO")
OptionalRW(s, t) == Key(s, t, TRUE, "RW")
Schema(s, t) == Key(s, t, FALSE, "Schema")
Own(s, t) == Key(s, t, FALSE, "Own")

\* What the getters of the Internal section return: always, or if configured.
StationValues ==
    [ChargePointId |-> Always("text"),
     CentralSystemURI |-> Always("text"),
     ChargeBoxSerialNumber |-> Always("text"),
     ChargePointModel |-> Always("text"),
     ChargePointSerialNumber |-> Maybe("text"),
     ChargePointVendor |-> Always("text"),
     FirmwareVersion |-> Always("text"),
     ICCID |-> Maybe("text"),
     IMSI |-> Maybe("text"),
     MeterSerialNumber |-> Maybe("text"),
     MeterType |-> Maybe("text"),
     AuthorizeConnectorZeroOnConnectorOne |-> Always("bool"),
     LogMessages |-> Always("bool"),
     LogMessagesRaw |-> Always("bool"),
     LogMessagesFormat |-> Always("text"),
     LogRotation |-> Always("bool"),
     LogRotationDateSuffix |-> Always("bool"),
     LogRotationMaximumFileSize |-> Always("int"),
     LogRotationMaximumFileCount |-> Always("int"),
     SupportedChargingProfilePurposeTypes |-> Always("text"),
     IgnoredProfilePurposesOffline |-> Maybe("text"),
     MaxCompositeScheduleDuration |-> Always("int")]

TransportValues ==
    [SupportedCiphers12 |-> Always("text"),
     SupportedCiphers13 |-> Always("text"),
     UseSslDefaultVerifyPaths |-> Always("bool"),
     VerifyCsmsCommonName |-> Always("bool"),
     VerifyCsmsAllowWildcards |-> Always("bool"),
     SupportedMeasurands |-> Always("text")]

\* Who may change them, by their KeyValue functions: the answer of the schema
\* file for CentralSystemURI.
StationAccess ==
    [ChargePointId |-> "RO",
     CentralSystemURI |-> "Schema",
     ChargeBoxSerialNumber |-> "RO",
     ChargePointModel |-> "RO",
     ChargePointSerialNumber |-> "RO",
     ChargePointVendor |-> "RO",
     FirmwareVersion |-> "RO",
     ICCID |-> "RO",
     IMSI |-> "RO",
     MeterSerialNumber |-> "RO",
     MeterType |-> "RO",
     AuthorizeConnectorZeroOnConnectorOne |-> "RO",
     LogMessages |-> "RO",
     LogMessagesRaw |-> "RO",
     LogMessagesFormat |-> "RO"]

TransportAccess ==
    [LogRotation |-> "RO",
     LogRotationDateSuffix |-> "RO",
     LogRotationMaximumFileSize |-> "RO",
     LogRotationMaximumFileCount |-> "RO",
     SupportedChargingProfilePurposeTypes |-> "RO",
     IgnoredProfilePurposesOffline |-> "RW",
     MaxCompositeScheduleDuration |-> "RO",
     SupportedCiphers12 |-> "RO",
     SupportedCiphers13 |-> "RO",
     UseSslDefaultVerifyPaths |-> "RO",
     VerifyCsmsCommonName |-> "RO",
     VerifyCsmsAllowWildcards |-> "RO",
     SupportedMeasurands |-> "RO"]

\* One table per stretch of getters, setters and KeyValue functions.
ScheduleDefaults ==
    [CompositeScheduleDefaultLimitAmps |-> OptionalRW("Internal", "int"),
     CompositeScheduleDefaultLimitWatts |-> OptionalRW("Internal", "int"),
     CompositeScheduleDefaultNumberPhases |-> OptionalRW("Internal", "int"),
     SupplyVoltage |-> OptionalRW("Internal", "int"),
     UseTPM |-> Own("Internal", "bool"),
     UseTPMSeccLeafCertificate |-> Own("Internal", "bool")]

WebsocketKeys ==
    [MaxMessageSize |-> RO("Internal", "int"),
     EnableTLSKeylog |-> Own("Internal", "bool"),
     TLSKeylogFile |-> Own("Internal", "text"),
     StopTransactionIfUnlockNotSupported |-> RW("Internal", "bool"),
     WebsocketPingPayload |-> RO("Internal", "text"),
     WebsocketPongTimeout |-> RO("Internal", "int"),
     RetryBackoffRandomRange |-> RW("Internal", "int"),
     RetryBackoffRepeatTimes |-> RW("Internal", "int"),
     RetryBackoffWaitMinimum |-> RW("Internal", "int")]

QueueKeys ==
    [HostName |-> OptionalRO("Internal", "text"),
     IFace |-> OptionalRO("Internal", "text"),
     QueueAllMessages |-> OptionalRO("Internal", "bool"),
     MessageTypesDiscardForQueueing |-> OptionalRO("Internal", "text"),
     MessageQueueSizeThreshold |-> OptionalRO("Internal", "int"),
     AllowOfflineTxForUnknownId |-> OptionalRW("Core", "bool"),
     AuthorizationCacheEnabled |-> OptionalRW("Core", "bool"),
     AuthorizeRemoteTxRequests |-> RW("Core", "bool")]

IntervalKeys ==
    [BlinkRepeat |-> OptionalRW("Core", "int"),
     ClockAlignedDataInterval |-> RW("Core", "int"),
     ConnectionTimeOut |-> RW("Core", "int"),
     ConnectorPhaseRotation |-> RW("Core", "text"),
     ConnectorPhaseRotationMaxLength |-> OptionalRO("Core", "int"),
     GetConfigurationMaxKeys |-> RO("Core", "int"),
     HeartbeatInterval |-> RW("Core", "int"),
     LightIntensity |-> OptionalRW("Core", "int")]

MeterKeys ==
    [LocalAuthorizeOffline |-> RW("Core", "bool"),
     LocalPreAuthorize |-> RW("Core", "bool"),
     MaxEnergyOnInvalidId |-> OptionalRW("Core", "int"),
     MeterValuesAlignedData |-> RW("Core", "text"),
     MeterValuesAlignedDataMaxLength |-> OptionalRO("Core", "int"),
     MeterValuesSampledData |-> RW("Core", "text"),
     MeterValuesSampledDataMaxLength |-> OptionalRO("Core", "int")]

TransactionKeys ==
    [MeterValueSampleInterval |-> RW("Core", "int"),
     MinimumStatusDuration |-> OptionalRW("Core", "int"),
     NumberOfConnectors |-> RO("Core", "int"),
     ReserveConnectorZeroSupported |-> OptionalRO("Reservation", "bool"),
     ResetRetries |-> RW("Core", "int"),
     StopTransactionOnEVSideDisconnect |-> OptionalRO("Core", "bool"),
     StopTransactionOnInvalidId |-> RW("Core", "bool"),
     StopTxnAlignedData |-> RW("Core", "text")]

RetryKeys ==
    [StopTxnAlignedDataMaxLength |-> OptionalRO("Core", "int"),
     StopTxnSampledData |-> RW("Core", "text"),
     StopTxnSampledDataMaxLength |-> OptionalRO("Core", "int"),
     SupportedFeatureProfiles |-> RO("Core", "text"),
     SupportedFeatureProfilesMaxLength |-> OptionalRO("Core", "int"),
     TransactionMessageAttempts |-> RW("Core", "int"),
     TransactionMessageRetryInterval |-> RW("Core", "int"),
     UnlockConnectorOnEVSideDisconnect |-> Schema("Core", "bool")]

SmartChargingKeys ==
    [WebSocketPingInterval |-> OptionalRW("Core", "int"),
     SupportedFileTransferProtocols |-> OptionalRO("FirmwareManagement", "text"),
     ChargeProfileMaxStackLevel |-> RO("SmartCharging", "int"),
     ChargingScheduleAllowedChargingRateUnit |-> RO("SmartCharging", "text"),
     ChargingScheduleMaxPeriods |-> RO("SmartCharging", "int"),
     ConnectorSwitch3to1PhaseSupported |-> OptionalRO("SmartCharging", "bool"),
     MaxChargingProfilesInstalled |-> RO("SmartCharging", "int")]

SecurityKeys ==
    [AdditionalRootCertificateCheck |-> OptionalRO("Security", "bool"),
     AuthorizationKey |-> OptionalRW("Security", "text"),
     CertificateSignedMaxChainSize |-> OptionalRO("Security", "int"),
     CertificateStoreMaxLength |-> OptionalRO("Security", "int"),
     CpoName |-> RW("Security", "text"),
     SecurityProfile |-> RW("Security", "int"),
     DisableSecurityEventNotifications |-> RW("Security", "bool"),
     LocalAuthListEnabled |-> RW("LocalAuthListManagement", "bool"),
     LocalAuthListMaxLength |-> RO("LocalAuthListManagement", "int"),
     SendLocalListMaxLength |-> RO("LocalAuthListManagement", "int")]

PlugAndChargeKeys ==
    [ISO15118CertificateManagementEnabled |-> RW("PnC", "bool"),
     ISO15118PnCEnabled |-> RW("PnC", "bool"),
     CentralContractValidationAllowed |-> OptionalRW("PnC", "bool"),
     CertSigningWaitMinimum |-> OptionalRW("PnC", "int"),
     CertSigningRepeatTimes |-> OptionalRW("PnC", "int"),
     ContractValidationOffline |-> RW("PnC", "bool"),
     OcspRequestInterval |-> RW("Internal", "int")]

CertificateSubjectKeys ==
    [SeccLeafSubjectCommonName |-> OptionalRW("Internal", "text"),
     SeccLeafSubjectCountry |-> OptionalRW("Internal", "text"),
     SeccLeafSubjectOrganization |-> OptionalRW("Internal", "text"),
     ConnectorEvseIds |-> OptionalRW("Internal", "text"),
     AllowChargingProfileWithoutStartSchedule |-> OptionalRW("Internal", "bool")]

PricingKeys ==
    [WaitForStopTransactionsOnResetTimeout |-> RW("Internal", "int"),
     CustomDisplayCostAndPrice |-> RO("CostAndPrice", "bool"),
     NumberOfDecimalsForCostValues |-> OptionalRO("CostAndPrice", "int"),
     DefaultPriceText |-> OptionalRW("CostAndPrice", "text"),
     DefaultPrice |-> OptionalRW("CostAndPrice", "text"),
     TimeOffset |-> OptionalRW("CostAndPrice", "text"),
     NextTimeOffsetTransitionDateTime |-> OptionalRW("CostAndPrice", "text"),
     TimeOffsetNextTransition |-> OptionalRW("CostAndPrice", "text")]

LanguageKeys ==
    [CustomIdleFeeAfterStop |-> OptionalRW("CostAndPrice", "bool"),
     CustomMultiLanguageMessages |-> OptionalRO("CostAndPrice", "bool"),
     SupportedLanguages |-> OptionalRO("CostAndPrice", "text"),
     Language |-> OptionalRO("CostAndPrice", "text"),
     WaitForSetUserPriceTimeout |-> OptionalRW("CostAndPrice", "int")]

StationKeys ==
    LET values == Over(StationValues, TransportValues)
        access == Over(StationAccess, TransportAccess)
    IN  [k \in DOMAIN access |->
            Key("Internal", values[k].type, values[k].optional, access[k])]

\* Every key of the configuration, the tables in the order of the sections.
InternalKeys == Over(StationKeys, Over(ScheduleDefaults, Over(WebsocketKeys, QueueKeys)))
CoreKeys ==
    Over(IntervalKeys, Over(MeterKeys, Over(TransactionKeys, Over(RetryKeys, SmartChargingKeys))))
OtherKeys ==
    Over(SecurityKeys,
         Over(PlugAndChargeKeys, Over(CertificateSubjectKeys, Over(PricingKeys, LanguageKeys))))
KeyTable == Over(InternalKeys, Over(CoreKeys, OtherKeys))
=============================================================================
