-------------------------------- MODULE TypesCommon --------------------------------
(* The conversions of lib/ocpp/common/types.cpp that both versions share. *)
EXTENDS Codec

SessionStartedReason == [enum |-> <<"Authorized", "EVConnected">>]
CaCertificateType == [enum |-> <<"V2G", "MO", "CSMS", "MF", "OEM">>]
CertificateValidationResult == [enum |-> <<"Valid", "Expired", "InvalidSignature", "IssuerNotFound",
    "InvalidLeafSignature", "InvalidChain", "Unknown">>]
InstallCertificateResult == [enum |-> <<"InvalidSignature", "InvalidCertificateChain",
    "InvalidFormat", "InvalidCommonName", "NoRootCertificateInstalled", "Expired",
    "CertificateStoreMaxLengthExceeded", "WriteError", "Accepted">>]
DeleteCertificateResult == [enum |-> <<"Accepted", "Failed", "NotFound">>]
HashAlgorithmEnumType == [enum |-> <<"SHA256", "SHA384", "SHA512">>]
OcppProtocolVersion == [enum |-> <<"ocpp1.6", "ocpp2.0.1", "ocpp2.1", "unknown">>]
CertificateSigningUseEnumCommon == [enum |-> <<"ChargingStationCertificate", "V2GCertificate",
    "ManufacturerCertificate", "V2G20Certificate">>]
CertificateType == [enum |-> <<"V2GRootCertificate", "MORootCertificate", "CSMSRootCertificate",
    "V2GCertificateChain", "MFRootCertificate", "OEMRootCertificate">>]

Current == [required |-> NoFields, optional |-> [DC |-> Float, L1 |-> Float, L2 |-> Float,
    L3 |-> Float, N |-> Float]]
Voltage == [required |-> NoFields, optional |-> [DC |-> Float, L1 |-> Float, L2 |-> Float,
    L3 |-> Float]]
Frequency == [required |-> [L1 |-> Float], optional |-> [L2 |-> Float, L3 |-> Float]]
Power == [required |-> [total |-> Float], optional |-> [L1 |-> Float, L2 |-> Float, L3 |-> Float]]
Energy == [required |-> [total |-> Float], optional |-> [L1 |-> Float, L2 |-> Float, L3 |-> Float]]
ReactivePower == [required |-> [total |-> Float], optional |-> [VARphA |-> Float, VARphB |-> Float,
    VARphC |-> Float]]
Powermeter == [required |-> [timestamp |-> Text, energy_Wh_import |-> Energy],
    optional |-> [meter_id |-> Text, phase_seq_error |-> Bool, energy_Wh_export |-> Energy,
    power_W |-> Power, voltage_V |-> Voltage, VAR |-> ReactivePower, current_A |-> Current,
    frequency_Hz |-> Frequency]]
Temperature == [required |-> [value |-> Float], optional |-> [location |-> Text]]
StateOfCharge == [required |-> [value |-> Float], optional |-> [location |-> Text]]
RPM == [required |-> [value |-> Float], optional |-> [location |-> Text]]
Measurement == [required |-> [temperature_C |-> [many |-> Temperature]],
    optional |-> [soc_Percent |-> StateOfCharge, rpm |-> RPM]]
CertificateHashDataTypeCommon == [required |-> [hashAlgorithm |-> HashAlgorithmEnumType,
    issuerNameHash |-> [ci |-> 128], issuerKeyHash |-> [ci |-> 128], serialNumber |-> [ci |-> 40]],
    optional |-> NoFields]
CertificateHashDataChainCommon ==
    [required |-> [certificateHashData |-> CertificateHashDataTypeCommon,
    certificateType |-> CertificateType],
    optional |-> [childCertificateHashData |-> [many |-> CertificateHashDataTypeCommon]]]

(* The enums and the structs of this module, for the properties. *)
CommonEnums == [SessionStartedReason |-> SessionStartedReason,
    CaCertificateType |-> CaCertificateType,
    CertificateValidationResult |-> CertificateValidationResult,
    InstallCertificateResult |-> InstallCertificateResult,
    DeleteCertificateResult |-> DeleteCertificateResult,
    HashAlgorithmEnumType |-> HashAlgorithmEnumType, OcppProtocolVersion |-> OcppProtocolVersion,
    CertificateSigningUseEnum |-> CertificateSigningUseEnumCommon,
    CertificateType |-> CertificateType]

CommonStructs == [Current |-> Current, Voltage |-> Voltage, Frequency |-> Frequency,
    Power |-> Power, Energy |-> Energy, ReactivePower |-> ReactivePower, Powermeter |-> Powermeter,
    Temperature |-> Temperature, StateOfCharge |-> StateOfCharge, RPM |-> RPM,
    Measurement |-> Measurement, CertificateHashDataType |-> CertificateHashDataTypeCommon,
    CertificateHashDataChain |-> CertificateHashDataChainCommon]
==============================================================================
