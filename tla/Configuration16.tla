-------------------------- MODULE Configuration16 --------------------------
(***************************************************************************)
(* The configuration of a 1.6 charge point: ChargePointConfiguration, and  *)
(* what ChargePointImpl does with a key that was changed.  The CSMS        *)
(* (ChangeConfiguration) and the application (set_configuration_key)       *)
(* change keys; a value is kept in memory and in the user configuration    *)
(* file, which is patched over the configuration file and validated        *)
(* against the JSON schemas when the process starts.  Some keys also       *)
(* reconfigure what is running: timers, the message queue, the websocket,  *)
(* and the security profile, for which the websocket is closed and opened  *)
(* again, with a fallback to the old profile.                              *)
(*                                                                         *)
(* The texts of ChangeConfiguration are a small set, each with what the    *)
(* code asks of a text: its length, how it reads as a number, and the      *)
(* formats it has.                                                         *)
(***************************************************************************)
EXTENDS ConfigurationKeys16, Integers, FiniteSetsExt

CONSTANTS
    Stations,     \* the configurations and certificates a station may have
    MaxChanges,   \* the requests that change a key
    MaxBoots,     \* the BootNotification.conf messages
    MaxRestarts,  \* the ends of the process
    MaxFailures   \* the failed writes of the user configuration

\* The security profiles are 0 to 3.
ASSUME StationsAssumption == \A s \in Stations : s.profile \in 0..3

VARIABLES
    station,      \* the configuration file, schemas and certificates
    config,       \* config, where it differs from the configuration file
    user_config,  \* the user configuration file
    unsaved,      \* keys whose last write failed
    process,      \* "running", or "refused" by the schemas or the parser
    running,      \* what the timers, the queue and the websocket were told
    boot,         \* the last registration status
    link,         \* the websocket
    options,      \* its security profile and max_connection_attempts
    switch_security_profile_callback,
    websocket_timer,
    proven,       \* the profiles that have connected, since one was last lost
    disturbed,    \* a switch was cut off by a restart or the application
    last,         \* the change that has just been accepted
    used          \* how much of each bound is used

file == <<user_config, unsaved>>
security == <<link, options, switch_security_profile_callback, websocket_timer, proven, disturbed>>
vars == <<station, config, file, process, running, boot, security, last, used>>

None == [none |-> TRUE]

-----------------------------------------------------------------------------
(* Values and texts.                                                       *)

NoNumber == -1000000

\* A text: its length, the integer it is, the integer std::stoi finds at its
\* start, and the formats it has.
Text(len, int, prefix, formats) == [len |-> len, int |-> int, prefix |-> prefix, formats |-> formats]
Word(len, formats) == Text(len, NoNumber, NoNumber, formats)
Number(len, n) == Text(len, n, n, {"json"})

Texts ==
    [true |-> Word(4, {"bool", "json"}),
     false |-> Word(5, {"bool", "json"}),
     zero |-> Number(1, 0),
     one |-> Number(1, 1),
     two |-> Number(1, 2),
     three |-> Number(1, 3),
     thousand |-> Number(4, 1000),
     day |-> Number(5, 86400),
     minus |-> Number(2, -5),
     empty |-> Word(0, {"measurands", "purposes", "evseIds"}),
     country |-> Word(2, {}),
     words |-> Word(10, {"evseIds"}),
     SoC |-> Word(3, {"measurands"}),
     TxProfile |-> Word(9, {"purposes", "evseIds"}),
     rotation |-> Text(5, NoNumber, 0, {"rotation"}),
     hex8 |-> Text(8, NoNumber, 4, {"evseIds", "hex"}),
     hex16 |-> Text(16, NoNumber, 4, {"evseIds", "hex"}),
     unhex4 |-> Word(4, {}),
     unhex8 |-> Word(8, {"evseIds"}),
     price |-> Word(18, {"json", "object", "priceText", "evseIds"}),
     badprice |-> Word(15, {"json", "object", "badPriceText", "evseIds"}),
     offset |-> Text(6, NoNumber, -5, {"offset"}),
     longoffset |-> Text(13, NoNumber, -5, {"offset", "evseIds"}),
     future |-> Text(20, NoNumber, 2099, {"date", "future", "evseIds"}),
     past |-> Text(20, NoNumber, 2001, {"date", "evseIds"})]

Original == [original |-> TRUE]
IntValue(n) == [int |-> n]
BoolValue(b) == [bool |-> b]
TextValue(t) == [text |-> t]
Merged(t) == [merged |-> t]
IsText(v) == "text" \in DOMAIN v

string_to_bool(t) == t = "true"
is_positive_integer(t) == Texts[t].int >= 0
isBool(t) == "bool" \in Texts[t].formats
isHexNotation(t) == "hex" \in Texts[t].formats
hexToString(t) == IF t = "hex8" THEN "unhex4" ELSE "unhex8"
HasFormat(t, f) == f \in Texts[t].formats
LengthIn(t, lengths) == Texts[t].len \in lengths

-----------------------------------------------------------------------------
(* Reading the configuration.                                              *)

\* Keys that the schemas complete with a default.
Defaulted == DOMAIN ScheduleDefaults

\* What the configuration file holds.
FileValue(k) ==
    CASE k = "SecurityProfile" -> IntValue(station.profile)
      [] k = "ISO15118CertificateManagementEnabled" -> BoolValue(FALSE)
      [] OTHER -> IF KeyTable[k].optional /\ k \notin Defaulted /\ ~station.optional
                  THEN None ELSE Original

Value(cfg, k) == IF k \in DOMAIN cfg THEN cfg[k] ELSE FileValue(k)
Has(k) == Value(config, k) # None
SecurityProfile == Value(config, "SecurityProfile").int

\* Keys with a KeyValue function that get() does not reach.
Unreachable == {"AuthorizationKey", "IFace", "LogRotation", "LogRotationDateSuffix",
                "LogRotationMaximumFileSize", "LogRotationMaximumFileCount"}

\* The sections whose keys get() answers.
getSupportedFeatureProfilesSet == station.profiles \cup {"Core", "Internal", "Security", "Reservation"}

\* get(): a new language may be given a price text, so that key is answered
\* even when it has no value.
get(k) ==
    /\ KeyTable[k].access # "Own"
    /\ k \notin Unreachable
    /\ KeyTable[k].section \in getSupportedFeatureProfilesSet
    /\ IF k = "DefaultPriceText" THEN Has("CustomMultiLanguageMessages")
                                 ELSE Has(k)

readonly(k) ==
    \/ KeyTable[k].access = "RO"
    \/ KeyTable[k].access = "Schema" /\ k \in station.readonly

-----------------------------------------------------------------------------
(* Setting a key: set() and the setters.                                   *)

Flags == {"AllowOfflineTxForUnknownId", "AuthorizationCacheEnabled", "LocalAuthorizeOffline",
          "LocalPreAuthorize", "StopTransactionOnInvalidId", "UnlockConnectorOnEVSideDisconnect",
          "StopTransactionIfUnlockNotSupported", "LocalAuthListEnabled"}

UncheckedFlags == {"AuthorizeRemoteTxRequests", "CentralContractValidationAllowed",
                   "ContractValidationOffline", "DisableSecurityEventNotifications",
                   "ISO15118CertificateManagementEnabled", "ISO15118PnCEnabled",
                   "AllowChargingProfileWithoutStartSchedule", "CustomIdleFeeAfterStop"}

Counts == {"BlinkRepeat", "ClockAlignedDataInterval", "ConnectionTimeOut", "HeartbeatInterval",
           "LightIntensity", "MaxEnergyOnInvalidId", "MeterValueSampleInterval",
           "MinimumStatusDuration", "OcspRequestInterval", "ResetRetries",
           "WaitForStopTransactionsOnResetTimeout", "TransactionMessageAttempts",
           "TransactionMessageRetryInterval", "WebSocketPingInterval", "CertSigningWaitMinimum",
           "CertSigningRepeatTimes", "CompositeScheduleDefaultLimitAmps",
           "CompositeScheduleDefaultLimitWatts", "SupplyVoltage", "WaitForSetUserPriceTimeout"}

Measurands == {"MeterValuesAlignedData", "MeterValuesSampledData", "StopTxnAlignedData", "StopTxnSampledData"}

\* The numbers set() admits beyond is_positive_integer.
NumberAllowed(k, n) ==
    /\ k = "LightIntensity" => n <= 100
    /\ k = "OcspRequestInterval" => n >= 86400
    /\ k = "WaitForSetUserPriceTimeout" => n <= 30000

\* The checks on texts.
TextAllowed(k, t) ==
    CASE k = "IgnoredProfilePurposesOffline" -> HasFormat(t, "purposes")
      [] k = "AuthorizationKey" -> Texts[t].len >= 8
      [] k = "ConnectorPhaseRotation" -> HasFormat(t, "rotation")
      [] k \in Measurands -> HasFormat(t, "measurands")
      [] k = "SeccLeafSubjectCommonName" -> LengthIn(t, 7..64)
      [] k = "SeccLeafSubjectCountry" -> LengthIn(t, {2})
      [] k = "SeccLeafSubjectOrganization" -> LengthIn(t, 0..64)
      [] k = "ConnectorEvseIds" -> HasFormat(t, "evseIds")
      [] k = "DefaultPriceText" ->
            Has("SupportedLanguages") /\ Texts[t].formats \cap {"priceText", "badPriceText"} # {}
      [] k = "DefaultPrice" -> HasFormat(t, "json")
      [] k \in {"TimeOffset", "TimeOffsetNextTransition"} -> HasFormat(t, "offset")
      [] k = "NextTimeOffsetTransitionDateTime" -> HasFormat(t, "future")
      [] k \in {"CpoName", "CentralSystemURI"} -> TRUE
      [] OTHER -> FALSE

\* A text that cannot be parsed is thrown out of set(), to be answered with a
\* CALLERROR.
Throws(k, t) ==
    \/ k = "DefaultPriceText" /\ Has("SupportedLanguages") /\ ~HasFormat(t, "json")
    \/ k = "NextTimeOffsetTransitionDateTime" /\ ~HasFormat(t, "date")

\* Whether set() accepts the text, and what it then stores.  SecurityProfile
\* passes, and is dealt with by the caller; keys that are reported as
\* writable and have no branch (RetryBackoff...) are refused.
Accepts(k, t) ==
    CASE k \in Flags -> isBool(t)
      [] k \in UncheckedFlags \cup {"SecurityProfile"} -> TRUE
      [] k \in Counts -> is_positive_integer(t) /\ NumberAllowed(k, Texts[t].int)
      [] k = "CompositeScheduleDefaultNumberPhases" -> Texts[t].prefix \in 1..3
      [] OTHER -> TextAllowed(k, t) /\ ~Throws(k, t)

\* A flag is stored as true whatever was asked for.
Stored_True(k, t) ==
    CASE k \in Flags \cup UncheckedFlags -> BoolValue(TRUE)
      [] k \in Counts -> IntValue(Texts[t].int)
      [] k = "CompositeScheduleDefaultNumberPhases" -> IntValue(Texts[t].prefix)
      [] k = "AuthorizationKey" /\ isHexNotation(t) -> TextValue(hexToString(t))
      [] OTHER -> TextValue(t)

Stored(k, t) ==
    CASE k \in Flags \cup UncheckedFlags -> BoolValue(string_to_bool(t))
      [] k \in Counts -> IntValue(Texts[t].int)
      [] k = "CompositeScheduleDefaultNumberPhases" -> IntValue(Texts[t].prefix)
      [] k = "AuthorizationKey" /\ isHexNotation(t) -> TextValue(hexToString(t))
      [] OTHER -> TextValue(t)

\* The value that a text stands for, where it stands for one of the key.
Denotes(k, t) ==
    CASE KeyTable[k].type = "bool" -> IF isBool(t) THEN BoolValue(t = "true") ELSE None
      [] KeyTable[k].type = "int" -> IF Texts[t].int # NoNumber THEN IntValue(Texts[t].int) ELSE None
      [] OTHER -> TextValue(t)

Change(k, t) == IF Denotes(k, t) = None THEN None ELSE [key |-> k, value |-> Denotes(k, t)]

\* The configuration with one value replaced.
With(cfg, k, v) == [x \in DOMAIN cfg \cup {k} |-> IF x = k THEN v ELSE cfg[x]]

\* The new value replaces all that the file held.
setInUserConfig_Alone(k, v, written) ==
    /\ user_config' = [x \in {k} |-> v]
    /\ unsaved' = unsaved \ {k}

\* setInUserConfig: the file is read, one value replaced, and written again;
\* an error of the file system is only logged.
setInUserConfig(k, v, written) ==
    IF written THEN /\ user_config' = With(user_config, k, v)
                    /\ unsaved' = unsaved \ {k}
               ELSE /\ user_config' = user_config
                    /\ unsaved' = unsaved \cup {k}

Writable(written) == written \/ used.failures < MaxFailures

SetKey(k, v, written) ==
    /\ Writable(written)
    /\ config' = With(config, k, v)
    /\ setInUserConfig(k, v, written)

-----------------------------------------------------------------------------
(* What is running.                                                        *)

Timers == {"ocsp", "v2g", "offset"}

\* The setting each part was last given: by the constructor and start(), by
\* an accepted BootNotification, or by a changed key.
Settings == [samples |-> "MeterValueSampleInterval", timeout |-> "ConnectionTimeOut",
             attempts |-> "TransactionMessageAttempts", retry |-> "TransactionMessageRetryInterval",
             ping |-> "WebSocketPingInterval", heartbeat |-> "HeartbeatInterval",
             clock |-> "ClockAlignedDataInterval"]

Started(cfg, offset) ==
    [s \in DOMAIN Settings \cup Timers |->
        CASE s = "offset" -> offset
          [] s \in {"ocsp", "v2g"} -> FALSE
          [] s \in {"heartbeat", "clock"} -> None
          [] OTHER -> Value(cfg, Settings[s])]

is_iso15118_certificate_management_enabled(cfg) ==
    /\ "PnC" \in station.profiles
    /\ Value(cfg, "ISO15118CertificateManagementEnabled") = BoolValue(TRUE)

\* The queue is not told of a new number of attempts.
Reconfigured_NotQueue(k, v, cfg) ==
    [s \in DOMAIN running |->
        CASE s \notin Timers \cup {"attempts"} /\ Settings[s] = k -> v
          [] s \in {"ocsp", "v2g"} /\ k = "ISO15118CertificateManagementEnabled" -> v.bool
          [] s = "ocsp" /\ k = "OcspRequestInterval" ->
                running.ocsp \/ is_iso15118_certificate_management_enabled(cfg)
          [] s = "offset" /\ k = "NextTimeOffsetTransitionDateTime" -> TRUE
          [] OTHER -> running[s]]

\* The last part of set_configuration_key_internal, for the keys that only
\* reconfigure something.
Reconfigured(k, v, cfg) ==
    [s \in DOMAIN running |->
        CASE s \notin Timers /\ Settings[s] = k -> v
          [] s \in {"ocsp", "v2g"} /\ k = "ISO15118CertificateManagementEnabled" -> v.bool
          [] s = "ocsp" /\ k = "OcspRequestInterval" ->
                running.ocsp \/ is_iso15118_certificate_management_enabled(cfg)
          [] s = "offset" /\ k = "NextTimeOffsetTransitionDateTime" -> TRUE
          [] OTHER -> running[s]]

-----------------------------------------------------------------------------
(* The websocket and the security profile.                                 *)

\* The websocket is up, connecting, or closed in one of four ways: by
\* disconnect ("closing", then "idle"), by reconnect ("reconnecting", then
\* "waiting" for its delay), or because the attempts are used up ("failed",
\* then "exhausted"); the first state of each lasts until the callbacks of the
\* application have run.
Open == {"up", "connecting"}
CallbacksDue == [closing |-> "idle", reconnecting |-> "waiting", failed |-> "exhausted"]
Links == Open \cup DOMAIN CallbacksDue \cup {"idle", "waiting", "exhausted"}

disconnect == link' = IF link \in Open THEN "closing" ELSE link

\* A reconnect is ignored after a disconnect.
reconnect ==
    link' = CASE link \in Open -> "reconnecting"
              [] link \in {"closing", "idle"} -> link
              [] link = "exhausted" -> "waiting"
              [] OTHER -> link

\* What set_configuration_key_internal asks before it switches.
SwitchAllowed(p) ==
    /\ p > SecurityProfile
    /\ p \in {1, 2} => Has("AuthorizationKey")
    /\ p \in {2, 3} => station.ca
    /\ p = 3 => station.leaf
    /\ p <= 3

Switch(p, n) == [profile |-> p, attempts |-> n]

\* The fallback is forgotten.
switchSecurityProfile_NoFallback(s, written) ==
    /\ SetKey("SecurityProfile", IntValue(s.profile), written)
    /\ switch_security_profile_callback' = None
    /\ websocket_timer' = s

\* switchSecurityProfile: the profile is stored at once, and the callback now
\* leads back to the old one.
switchSecurityProfile(s, written) ==
    /\ SetKey("SecurityProfile", IntValue(s.profile), written)
    /\ switch_security_profile_callback' = Switch(SecurityProfile, -1)
    /\ websocket_timer' = s

\* A key that has to do with the connection: the answer is sent, and then the
\* websocket closed.
ChangeSecurityProfile(t) ==
    /\ SwitchAllowed(Texts[t].prefix)
    /\ switch_security_profile_callback' = Switch(Texts[t].prefix, 1)
    /\ disconnect
    /\ disturbed' = (disturbed \/ link # "up")
    /\ last' = None
    /\ UNCHANGED <<config, file, running, options, websocket_timer, proven>>

ChangeAuthorizationKey(t, written) ==
    /\ Accepts("AuthorizationKey", t)
    /\ SetKey("AuthorizationKey", Stored("AuthorizationKey", t), written)
    /\ last' = None
    /\ IF SecurityProfile \in {1, 2}
       THEN reconnect /\ disturbed' = (disturbed \/ link # "up")
       ELSE UNCHANGED <<link, disturbed>>
    /\ UNCHANGED <<running, options, switch_security_profile_callback, websocket_timer, proven>>

ChangeOther(k, t, written) ==
    /\ Accepts(k, t)
    /\ SetKey(k, Stored(k, t), written)
    /\ running' = IF k = "CentralSystemURI" THEN running
                                            ELSE Reconfigured(k, Stored(k, t), config')
    /\ last' = Change(k, t)
    /\ UNCHANGED security

\* Keys whose changes interact.  A change of any other key is the only change
\* of its behaviour, a bound of the model.
Interplay == {"SecurityProfile", "AuthorizationKey", "HeartbeatInterval", "OcspRequestInterval",
              "ISO15118CertificateManagementEnabled", "TimeOffsetNextTransition",
              "NextTimeOffsetTransitionDateTime"}

\* ChangeConfiguration.req, or set_configuration_key of the application: a
\* key that get() does not know is not supported and one that is readonly is
\* rejected.
set_configuration_key_internal(k, t, written) ==
    /\ get(k) \/ k = "AuthorizationKey"
    /\ ~readonly(k)
    /\ CASE k = "SecurityProfile" -> written /\ ChangeSecurityProfile(t)
         [] k = "AuthorizationKey" -> ChangeAuthorizationKey(t, written)
         [] OTHER -> ChangeOther(k, t, written)
    /\ used' = [used EXCEPT !.changes = @ + 1, !.plain = @ \/ k \notin Interplay,
                            !.failures = IF written THEN @ ELSE @ + 1]
    /\ UNCHANGED <<station, process, boot>>

Requestable == IF used.changes = 0 THEN DOMAIN KeyTable ELSE Interplay

ChangeConfiguration ==
    /\ process = "running"
    /\ used.changes < MaxChanges
    /\ ~used.plain
    /\ \E k \in Requestable, t \in DOMAIN Texts, written \in BOOLEAN :
            set_configuration_key_internal(k, t, written)

-----------------------------------------------------------------------------
(* Other changes of the configuration.                                     *)

\* handleBootNotificationResponse: the interval is stored whatever the status.
\* A station that is rejected does here what it does when it is pending.
BootNotificationResponse(status, interval) ==
    /\ process = "running"
    /\ link = "up"
    /\ used.boots < MaxBoots
    /\ boot' = status
    /\ IF interval > 0
       THEN SetKey("HeartbeatInterval", IntValue(interval), TRUE)
       ELSE UNCHANGED <<config, file>>
    /\ running' = IF status # "Accepted" THEN running
                  ELSE [running EXCEPT !.heartbeat = Value(config', "HeartbeatInterval"),
                                       !.clock = Value(config', "ClockAlignedDataInterval"),
                                       !.ocsp = @ \/ is_iso15118_certificate_management_enabled(config),
                                       !.v2g = @ \/ is_iso15118_certificate_management_enabled(config)]
    /\ last' = None
    /\ used' = [used EXCEPT !.boots = @ + 1]
    /\ UNCHANGED <<station, process, security>>

\* change_time_offset_timer.
TimeOffsetTransition ==
    /\ process = "running"
    /\ running.offset
    /\ running' = [running EXCEPT !.offset = FALSE]
    /\ IF Has("TimeOffsetNextTransition")
       THEN SetKey("TimeOffset", Value(config, "TimeOffsetNextTransition"), TRUE)
       ELSE UNCHANGED <<config, file>>
    /\ last' = None
    /\ UNCHANGED <<station, process, boot, security, used>>

\* What the application tells about the station, the modem and the meter.
Information ==
    [Chargepoint |-> {"ChargePointVendor", "ChargePointModel", "ChargePointSerialNumber",
                      "ChargeBoxSerialNumber", "FirmwareVersion"},
     ChargepointModem |-> {"ICCID", "IMSI"},
     ChargepointMeter |-> {"MeterSerialNumber", "MeterType"}]

Torn == [torn |-> TRUE]

\* set...Information rewrites the user configuration in place: the process
\* may end when the file is half written.
SetInformation(keys) ==
    /\ process = "running"
    /\ ~used.plain
    /\ used' = [used EXCEPT !.plain = TRUE]
    /\ config' = Over([k \in keys |-> TextValue("words")], config)
    /\ user_config' = Over([k \in keys |-> TextValue("words")], user_config)
    /\ last' = None
    /\ UNCHANGED <<station, unsaved, process, running, boot, security>>

-----------------------------------------------------------------------------
(* The websocket calls back.                                               *)

DisconnectedCallback == running' = [running EXCEPT !.ocsp = FALSE, !.v2g = FALSE]

ConnectionLost ==
    /\ process = "running"
    /\ link = "up"
    /\ link' = "connecting"
    /\ DisconnectedCallback
    /\ last' = None
    /\ UNCHANGED <<station, config, file, process, boot, options, switch_security_profile_callback,
                   websocket_timer, proven, disturbed, used>>

\* stopped_connecting_callback, and then disconnected_callback.
StoppedConnecting ==
    /\ process = "running"
    /\ link \in DOMAIN CallbacksDue
    /\ link' = CallbacksDue[link]
    /\ DisconnectedCallback
    /\ IF switch_security_profile_callback # None
       THEN \E written \in BOOLEAN :
                /\ switchSecurityProfile(switch_security_profile_callback, written)
                /\ used' = [used EXCEPT !.failures = IF written THEN @ ELSE @ + 1]
       ELSE UNCHANGED <<config, file, switch_security_profile_callback, websocket_timer, used>>
    /\ last' = None
    /\ UNCHANGED <<station, process, boot, options, proven, disturbed>>

\* websocket_timer, or the delay of a reconnect, is over.
StartConnecting ==
    /\ process = "running"
    /\ \/ /\ websocket_timer # None
          /\ options' = websocket_timer
          /\ websocket_timer' = None
          /\ link' = IF link \in {"idle", "waiting", "exhausted"} THEN "connecting" ELSE link
       \/ /\ link = "waiting"
          /\ link' = "connecting"
          /\ UNCHANGED <<options, websocket_timer>>
    /\ last' = None
    /\ UNCHANGED <<station, config, file, process, running, boot, switch_security_profile_callback,
                   proven, disturbed, used>>

\* connected_callback; the options are then the ones of the configuration.
Connected ==
    /\ process = "running"
    /\ link = "connecting"
    /\ link' = "up"
    /\ proven' = proven \cup {options.profile}
    /\ switch_security_profile_callback' = None
    /\ options' = Switch(SecurityProfile, -1)
    /\ last' = None
    /\ UNCHANGED <<station, config, file, process, running, boot, websocket_timer, disturbed, used>>

\* The attempts of a switch are used up; any other connection is tried for
\* ever.
AttemptFails ==
    /\ process = "running"
    /\ link = "connecting"
    /\ options.attempts = 1
    /\ link' = "failed"
    /\ last' = None
    /\ UNCHANGED <<station, config, file, process, running, boot, options,
                   switch_security_profile_callback, websocket_timer, proven, disturbed, used>>

-----------------------------------------------------------------------------
(* Restart.                                                                *)

\* The JSON schemas of the sections: the lengths and numbers they admit.
SchemaLengths ==
    [AuthorizationKey |-> 8..1000, CentralSystemURI |-> 1..1000, ConnectorEvseIds |-> 7..1000,
     SeccLeafSubjectCommonName |-> 7..64, SeccLeafSubjectCountry |-> {2},
     SeccLeafSubjectOrganization |-> 0..64, TimeOffset |-> 1..10,
     TimeOffsetNextTransition |-> 1..40, NextTimeOffsetTransitionDateTime |-> 1..40]

SchemaAdmits(k, v) ==
    /\ IsText(v) /\ k \in DOMAIN SchemaLengths => Texts[v.text].len \in SchemaLengths[k]
    /\ k \in {"DefaultPrice", "DefaultPriceText"} /\ IsText(v) => HasFormat(v.text, "priceText")
    /\ k = "LightIntensity" => v.int \in 0..100
    /\ k = "OcspRequestInterval" => v.int >= 86400
    /\ k = "CompositeScheduleDefaultNumberPhases" => v.int \in 1..3
    /\ k = "WaitForSetUserPriceTimeout" => v.int >= 0 /\ v.int <= 30000
    /\ k \in Measurands => HasFormat(v.text, "measurands")

SchemaValid(cfg) == \A k \in DOMAIN cfg : SchemaAdmits(k, cfg[k])

\* The user configuration is merged into the configuration file: the members
\* of an object that are not in the patch stay.
merge_patch(cfg) ==
    [k \in DOMAIN cfg |->
        IF k = "DefaultPrice" /\ FileValue(k) = Original /\ IsText(cfg[k]) /\ HasFormat(cfg[k].text, "object")
        THEN Merged(cfg[k].text) ELSE cfg[k]]

Start ==
    IF user_config # Torn /\ SchemaValid(merge_patch(user_config))
    THEN /\ process' = "running"
         /\ config' = merge_patch(user_config)
         /\ \E offset \in BOOLEAN :
                /\ offset => Value(config', "NextTimeOffsetTransitionDateTime") # None
                             /\ "CostAndPrice" \in station.profiles
                /\ running' = Started(config', offset)
         /\ link' = "connecting"
         /\ options' = Switch(Value(config', "SecurityProfile").int, -1)
         /\ disturbed' = (disturbed \/ options'.profile \notin proven)
    ELSE /\ process' = "refused"
         /\ UNCHANGED <<config, running, link, options, disturbed>>

Restart ==
    /\ process = "running"
    /\ used.restarts < MaxRestarts
    /\ used' = [used EXCEPT !.restarts = @ + 1]
    /\ Start
    /\ boot' = "none"
    /\ switch_security_profile_callback' = None
    /\ websocket_timer' = None
    /\ unsaved' = {}
    /\ last' = None
    /\ proven' = IF "SecurityProfile" \in unsaved THEN {options'.profile} ELSE proven
    /\ UNCHANGED <<station, user_config>>

\* The process ends while set...Information writes.
RestartWhileWriting ==
    /\ process = "running"
    /\ used.restarts < MaxRestarts
    /\ used' = [used EXCEPT !.restarts = @ + 1]
    /\ user_config' = Torn
    /\ process' = "refused"
    /\ last' = None
    /\ UNCHANGED <<station, config, unsaved, running, boot, security>>

-----------------------------------------------------------------------------

Init ==
    /\ station \in Stations
    /\ config = <<>>
    /\ user_config = <<>>
    /\ unsaved = {}
    /\ process = "running"
    /\ running = Started(config, FALSE)
    /\ boot = "none"
    /\ link = "up"
    /\ options = Switch(station.profile, -1)
    /\ switch_security_profile_callback = None
    /\ websocket_timer = None
    /\ proven = {station.profile}
    /\ disturbed = FALSE
    /\ last = None
    /\ used = [changes |-> 0, plain |-> FALSE, boots |-> 0, restarts |-> 0, failures |-> 0]

Next ==
    \/ ChangeConfiguration
    \/ \E status \in {"Accepted", "Pending"}, interval \in {0, 300} :
            BootNotificationResponse(status, interval)
    \/ TimeOffsetTransition
    \/ \E what \in DOMAIN Information : SetInformation(Information[what])
    \/ ConnectionLost
    \/ StoppedConnecting
    \/ StartConnecting
    \/ Connected
    \/ AttemptFails
    \/ Restart
    \/ RestartWhileWriting

Spec == Init /\ [][Next]_vars

-----------------------------------------------------------------------------
(* Properties.                                                             *)

\* A value has the type its getter converts it to: a getter would throw on
\* any other.
WellTyped(k, v) ==
    \/ v \in {None, Original}
    \/ KeyTable[k].type = "int" /\ "int" \in DOMAIN v
    \/ KeyTable[k].type = "bool" /\ "bool" \in DOMAIN v
    \/ KeyTable[k].type = "text" /\ DOMAIN v \cap {"text", "merged"} # {}

Switches == [profile : 0..3, attempts : {-1, 1}]

\* The type invariant: config and the user configuration only hold values of
\* the type that the getter of the key expects.
TypeOK ==
    /\ DOMAIN config \subseteq DOMAIN KeyTable
    /\ \A k \in DOMAIN config : WellTyped(k, config[k])
    /\ user_config = Torn \/ \A k \in DOMAIN user_config : WellTyped(k, user_config[k])
    /\ unsaved \subseteq DOMAIN KeyTable
    /\ process \in {"running", "refused"}
    /\ link \in Links
    /\ options \in Switches
    /\ switch_security_profile_callback \in Switches \cup {None}
    /\ websocket_timer \in Switches \cup {None}
    /\ proven \subseteq 0..3
    /\ boot \in {"none", "Accepted", "Pending"}

\* A change that was answered Accepted is what GetConfiguration reports from
\* then on (set() and get() are two long chains of branches that have to
\* agree); the authorization key is not reported.
AcceptedIsReported ==
    last # None => get(last.key) /\ Value(config, last.key) = last.value

\* A restart loses no value: whatever was changed by the CSMS, by the answer
\* to a BootNotification, by a timer or by a fallback is read again, unless
\* writing it failed.  DefaultPrice is merged with the configuration file.
RestartKeeps ==
    [][Restart /\ process' = "running" =>
        \A k \in DOMAIN KeyTable \ (unsaved \cup {"DefaultPrice"}) :
            Value(config', k) = Value(config, k)]_vars

\* Keys for which set() accepts what the schema then refuses.
SchemaGaps == {"AuthorizationKey", "CentralSystemURI", "ConnectorEvseIds", "TimeOffset",
               "DefaultPrice", "DefaultPriceText"}

\* The station can be started again whatever the CSMS configures: a value that
\* set() accepts passes the schema that the constructor validates it with,
\* the keys of SchemaGaps apart.
StartsAgain ==
    user_config # Torn =>
        \A k \in DOMAIN user_config \ SchemaGaps : SchemaAdmits(k, merge_patch(user_config)[k])

\* The running station follows its configuration: the queue, the websocket
\* ping, the connection timeout and the meter values always, the heartbeat and
\* the clock aligned meter values as long as the last registration was
\* accepted; and the certificate timers only run while certificate management
\* is enabled.
RunningFollows ==
    process = "running" =>
        /\ \A s \in {"samples", "timeout", "attempts", "retry", "ping"} :
                running[s] = Value(config, Settings[s])
        /\ boot = "Accepted" => \A s \in {"heartbeat", "clock"} : running[s] = Value(config, Settings[s])
        /\ running.ocsp \/ running.v2g => is_iso15118_certificate_management_enabled(config)

\* A security profile that has never connected is only held as long as the way
\* back to one that has is open: the callback is armed, and the attempts are
\* limited so that it is called.  A restart or the application may disturb a
\* switch.
FallbackArmed ==
    process = "running" /\ ~disturbed /\ SecurityProfile \notin proven =>
        /\ switch_security_profile_callback # None
        /\ switch_security_profile_callback.profile \in proven
        /\ (IF websocket_timer # None THEN websocket_timer ELSE options).attempts = 1

\* A station that is connected is configured with the highest security profile
\* it has been connected with: a fallback never leads below it.
NeverDowngraded ==
    process = "running" /\ link = "up" /\ ~disturbed => SecurityProfile = Max(proven)

\* What ChangeConfiguration accepts holds: it is reported from then on, and the
\* constructor's schema takes it when the station starts again.
ChangesHold == AcceptedIsReported /\ StartsAgain

\* Switching the security profile neither locks the station out nor weakens it:
\* the way back to a profile that has connected stays open until the new one
\* has, and never leads below it.
SwitchSafe == FallbackArmed /\ NeverDowngraded
=============================================================================
