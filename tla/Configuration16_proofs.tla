----------------------- MODULE Configuration16_proofs -----------------------
(***************************************************************************)
(* Proofs about Configuration16, for every station, every number of        *)
(* changes, registrations, restarts and failed writes.                     *)
(***************************************************************************)
EXTENDS Configuration16, TLAPS

-----------------------------------------------------------------------------
(* Configurations.                                                         *)

\* Setting a key changes that key only.
LEMMA WithValue ==
    \A cfg, k, v :
        /\ DOMAIN With(cfg, k, v) = DOMAIN cfg \cup {k}
        /\ With(cfg, k, v)[k] = v
        /\ \A x \in DOMAIN cfg : x # k => With(cfg, k, v)[x] = cfg[x]
        /\ Value(With(cfg, k, v), k) = v
        /\ \A x : x # k => Value(With(cfg, k, v), x) = Value(cfg, x)
BY DEF With, Value

\* Laying one configuration over another changes the keys of the first only.
LEMMA OverValue ==
    \A new, cfg :
        /\ DOMAIN Over(new, cfg) = DOMAIN new \cup DOMAIN cfg
        /\ \A x \in DOMAIN new : Over(new, cfg)[x] = new[x] /\ Value(Over(new, cfg), x) = new[x]
        /\ \A x : x \notin DOMAIN new => Value(Over(new, cfg), x) = Value(cfg, x)
        /\ \A x \in DOMAIN cfg : x \notin DOMAIN new => Over(new, cfg)[x] = cfg[x]
BY DEF Over, Value

\* The values that the files hold do not change while the process runs.
LEMMA SameStation ==
    ASSUME UNCHANGED station
    PROVE  /\ \A k : FileValue(k)' = FileValue(k)
           /\ \A cfg, k : Value(cfg, k)' = Value(cfg, k)
           /\ \A cfg : is_iso15118_certificate_management_enabled(cfg)'
                          = is_iso15118_certificate_management_enabled(cfg)
<1>1. \A k : FileValue(k)' = FileValue(k)
  BY DEF FileValue
<1>2. \A cfg, k : Value(cfg, k)' = Value(cfg, k)
  BY <1>1 DEF Value
<1> QED  BY <1>1, <1>2 DEF is_iso15118_certificate_management_enabled

LEMMA PrimedValue ==
    ASSUME UNCHANGED station
    PROVE  /\ \A k : Value(config, k)' = Value(config', k)
           /\ \A k : Value(user_config, k)' = Value(user_config', k)
           /\ is_iso15118_certificate_management_enabled(config)'
                 = is_iso15118_certificate_management_enabled(config')
BY DEF Value, FileValue, is_iso15118_certificate_management_enabled

\* SetKey in memory.
LEMMA SetKeyValue ==
    ASSUME NEW k, NEW v, NEW written, SetKey(k, v, written)
    PROVE  Value(config', k) = v /\ \A x : x # k => Value(config', x) = Value(config, x)
BY WithValue DEF SetKey

-----------------------------------------------------------------------------
(* The running station follows its configuration.                          *)

Always5 == {"samples", "timeout", "attempts", "retry", "ping"}
Registered == {"heartbeat", "clock"}

\* The value of running parts, and their names.
LEMMA SettingsTable ==
    /\ DOMAIN Settings = Always5 \cup Registered
    /\ Settings["samples"] = "MeterValueSampleInterval" /\ Settings["timeout"] = "ConnectionTimeOut"
    /\ Settings["attempts"] = "TransactionMessageAttempts"
    /\ Settings["retry"] = "TransactionMessageRetryInterval"
    /\ Settings["ping"] = "WebSocketPingInterval" /\ Settings["heartbeat"] = "HeartbeatInterval"
    /\ Settings["clock"] = "ClockAlignedDataInterval"
    /\ DOMAIN Settings \cap Timers = {}
BY DEF Settings, Timers, Always5, Registered

Parts == DOMAIN Settings \cup Timers

Iso == "ISO15118CertificateManagementEnabled"

\* The parts run follow the configuration cfg under the registration reg.
Follows(run, cfg, reg) ==
    /\ \A s \in Always5 : run[s] = Value(cfg, Settings[s])
    /\ reg = "Accepted" => \A s \in Registered : run[s] = Value(cfg, Settings[s])
    /\ run["ocsp"] \/ run["v2g"] => is_iso15118_certificate_management_enabled(cfg)

RunInv == DOMAIN running = Parts /\ RunningFollows

LEMMA FollowsNow ==
    RunningFollows <=> (process = "running" => Follows(running, config, boot))
BY DEF RunningFollows, Follows, Always5, Registered

LEMMA FollowsNext ==
    ASSUME UNCHANGED station, process' = "running" => Follows(running', config', boot')
    PROVE  RunningFollows'
BY PrimedValue DEF RunningFollows, Follows, Always5, Registered

\* Certificate management depends on its key only.
LEMMA IsoEnabled ==
    \A c, d : Value(c, Iso) = Value(d, Iso) =>
                 is_iso15118_certificate_management_enabled(c)
                    = is_iso15118_certificate_management_enabled(d)
BY DEF is_iso15118_certificate_management_enabled, Iso

\* A change of a key that no part follows.
LEMMA FollowsKept ==
    \A run, c, d, reg :
        /\ Follows(run, c, reg)
        /\ \A s \in DOMAIN Settings : Value(d, Settings[s]) = Value(c, Settings[s])
        /\ Value(d, Iso) = Value(c, Iso)
        => Follows(run, d, reg)
BY IsoEnabled, SettingsTable DEF Follows

\* A part that is stopped.
LEMMA FollowsStopped ==
    \A run, new, c, reg :
        /\ Follows(run, c, reg)
        /\ \A s \in DOMAIN Settings : new[s] = run[s]
        /\ ~new["ocsp"] /\ ~new["v2g"]
        => Follows(new, c, reg)
BY SettingsTable DEF Follows

\* The keys that parts follow.
Followed == {Settings[s] : s \in DOMAIN Settings} \cup {Iso}

\* A key that is not one of them may be set.
LEMMA SetUnfollowed ==
    ASSUME NEW k, NEW v, NEW written, SetKey(k, v, written), k \notin Followed
    PROVE  /\ \A s \in DOMAIN Settings : Value(config', Settings[s]) = Value(config, Settings[s])
           /\ Value(config', Iso) = Value(config, Iso)
BY SetKeyValue DEF Followed

-----------------------------------------------------------------------------
(* The table of the keys.                                                  *)

LEMMA OverTables ==
    ASSUME NEW f, NEW g, \A k \in DOMAIN g : k \notin DOMAIN f
    PROVE  /\ DOMAIN Over(f, g) = DOMAIN f \cup DOMAIN g
           /\ \A k \in DOMAIN f : Over(f, g)[k] = f[k]
           /\ \A k \in DOMAIN g : Over(f, g)[k] = g[k]
BY DEF Over

LEMMA StationDomain == DOMAIN StationKeys = DOMAIN StationAccess \cup DOMAIN TransportAccess
BY DEF StationKeys, Over


\* No key is in two tables, and so each is found in its own.
LEMMA InternalTables ==
    /\ DOMAIN InternalKeys = DOMAIN StationKeys \cup DOMAIN ScheduleDefaults \cup DOMAIN WebsocketKeys \cup
          DOMAIN QueueKeys
    /\ \A k \in DOMAIN StationKeys : InternalKeys[k] = StationKeys[k]
    /\ \A k \in DOMAIN ScheduleDefaults : InternalKeys[k] = ScheduleDefaults[k]
    /\ \A k \in DOMAIN WebsocketKeys : InternalKeys[k] = WebsocketKeys[k]
    /\ \A k \in DOMAIN QueueKeys : InternalKeys[k] = QueueKeys[k]
<1> DEFINE R4 == QueueKeys
<1> DEFINE R3 == Over(WebsocketKeys, R4)
<1> DEFINE R2 == Over(ScheduleDefaults, R3)
<1> DEFINE R1 == Over(StationKeys, R2)
<1>1. \A k \in DOMAIN R4 : k \notin DOMAIN WebsocketKeys
  BY DEF WebsocketKeys, QueueKeys
<1>2. /\ DOMAIN R3 = DOMAIN WebsocketKeys \cup DOMAIN QueueKeys
      /\ \A k \in DOMAIN WebsocketKeys : R3[k] = WebsocketKeys[k]
      /\ \A k \in DOMAIN QueueKeys : R3[k] = QueueKeys[k]
  BY <1>1, OverTables
<1> HIDE DEF R3
<1>3. \A k \in DOMAIN R3 : k \notin DOMAIN ScheduleDefaults
  BY <1>2 DEF ScheduleDefaults, WebsocketKeys, QueueKeys
<1>4. /\ DOMAIN R2 = DOMAIN ScheduleDefaults \cup DOMAIN R3
      /\ \A k \in DOMAIN ScheduleDefaults : R2[k] = ScheduleDefaults[k]
      /\ \A k \in DOMAIN R3 : R2[k] = R3[k]
  BY <1>3, OverTables
<1> HIDE DEF R2
<1>5. /\ DOMAIN R2 = DOMAIN ScheduleDefaults \cup DOMAIN WebsocketKeys \cup DOMAIN QueueKeys
      /\ \A k \in DOMAIN ScheduleDefaults : R2[k] = ScheduleDefaults[k]
      /\ \A k \in DOMAIN WebsocketKeys : R2[k] = WebsocketKeys[k]
      /\ \A k \in DOMAIN QueueKeys : R2[k] = QueueKeys[k]
  BY <1>4, <1>2
<1>6. \A k \in DOMAIN R2 : k \notin DOMAIN StationKeys
  BY <1>5, StationDomain DEF StationAccess, TransportAccess, ScheduleDefaults, WebsocketKeys, QueueKeys
<1>7. /\ DOMAIN R1 = DOMAIN StationKeys \cup DOMAIN R2
      /\ \A k \in DOMAIN StationKeys : R1[k] = StationKeys[k]
      /\ \A k \in DOMAIN R2 : R1[k] = R2[k]
  BY <1>6, OverTables
<1> HIDE DEF R1
<1>8. /\ DOMAIN R1 = DOMAIN StationKeys \cup DOMAIN ScheduleDefaults \cup DOMAIN WebsocketKeys \cup
          DOMAIN QueueKeys
      /\ \A k \in DOMAIN StationKeys : R1[k] = StationKeys[k]
      /\ \A k \in DOMAIN ScheduleDefaults : R1[k] = ScheduleDefaults[k]
      /\ \A k \in DOMAIN WebsocketKeys : R1[k] = WebsocketKeys[k]
      /\ \A k \in DOMAIN QueueKeys : R1[k] = QueueKeys[k]
  BY <1>7, <1>5
<1>9. InternalKeys = R1
  BY DEF R1, R2, R3, InternalKeys
<1> QED  BY <1>8, <1>9

\* No key is in two tables, and so each is found in its own.
LEMMA CoreTables ==
    /\ DOMAIN CoreKeys = DOMAIN IntervalKeys \cup DOMAIN MeterKeys \cup DOMAIN TransactionKeys \cup
          DOMAIN RetryKeys \cup DOMAIN SmartChargingKeys
    /\ \A k \in DOMAIN IntervalKeys : CoreKeys[k] = IntervalKeys[k]
    /\ \A k \in DOMAIN MeterKeys : CoreKeys[k] = MeterKeys[k]
    /\ \A k \in DOMAIN TransactionKeys : CoreKeys[k] = TransactionKeys[k]
    /\ \A k \in DOMAIN RetryKeys : CoreKeys[k] = RetryKeys[k]
    /\ \A k \in DOMAIN SmartChargingKeys : CoreKeys[k] = SmartChargingKeys[k]
<1> DEFINE R5 == SmartChargingKeys
<1> DEFINE R4 == Over(RetryKeys, R5)
<1> DEFINE R3 == Over(TransactionKeys, R4)
<1> DEFINE R2 == Over(MeterKeys, R3)
<1> DEFINE R1 == Over(IntervalKeys, R2)
<1>1. \A k \in DOMAIN R5 : k \notin DOMAIN RetryKeys
  BY DEF RetryKeys, SmartChargingKeys
<1>2. /\ DOMAIN R4 = DOMAIN RetryKeys \cup DOMAIN SmartChargingKeys
      /\ \A k \in DOMAIN RetryKeys : R4[k] = RetryKeys[k]
      /\ \A k \in DOMAIN SmartChargingKeys : R4[k] = SmartChargingKeys[k]
  BY <1>1, OverTables
<1> HIDE DEF R4
<1>3. \A k \in DOMAIN R4 : k \notin DOMAIN TransactionKeys
  BY <1>2 DEF TransactionKeys, RetryKeys, SmartChargingKeys
<1>4. /\ DOMAIN R3 = DOMAIN TransactionKeys \cup DOMAIN R4
      /\ \A k \in DOMAIN TransactionKeys : R3[k] = TransactionKeys[k]
      /\ \A k \in DOMAIN R4 : R3[k] = R4[k]
  BY <1>3, OverTables
<1> HIDE DEF R3
<1>5. /\ DOMAIN R3 = DOMAIN TransactionKeys \cup DOMAIN RetryKeys \cup DOMAIN SmartChargingKeys
      /\ \A k \in DOMAIN TransactionKeys : R3[k] = TransactionKeys[k]
      /\ \A k \in DOMAIN RetryKeys : R3[k] = RetryKeys[k]
      /\ \A k \in DOMAIN SmartChargingKeys : R3[k] = SmartChargingKeys[k]
  BY <1>4, <1>2
<1>6. \A k \in DOMAIN R3 : k \notin DOMAIN MeterKeys
  BY <1>5 DEF MeterKeys, TransactionKeys, RetryKeys, SmartChargingKeys
<1>7. /\ DOMAIN R2 = DOMAIN MeterKeys \cup DOMAIN R3
      /\ \A k \in DOMAIN MeterKeys : R2[k] = MeterKeys[k]
      /\ \A k \in DOMAIN R3 : R2[k] = R3[k]
  BY <1>6, OverTables
<1> HIDE DEF R2
<1>8. /\ DOMAIN R2 = DOMAIN MeterKeys \cup DOMAIN TransactionKeys \cup DOMAIN RetryKeys \cup DOMAIN
          SmartChargingKeys
      /\ \A k \in DOMAIN MeterKeys : R2[k] = MeterKeys[k]
      /\ \A k \in DOMAIN TransactionKeys : R2[k] = TransactionKeys[k]
      /\ \A k \in DOMAIN RetryKeys : R2[k] = RetryKeys[k]
      /\ \A k \in DOMAIN SmartChargingKeys : R2[k] = SmartChargingKeys[k]
  BY <1>7, <1>5
<1>9. \A k \in DOMAIN R2 : k \notin DOMAIN IntervalKeys
  BY <1>8 DEF IntervalKeys, MeterKeys, TransactionKeys, RetryKeys, SmartChargingKeys
<1>10. /\ DOMAIN R1 = DOMAIN IntervalKeys \cup DOMAIN R2
       /\ \A k \in DOMAIN IntervalKeys : R1[k] = IntervalKeys[k]
       /\ \A k \in DOMAIN R2 : R1[k] = R2[k]
  BY <1>9, OverTables
<1> HIDE DEF R1
<1>11. /\ DOMAIN R1 = DOMAIN IntervalKeys \cup DOMAIN MeterKeys \cup DOMAIN TransactionKeys \cup
          DOMAIN RetryKeys \cup DOMAIN SmartChargingKeys
       /\ \A k \in DOMAIN IntervalKeys : R1[k] = IntervalKeys[k]
       /\ \A k \in DOMAIN MeterKeys : R1[k] = MeterKeys[k]
       /\ \A k \in DOMAIN TransactionKeys : R1[k] = TransactionKeys[k]
       /\ \A k \in DOMAIN RetryKeys : R1[k] = RetryKeys[k]
       /\ \A k \in DOMAIN SmartChargingKeys : R1[k] = SmartChargingKeys[k]
  BY <1>10, <1>8
<1>12. CoreKeys = R1
  BY DEF R1, R2, R3, R4, CoreKeys
<1> QED  BY <1>11, <1>12

\* No key is in two tables, and so each is found in its own.
LEMMA OtherTables ==
    /\ DOMAIN OtherKeys = DOMAIN SecurityKeys \cup DOMAIN PlugAndChargeKeys \cup DOMAIN
          CertificateSubjectKeys \cup DOMAIN PricingKeys \cup DOMAIN LanguageKeys
    /\ \A k \in DOMAIN SecurityKeys : OtherKeys[k] = SecurityKeys[k]
    /\ \A k \in DOMAIN PlugAndChargeKeys : OtherKeys[k] = PlugAndChargeKeys[k]
    /\ \A k \in DOMAIN CertificateSubjectKeys : OtherKeys[k] = CertificateSubjectKeys[k]
    /\ \A k \in DOMAIN PricingKeys : OtherKeys[k] = PricingKeys[k]
    /\ \A k \in DOMAIN LanguageKeys : OtherKeys[k] = LanguageKeys[k]
<1> DEFINE R5 == LanguageKeys
<1> DEFINE R4 == Over(PricingKeys, R5)
<1> DEFINE R3 == Over(CertificateSubjectKeys, R4)
<1> DEFINE R2 == Over(PlugAndChargeKeys, R3)
<1> DEFINE R1 == Over(SecurityKeys, R2)
<1>1. \A k \in DOMAIN R5 : k \notin DOMAIN PricingKeys
  BY DEF PricingKeys, LanguageKeys
<1>2. /\ DOMAIN R4 = DOMAIN PricingKeys \cup DOMAIN LanguageKeys
      /\ \A k \in DOMAIN PricingKeys : R4[k] = PricingKeys[k]
      /\ \A k \in DOMAIN LanguageKeys : R4[k] = LanguageKeys[k]
  BY <1>1, OverTables
<1> HIDE DEF R4
<1>3. \A k \in DOMAIN R4 : k \notin DOMAIN CertificateSubjectKeys
  BY <1>2 DEF CertificateSubjectKeys, PricingKeys, LanguageKeys
<1>4. /\ DOMAIN R3 = DOMAIN CertificateSubjectKeys \cup DOMAIN R4
      /\ \A k \in DOMAIN CertificateSubjectKeys : R3[k] = CertificateSubjectKeys[k]
      /\ \A k \in DOMAIN R4 : R3[k] = R4[k]
  BY <1>3, OverTables
<1> HIDE DEF R3
<1>5. /\ DOMAIN R3 = DOMAIN CertificateSubjectKeys \cup DOMAIN PricingKeys \cup DOMAIN LanguageKeys
      /\ \A k \in DOMAIN CertificateSubjectKeys : R3[k] = CertificateSubjectKeys[k]
      /\ \A k \in DOMAIN PricingKeys : R3[k] = PricingKeys[k]
      /\ \A k \in DOMAIN LanguageKeys : R3[k] = LanguageKeys[k]
  BY <1>4, <1>2
<1>6. \A k \in DOMAIN R3 : k \notin DOMAIN PlugAndChargeKeys
  BY <1>5 DEF PlugAndChargeKeys, CertificateSubjectKeys, PricingKeys, LanguageKeys
<1>7. /\ DOMAIN R2 = DOMAIN PlugAndChargeKeys \cup DOMAIN R3
      /\ \A k \in DOMAIN PlugAndChargeKeys : R2[k] = PlugAndChargeKeys[k]
      /\ \A k \in DOMAIN R3 : R2[k] = R3[k]
  BY <1>6, OverTables
<1> HIDE DEF R2
<1>8. /\ DOMAIN R2 = DOMAIN PlugAndChargeKeys \cup DOMAIN CertificateSubjectKeys \cup DOMAIN
          PricingKeys \cup DOMAIN LanguageKeys
      /\ \A k \in DOMAIN PlugAndChargeKeys : R2[k] = PlugAndChargeKeys[k]
      /\ \A k \in DOMAIN CertificateSubjectKeys : R2[k] = CertificateSubjectKeys[k]
      /\ \A k \in DOMAIN PricingKeys : R2[k] = PricingKeys[k]
      /\ \A k \in DOMAIN LanguageKeys : R2[k] = LanguageKeys[k]
  BY <1>7, <1>5
<1>9. \A k \in DOMAIN R2 : k \notin DOMAIN SecurityKeys
  BY <1>8 DEF SecurityKeys, PlugAndChargeKeys, CertificateSubjectKeys, PricingKeys,
         LanguageKeys
<1>10. /\ DOMAIN R1 = DOMAIN SecurityKeys \cup DOMAIN R2
       /\ \A k \in DOMAIN SecurityKeys : R1[k] = SecurityKeys[k]
       /\ \A k \in DOMAIN R2 : R1[k] = R2[k]
  BY <1>9, OverTables
<1> HIDE DEF R1
<1>11. /\ DOMAIN R1 = DOMAIN SecurityKeys \cup DOMAIN PlugAndChargeKeys \cup DOMAIN
          CertificateSubjectKeys \cup DOMAIN PricingKeys \cup DOMAIN LanguageKeys
       /\ \A k \in DOMAIN SecurityKeys : R1[k] = SecurityKeys[k]
       /\ \A k \in DOMAIN PlugAndChargeKeys : R1[k] = PlugAndChargeKeys[k]
       /\ \A k \in DOMAIN CertificateSubjectKeys : R1[k] = CertificateSubjectKeys[k]
       /\ \A k \in DOMAIN PricingKeys : R1[k] = PricingKeys[k]
       /\ \A k \in DOMAIN LanguageKeys : R1[k] = LanguageKeys[k]
  BY <1>10, <1>8
<1>12. OtherKeys = R1
  BY DEF R1, R2, R3, R4, OtherKeys
<1> QED  BY <1>11, <1>12

LEMMA KeyLookup ==
    /\ DOMAIN KeyTable = DOMAIN InternalKeys \cup DOMAIN CoreKeys \cup DOMAIN OtherKeys
    /\ \A k \in DOMAIN InternalKeys : KeyTable[k] = InternalKeys[k]
    /\ \A k \in DOMAIN CoreKeys : KeyTable[k] = CoreKeys[k]
    /\ \A k \in DOMAIN OtherKeys : KeyTable[k] = OtherKeys[k]
<1>1. \A k \in DOMAIN CoreKeys : k \notin DOMAIN InternalKeys
  BY InternalTables, CoreTables, StationDomain
     DEF StationAccess, TransportAccess, ScheduleDefaults, WebsocketKeys, QueueKeys,
         IntervalKeys, MeterKeys, TransactionKeys, RetryKeys, SmartChargingKeys
<1>2. \A k \in DOMAIN OtherKeys : k \notin DOMAIN InternalKeys
  BY InternalTables, OtherTables, StationDomain
     DEF StationAccess, TransportAccess, ScheduleDefaults, WebsocketKeys, QueueKeys,
         SecurityKeys, PlugAndChargeKeys, CertificateSubjectKeys, PricingKeys, LanguageKeys
<1>3. \A k \in DOMAIN OtherKeys : k \notin DOMAIN CoreKeys
  BY CoreTables, OtherTables
     DEF IntervalKeys, MeterKeys, TransactionKeys, RetryKeys, SmartChargingKeys,
         SecurityKeys, PlugAndChargeKeys, CertificateSubjectKeys, PricingKeys, LanguageKeys
<1> DEFINE R == Over(CoreKeys, OtherKeys)
<1>4. /\ DOMAIN R = DOMAIN CoreKeys \cup DOMAIN OtherKeys
      /\ \A k \in DOMAIN CoreKeys : R[k] = CoreKeys[k]
      /\ \A k \in DOMAIN OtherKeys : R[k] = OtherKeys[k]
  BY <1>3, OverTables
<1> HIDE DEF R
<1>5. \A k \in DOMAIN R : k \notin DOMAIN InternalKeys
  BY <1>1, <1>2, <1>4
<1>6. /\ DOMAIN Over(InternalKeys, R) = DOMAIN InternalKeys \cup DOMAIN R
      /\ \A k \in DOMAIN InternalKeys : Over(InternalKeys, R)[k] = InternalKeys[k]
      /\ \A k \in DOMAIN R : Over(InternalKeys, R)[k] = R[k]
  BY <1>5, OverTables
<1> QED  BY <1>4, <1>6 DEF KeyTable, R


-----------------------------------------------------------------------------
(* The types of the keys that can be set.                                  *)

LEMMA FlagTypes == \A k \in Flags \cup UncheckedFlags : k \in DOMAIN KeyTable /\ KeyTable[k].type = "bool"
<1>1. \A k \in {"AllowOfflineTxForUnknownId", "AuthorizationCacheEnabled",
                "AuthorizeRemoteTxRequests"} :
        k \in DOMAIN KeyTable /\ KeyTable[k].type = "bool"
  <2>1. \A k \in {"AllowOfflineTxForUnknownId", "AuthorizationCacheEnabled",
                  "AuthorizeRemoteTxRequests"} :
          k \in DOMAIN QueueKeys /\ QueueKeys[k].type = "bool"
    BY DEF QueueKeys, RO, RW, OptionalRO, OptionalRW, Schema, Own, Key
  <2> QED  BY <2>1, KeyLookup, InternalTables
<1>2. \A k \in {"LocalAuthorizeOffline", "LocalPreAuthorize"} :
        k \in DOMAIN KeyTable /\ KeyTable[k].type = "bool"
  <2>1. \A k \in {"LocalAuthorizeOffline", "LocalPreAuthorize"} :
          k \in DOMAIN MeterKeys /\ MeterKeys[k].type = "bool"
    BY DEF MeterKeys, RO, RW, OptionalRO, OptionalRW, Schema, Own, Key
  <2> QED  BY <2>1, KeyLookup, CoreTables
<1>3. \A k \in {"StopTransactionOnInvalidId"} :
        k \in DOMAIN KeyTable /\ KeyTable[k].type = "bool"
  <2>1. \A k \in {"StopTransactionOnInvalidId"} :
          k \in DOMAIN TransactionKeys /\ TransactionKeys[k].type = "bool"
    BY DEF TransactionKeys, RO, RW, OptionalRO, OptionalRW, Schema, Own, Key
  <2> QED  BY <2>1, KeyLookup, CoreTables
<1>4. \A k \in {"UnlockConnectorOnEVSideDisconnect"} :
        k \in DOMAIN KeyTable /\ KeyTable[k].type = "bool"
  <2>1. \A k \in {"UnlockConnectorOnEVSideDisconnect"} :
          k \in DOMAIN RetryKeys /\ RetryKeys[k].type = "bool"
    BY DEF RetryKeys, RO, RW, OptionalRO, OptionalRW, Schema, Own, Key
  <2> QED  BY <2>1, KeyLookup, CoreTables
<1>5. \A k \in {"StopTransactionIfUnlockNotSupported"} :
        k \in DOMAIN KeyTable /\ KeyTable[k].type = "bool"
  <2>1. \A k \in {"StopTransactionIfUnlockNotSupported"} :
          k \in DOMAIN WebsocketKeys /\ WebsocketKeys[k].type = "bool"
    BY DEF WebsocketKeys, RO, RW, OptionalRO, OptionalRW, Schema, Own, Key
  <2> QED  BY <2>1, KeyLookup, InternalTables
<1>6. \A k \in {"LocalAuthListEnabled", "DisableSecurityEventNotifications"} :
        k \in DOMAIN KeyTable /\ KeyTable[k].type = "bool"
  <2>1. \A k \in {"LocalAuthListEnabled", "DisableSecurityEventNotifications"} :
          k \in DOMAIN SecurityKeys /\ SecurityKeys[k].type = "bool"
    BY DEF SecurityKeys, RO, RW, OptionalRO, OptionalRW, Schema, Own, Key
  <2> QED  BY <2>1, KeyLookup, OtherTables
<1>7. \A k \in {"CentralContractValidationAllowed", "ContractValidationOffline",
                "ISO15118CertificateManagementEnabled", "ISO15118PnCEnabled"} :
        k \in DOMAIN KeyTable /\ KeyTable[k].type = "bool"
  <2>1. \A k \in {"CentralContractValidationAllowed", "ContractValidationOffline",
                  "ISO15118CertificateManagementEnabled", "ISO15118PnCEnabled"} :
          k \in DOMAIN PlugAndChargeKeys /\ PlugAndChargeKeys[k].type = "bool"
    BY DEF PlugAndChargeKeys, RO, RW, OptionalRO, OptionalRW, Schema, Own, Key
  <2> QED  BY <2>1, KeyLookup, OtherTables
<1>8. \A k \in {"AllowChargingProfileWithoutStartSchedule"} :
        k \in DOMAIN KeyTable /\ KeyTable[k].type = "bool"
  <2>1. \A k \in {"AllowChargingProfileWithoutStartSchedule"} :
          k \in DOMAIN CertificateSubjectKeys /\ CertificateSubjectKeys[k].type = "bool"
    BY DEF CertificateSubjectKeys, RO, RW, OptionalRO, OptionalRW, Schema, Own, Key
  <2> QED  BY <2>1, KeyLookup, OtherTables
<1>9. \A k \in {"CustomIdleFeeAfterStop"} :
        k \in DOMAIN KeyTable /\ KeyTable[k].type = "bool"
  <2>1. \A k \in {"CustomIdleFeeAfterStop"} :
          k \in DOMAIN LanguageKeys /\ LanguageKeys[k].type = "bool"
    BY DEF LanguageKeys, RO, RW, OptionalRO, OptionalRW, Schema, Own, Key
  <2> QED  BY <2>1, KeyLookup, OtherTables
<1> QED  BY <1>1, <1>2, <1>3, <1>4, <1>5, <1>6, <1>7, <1>8, <1>9 DEF Flags, UncheckedFlags

LEMMA CountTypes == \A k \in Counts \cup {"CompositeScheduleDefaultNumberPhases"} : k \in DOMAIN KeyTable /\ KeyTable[k].type = "int"
<1>1. \A k \in {"BlinkRepeat", "ClockAlignedDataInterval", "ConnectionTimeOut", "HeartbeatInterval",
                "LightIntensity"} :
        k \in DOMAIN KeyTable /\ KeyTable[k].type = "int"
  <2>1. \A k \in {"BlinkRepeat", "ClockAlignedDataInterval", "ConnectionTimeOut",
                  "HeartbeatInterval", "LightIntensity"} :
          k \in DOMAIN IntervalKeys /\ IntervalKeys[k].type = "int"
    BY DEF IntervalKeys, RO, RW, OptionalRO, OptionalRW, Schema, Own, Key
  <2> QED  BY <2>1, KeyLookup, CoreTables
<1>2. \A k \in {"MaxEnergyOnInvalidId"} :
        k \in DOMAIN KeyTable /\ KeyTable[k].type = "int"
  <2>1. \A k \in {"MaxEnergyOnInvalidId"} :
          k \in DOMAIN MeterKeys /\ MeterKeys[k].type = "int"
    BY DEF MeterKeys, RO, RW, OptionalRO, OptionalRW, Schema, Own, Key
  <2> QED  BY <2>1, KeyLookup, CoreTables
<1>3. \A k \in {"MeterValueSampleInterval", "MinimumStatusDuration", "ResetRetries"} :
        k \in DOMAIN KeyTable /\ KeyTable[k].type = "int"
  <2>1. \A k \in {"MeterValueSampleInterval", "MinimumStatusDuration", "ResetRetries"} :
          k \in DOMAIN TransactionKeys /\ TransactionKeys[k].type = "int"
    BY DEF TransactionKeys, RO, RW, OptionalRO, OptionalRW, Schema, Own, Key
  <2> QED  BY <2>1, KeyLookup, CoreTables
<1>4. \A k \in {"OcspRequestInterval", "CertSigningWaitMinimum", "CertSigningRepeatTimes"} :
        k \in DOMAIN KeyTable /\ KeyTable[k].type = "int"
  <2>1. \A k \in {"OcspRequestInterval", "CertSigningWaitMinimum", "CertSigningRepeatTimes"} :
          k \in DOMAIN PlugAndChargeKeys /\ PlugAndChargeKeys[k].type = "int"
    BY DEF PlugAndChargeKeys, RO, RW, OptionalRO, OptionalRW, Schema, Own, Key
  <2> QED  BY <2>1, KeyLookup, OtherTables
<1>5. \A k \in {"WaitForStopTransactionsOnResetTimeout"} :
        k \in DOMAIN KeyTable /\ KeyTable[k].type = "int"
  <2>1. \A k \in {"WaitForStopTransactionsOnResetTimeout"} :
          k \in DOMAIN PricingKeys /\ PricingKeys[k].type = "int"
    BY DEF PricingKeys, RO, RW, OptionalRO, OptionalRW, Schema, Own, Key
  <2> QED  BY <2>1, KeyLookup, OtherTables
<1>6. \A k \in {"TransactionMessageAttempts", "TransactionMessageRetryInterval"} :
        k \in DOMAIN KeyTable /\ KeyTable[k].type = "int"
  <2>1. \A k \in {"TransactionMessageAttempts", "TransactionMessageRetryInterval"} :
          k \in DOMAIN RetryKeys /\ RetryKeys[k].type = "int"
    BY DEF RetryKeys, RO, RW, OptionalRO, OptionalRW, Schema, Own, Key
  <2> QED  BY <2>1, KeyLookup, CoreTables
<1>7. \A k \in {"WebSocketPingInterval"} :
        k \in DOMAIN KeyTable /\ KeyTable[k].type = "int"
  <2>1. \A k \in {"WebSocketPingInterval"} :
          k \in DOMAIN SmartChargingKeys /\ SmartChargingKeys[k].type = "int"
    BY DEF SmartChargingKeys, RO, RW, OptionalRO, OptionalRW, Schema, Own, Key
  <2> QED  BY <2>1, KeyLookup, CoreTables
<1>8. \A k \in {"CompositeScheduleDefaultLimitAmps", "CompositeScheduleDefaultLimitWatts",
                "SupplyVoltage", "CompositeScheduleDefaultNumberPhases"} :
        k \in DOMAIN KeyTable /\ KeyTable[k].type = "int"
  <2>1. \A k \in {"CompositeScheduleDefaultLimitAmps", "CompositeScheduleDefaultLimitWatts",
                  "SupplyVoltage", "CompositeScheduleDefaultNumberPhases"} :
          k \in DOMAIN ScheduleDefaults /\ ScheduleDefaults[k].type = "int"
    BY DEF ScheduleDefaults, RO, RW, OptionalRO, OptionalRW, Schema, Own, Key
  <2> QED  BY <2>1, KeyLookup, InternalTables
<1>9. \A k \in {"WaitForSetUserPriceTimeout"} :
        k \in DOMAIN KeyTable /\ KeyTable[k].type = "int"
  <2>1. \A k \in {"WaitForSetUserPriceTimeout"} :
          k \in DOMAIN LanguageKeys /\ LanguageKeys[k].type = "int"
    BY DEF LanguageKeys, RO, RW, OptionalRO, OptionalRW, Schema, Own, Key
  <2> QED  BY <2>1, KeyLookup, OtherTables
<1> QED  BY <1>1, <1>2, <1>3, <1>4, <1>5, <1>6, <1>7, <1>8, <1>9 DEF Counts

TextKeys ==
    Measurands \cup
    {"IgnoredProfilePurposesOffline", "ConnectorPhaseRotation", "SeccLeafSubjectCommonName",
     "SeccLeafSubjectCountry", "SeccLeafSubjectOrganization", "ConnectorEvseIds",
     "DefaultPriceText", "DefaultPrice", "TimeOffset", "TimeOffsetNextTransition",
     "NextTimeOffsetTransitionDateTime", "CpoName", "CentralSystemURI"}

LEMMA TextTypes == \A k \in TextKeys : k \in DOMAIN KeyTable /\ KeyTable[k].type = "text"
<1>1. \A k \in {"IgnoredProfilePurposesOffline", "CentralSystemURI"} :
        k \in DOMAIN KeyTable /\ KeyTable[k].type = "text"
  <2>1. \A k \in {"IgnoredProfilePurposesOffline", "CentralSystemURI"} :
          k \in DOMAIN StationKeys /\ StationKeys[k].type = "text"
    BY DEF StationKeys, StationAccess, TransportAccess, StationValues, TransportValues, Over, Key, Always, Maybe
  <2> QED  BY <2>1, KeyLookup, InternalTables
<1>2. \A k \in {"ConnectorPhaseRotation"} :
        k \in DOMAIN KeyTable /\ KeyTable[k].type = "text"
  <2>1. \A k \in {"ConnectorPhaseRotation"} :
          k \in DOMAIN IntervalKeys /\ IntervalKeys[k].type = "text"
    BY DEF IntervalKeys, RO, RW, OptionalRO, OptionalRW, Schema, Own, Key
  <2> QED  BY <2>1, KeyLookup, CoreTables
<1>3. \A k \in {"MeterValuesAlignedData", "MeterValuesSampledData"} :
        k \in DOMAIN KeyTable /\ KeyTable[k].type = "text"
  <2>1. \A k \in {"MeterValuesAlignedData", "MeterValuesSampledData"} :
          k \in DOMAIN MeterKeys /\ MeterKeys[k].type = "text"
    BY DEF MeterKeys, RO, RW, OptionalRO, OptionalRW, Schema, Own, Key
  <2> QED  BY <2>1, KeyLookup, CoreTables
<1>4. \A k \in {"StopTxnAlignedData"} :
        k \in DOMAIN KeyTable /\ KeyTable[k].type = "text"
  <2>1. \A k \in {"StopTxnAlignedData"} :
          k \in DOMAIN TransactionKeys /\ TransactionKeys[k].type = "text"
    BY DEF TransactionKeys, RO, RW, OptionalRO, OptionalRW, Schema, Own, Key
  <2> QED  BY <2>1, KeyLookup, CoreTables
<1>5. \A k \in {"StopTxnSampledData"} :
        k \in DOMAIN KeyTable /\ KeyTable[k].type = "text"
  <2>1. \A k \in {"StopTxnSampledData"} :
          k \in DOMAIN RetryKeys /\ RetryKeys[k].type = "text"
    BY DEF RetryKeys, RO, RW, OptionalRO, OptionalRW, Schema, Own, Key
  <2> QED  BY <2>1, KeyLookup, CoreTables
<1>6. \A k \in {"SeccLeafSubjectCommonName", "SeccLeafSubjectCountry",
                "SeccLeafSubjectOrganization", "ConnectorEvseIds"} :
        k \in DOMAIN KeyTable /\ KeyTable[k].type = "text"
  <2>1. \A k \in {"SeccLeafSubjectCommonName", "SeccLeafSubjectCountry",
                  "SeccLeafSubjectOrganization", "ConnectorEvseIds"} :
          k \in DOMAIN CertificateSubjectKeys /\ CertificateSubjectKeys[k].type = "text"
    BY DEF CertificateSubjectKeys, RO, RW, OptionalRO, OptionalRW, Schema, Own, Key
  <2> QED  BY <2>1, KeyLookup, OtherTables
<1>7. \A k \in {"DefaultPriceText", "DefaultPrice", "TimeOffset", "TimeOffsetNextTransition",
                "NextTimeOffsetTransitionDateTime"} :
        k \in DOMAIN KeyTable /\ KeyTable[k].type = "text"
  <2>1. \A k \in {"DefaultPriceText", "DefaultPrice", "TimeOffset", "TimeOffsetNextTransition",
                  "NextTimeOffsetTransitionDateTime"} :
          k \in DOMAIN PricingKeys /\ PricingKeys[k].type = "text"
    BY DEF PricingKeys, RO, RW, OptionalRO, OptionalRW, Schema, Own, Key
  <2> QED  BY <2>1, KeyLookup, OtherTables
<1>8. \A k \in {"CpoName"} :
        k \in DOMAIN KeyTable /\ KeyTable[k].type = "text"
  <2>1. \A k \in {"CpoName"} :
          k \in DOMAIN SecurityKeys /\ SecurityKeys[k].type = "text"
    BY DEF SecurityKeys, RO, RW, OptionalRO, OptionalRW, Schema, Own, Key
  <2> QED  BY <2>1, KeyLookup, OtherTables
<1> QED  BY <1>1, <1>2, <1>3, <1>4, <1>5, <1>6, <1>7, <1>8 DEF TextKeys, Measurands

\* The keys that are only looked up.
LEMMA OtherLookups ==
    /\ Iso \in DOMAIN KeyTable /\ KeyTable[Iso].section = "PnC"
    /\ "SecurityProfile" \in DOMAIN KeyTable /\ "HeartbeatInterval" \in DOMAIN KeyTable
    /\ "AuthorizationKey" \in DOMAIN KeyTable
<1>1. Iso \in DOMAIN PlugAndChargeKeys /\ PlugAndChargeKeys[Iso].section = "PnC"
  BY DEF Iso, PlugAndChargeKeys, RW, Key
<1>2. "SecurityProfile" \in DOMAIN SecurityKeys /\ "AuthorizationKey" \in DOMAIN SecurityKeys
      /\ "HeartbeatInterval" \in DOMAIN IntervalKeys
  BY DEF SecurityKeys, IntervalKeys
<1> QED  BY <1>1, <1>2, KeyLookup, OtherTables, CoreTables

-----------------------------------------------------------------------------
(* RunningFollows.                                                         *)

LEMMA PartNames ==
    /\ Always5 \subseteq DOMAIN Settings /\ Registered \subseteq DOMAIN Settings
    /\ DOMAIN Settings \cap Timers = {}
    /\ Timers = {"ocsp", "v2g", "offset"}
    /\ Parts = DOMAIN Settings \cup Timers
    /\ \A s \in Always5 : s \notin {"ocsp", "v2g", "offset", "heartbeat", "clock"}
    /\ \A s \in Registered : s \notin {"ocsp", "v2g", "offset"}
    /\ \A s \in Always5 : Settings[s] \notin {"HeartbeatInterval", "ClockAlignedDataInterval"}
    /\ \A s \in DOMAIN Settings : s \notin Timers
BY SettingsTable DEF Always5, Registered, Timers, Parts

\* A changed key that only reconfigures something: the parts follow it.
LEMMA ReconfiguredFollows ==
    ASSUME NEW k, NEW t, NEW written, SetKey(k, Stored(k, t), written), get(k),
           running' = Reconfigured(k, Stored(k, t), config'),
           DOMAIN running = Parts, Follows(running, config, boot)
    PROVE  DOMAIN running' = Parts /\ Follows(running', config', boot)
<1> DEFINE v == Stored(k, t)
<1>v. Value(config', k) = v /\ \A x : x # k => Value(config', x) = Value(config, x)
  BY SetKeyValue
<1>1. DOMAIN running' = Parts
  BY DEF Reconfigured
<1>2. \A s \in DOMAIN Settings : running'[s] = IF Settings[s] = k THEN v ELSE running[s]
  BY PartNames DEF Reconfigured
<1>3. ASSUME NEW s \in DOMAIN Settings, running[s] = Value(config, Settings[s])
      PROVE  running'[s] = Value(config', Settings[s])
  BY <1>2, <1>3, <1>v
<1>4. (running["ocsp"] \/ running["v2g"]) => is_iso15118_certificate_management_enabled(config)
  BY DEF Follows
<1>5. k # Iso => (is_iso15118_certificate_management_enabled(config')
                    <=> is_iso15118_certificate_management_enabled(config))
  BY <1>v, IsoEnabled
<1>6. ASSUME running'["ocsp"] \/ running'["v2g"]
      PROVE  is_iso15118_certificate_management_enabled(config')
  <2>1. CASE k = Iso
    <3>1. v = BoolValue(string_to_bool(t))
      BY <2>1 DEF Stored, Flags, UncheckedFlags, Counts, Iso
    <3>2. running'["ocsp"] = v.bool /\ running'["v2g"] = v.bool
      BY <2>1, PartNames DEF Reconfigured, Iso
    <3>3. string_to_bool(t)
      BY <3>1, <3>2, <1>6 DEF BoolValue
    <3>4. v = BoolValue(TRUE)
      BY <3>1, <3>3 DEF string_to_bool
    <3>5. "PnC" \in station.profiles
      BY <2>1, OtherLookups DEF get, getSupportedFeatureProfilesSet
    <3> QED  BY <2>1, <3>4, <3>5, <1>v DEF is_iso15118_certificate_management_enabled, Iso
  <2>2. CASE k # Iso
    <3>1. running'["v2g"] = running["v2g"]
      BY <2>2, PartNames DEF Reconfigured, Iso
    <3>2. CASE k = "OcspRequestInterval"
      <4>1. running'["ocsp"] = (running["ocsp"] \/ is_iso15118_certificate_management_enabled(config'))
        BY <2>2, <3>2, PartNames DEF Reconfigured, Iso
      <4> QED  BY <4>1, <3>1, <1>4, <1>5, <1>6, <2>2
    <3>3. CASE k # "OcspRequestInterval"
      <4>1. running'["ocsp"] = running["ocsp"]
        BY <2>2, <3>3, PartNames DEF Reconfigured, Iso
      <4> QED  BY <4>1, <3>1, <1>4, <1>5, <1>6, <2>2
    <3> QED  BY <3>2, <3>3
  <2> QED  BY <2>1, <2>2
<1> HIDE DEF v
<1> QED  BY <1>1, <1>3, <1>6, PartNames DEF Follows

\* Where the keys that parts follow are not.
LEMMA NotFollowed ==
    \A k \in {"AuthorizationKey", "SecurityProfile", "CentralSystemURI", "TimeOffset"} : k \notin Followed
BY SettingsTable DEF Followed, Iso, Always5, Registered

LEMMA KeptBySetKey ==
    ASSUME NEW k, NEW v, NEW written, SetKey(k, v, written), k \notin Followed
    PROVE  \A run, reg : Follows(run, config, reg) => Follows(run, config', reg)
BY SetUnfollowed, FollowsKept

LEMMA InformationNotFollowed ==
    \A what \in DOMAIN Information : Information[what] \cap Followed = {}
BY SettingsTable DEF Information, Followed, Iso, Always5, Registered

\* Whatever the process does, the parts follow the configuration.
LEMMA RunningKept ==
    ASSUME RunInv, [Next]_vars
    PROVE  RunInv'
<1> USE DEF RunInv
<1>d. DOMAIN running = Parts
  OBVIOUS
<1>f. process = "running" => Follows(running, config, boot)
  BY FollowsNow
<1>s. Parts' = Parts
  BY DEF Parts
<1>g. ASSUME UNCHANGED station, DOMAIN running' = Parts,
             process' = "running" => Follows(running', config', boot')
      PROVE  RunInv'
  BY <1>g, <1>s, FollowsNext
<1>1. CASE ChangeConfiguration
  <2>1. PICK k \in Requestable, t \in DOMAIN Texts, written \in BOOLEAN :
            set_configuration_key_internal(k, t, written)
    BY <1>1 DEF ChangeConfiguration
  <2>2. process = "running" /\ UNCHANGED <<station, process, boot>>
    BY <1>1, <2>1 DEF ChangeConfiguration, set_configuration_key_internal
  <2>3. CASE k = "SecurityProfile"
    <3>1. UNCHANGED <<config, running>>
      BY <2>1, <2>3 DEF set_configuration_key_internal, ChangeSecurityProfile
    <3> QED  BY <2>2, <3>1, <1>d, <1>f, <1>g
  <2>4. CASE k = "AuthorizationKey"
    <3>1. SetKey(k, Stored(k, t), written) /\ UNCHANGED running
      BY <2>1, <2>4 DEF set_configuration_key_internal, ChangeAuthorizationKey
    <3>2. Follows(running, config', boot)
      BY <3>1, <2>2, <2>4, <1>f, KeptBySetKey, NotFollowed
    <3> QED  BY <2>2, <3>1, <3>2, <1>d, <1>g
  <2>5. CASE k \notin {"SecurityProfile", "AuthorizationKey"}
    <3>1. ChangeOther(k, t, written) /\ get(k)
      BY <2>1, <2>5 DEF set_configuration_key_internal
    <3>2. SetKey(k, Stored(k, t), written)
      BY <3>1 DEF ChangeOther
    <3>3. CASE k = "CentralSystemURI"
      <4>1. UNCHANGED running
        BY <3>1, <3>3 DEF ChangeOther
      <4>2. Follows(running, config', boot)
        BY <3>2, <2>2, <3>3, <1>f, KeptBySetKey, NotFollowed
      <4> QED  BY <2>2, <4>1, <4>2, <1>d, <1>g
    <3>4. CASE k # "CentralSystemURI"
      <4>1. running' = Reconfigured(k, Stored(k, t), config')
        BY <3>1, <3>4 DEF ChangeOther
      <4>2. DOMAIN running' = Parts /\ Follows(running', config', boot)
        BY <4>1, <3>1, <3>2, <2>2, <1>d, <1>f, ReconfiguredFollows
      <4> QED  BY <4>2, <2>2, <1>g
    <3> QED  BY <3>3, <3>4
  <2> QED  BY <2>3, <2>4, <2>5
<1>2. ASSUME NEW status \in {"Accepted", "Pending"}, NEW interval \in {0, 300},
             BootNotificationResponse(status, interval)
      PROVE  RunInv'
  <2>1. process = "running" /\ boot' = status /\ UNCHANGED <<station, process>>
    BY <1>2 DEF BootNotificationResponse
  <2>2. \A x : x # "HeartbeatInterval" => Value(config', x) = Value(config, x)
    <3>1. CASE interval > 0
      BY <1>2, <3>1, SetKeyValue DEF BootNotificationResponse
    <3>2. CASE ~(interval > 0)
      BY <1>2, <3>2 DEF BootNotificationResponse
    <3> QED  BY <3>1, <3>2
  <2>3. /\ \A s \in Always5 : running[s] = Value(config', Settings[s])
        /\ is_iso15118_certificate_management_enabled(config')
              = is_iso15118_certificate_management_enabled(config)
    <3>1. \A s \in Always5 : running[s] = Value(config', Settings[s])
      BY <2>1, <2>2, <1>f, PartNames DEF Follows
    <3>2. Value(config', Iso) = Value(config, Iso)
      BY <2>2 DEF Iso
    <3> QED  BY <3>1, <3>2, IsoEnabled
  <2>4. CASE status # "Accepted"
    <3>1. UNCHANGED running
      BY <1>2, <2>4 DEF BootNotificationResponse
    <3> QED  BY <2>1, <2>3, <2>4, <3>1, <1>d, <1>f, <1>g DEF Follows
  <2>5. CASE status = "Accepted"
    <3>1. running' = [running EXCEPT
                        !.heartbeat = Value(config', "HeartbeatInterval"),
                        !.clock = Value(config', "ClockAlignedDataInterval"),
                        !.ocsp = @ \/ is_iso15118_certificate_management_enabled(config),
                        !.v2g = @ \/ is_iso15118_certificate_management_enabled(config)]
      BY <1>2, <2>5 DEF BootNotificationResponse
    <3>2. {"heartbeat", "clock", "ocsp", "v2g"} \subseteq DOMAIN running
      BY <1>d, SettingsTable DEF Parts, Timers, Registered
    <3>3. /\ DOMAIN running' = Parts
          /\ running'["heartbeat"] = Value(config', "HeartbeatInterval")
          /\ running'["clock"] = Value(config', "ClockAlignedDataInterval")
          /\ running'["ocsp"] = (running["ocsp"] \/ is_iso15118_certificate_management_enabled(config))
          /\ running'["v2g"] = (running["v2g"] \/ is_iso15118_certificate_management_enabled(config))
      BY <3>1, <3>2, <1>d
    <3>4. \A s \in Always5 : running'[s] = running[s]
      <4>1. \A s \in Parts : s \notin {"heartbeat", "clock", "ocsp", "v2g"} => running'[s] = running[s]
        BY <3>1, <1>d
      <4> QED  BY <4>1, PartNames
    <3>5. \A s \in Registered : running'[s] = Value(config', Settings[s])
      BY <3>3, SettingsTable DEF Registered
    <3>6. running'["ocsp"] \/ running'["v2g"] => is_iso15118_certificate_management_enabled(config')
      BY <3>3, <2>1, <2>3, <1>f DEF Follows
    <3>7. Follows(running', config', boot')
      BY <3>4, <3>5, <3>6, <2>3 DEF Follows
    <3> QED  BY <2>1, <3>3, <3>7, <1>g
  <2> QED  BY <2>4, <2>5
<1>3. CASE TimeOffsetTransition
  <2>1. /\ process = "running" /\ UNCHANGED <<station, process, boot>>
        /\ running' = [running EXCEPT !.offset = FALSE]
    BY <1>3 DEF TimeOffsetTransition
  <2>2. Follows(running, config', boot)
    <3>1. CASE Has("TimeOffsetNextTransition")
      <4>1. SetKey("TimeOffset", Value(config, "TimeOffsetNextTransition"), TRUE)
        BY <1>3, <3>1 DEF TimeOffsetTransition
      <4>2. \A x : x # "TimeOffset" => Value(config', x) = Value(config, x)
        BY <4>1, WithValue DEF SetKey
      <4>3. /\ \A s \in DOMAIN Settings : Value(config', Settings[s]) = Value(config, Settings[s])
            /\ Value(config', Iso) = Value(config, Iso)
        BY <4>2, NotFollowed DEF Followed
      <4> QED  BY <4>3, <2>1, <1>f, FollowsKept
    <3>2. CASE ~Has("TimeOffsetNextTransition")
      BY <1>3, <3>2, <2>1, <1>f DEF TimeOffsetTransition
    <3> QED  BY <3>1, <3>2
  <2>3. DOMAIN running' = Parts /\ \A s \in Parts : s # "offset" => running'[s] = running[s]
    BY <2>1, <1>d
  <2>4. "ocsp" \in Parts /\ "v2g" \in Parts
    BY PartNames
  <2>5. Follows(running', config', boot')
    BY <2>1, <2>2, <2>3, <2>4, PartNames DEF Follows
  <2> QED  BY <2>1, <2>3, <2>5, <1>g
<1>4. ASSUME NEW what \in DOMAIN Information, SetInformation(Information[what])
      PROVE  RunInv'
  <2> DEFINE new == [k \in Information[what] |-> TextValue("words")]
  <2>1. /\ process = "running" /\ UNCHANGED <<station, process, boot, running>>
        /\ config' = Over(new, config)
    BY <1>4 DEF SetInformation
  <2>2. DOMAIN new = Information[what]
    OBVIOUS
  <2> HIDE DEF new
  <2>3. \A x : x \notin Information[what] => Value(config', x) = Value(config, x)
    BY <2>1, <2>2, OverValue
  <2>4. /\ \A s \in DOMAIN Settings : Value(config', Settings[s]) = Value(config, Settings[s])
        /\ Value(config', Iso) = Value(config, Iso)
    BY <2>3, InformationNotFollowed DEF Followed
  <2>5. Follows(running, config', boot)
    BY <2>4, <2>1, <1>f, FollowsKept
  <2> QED  BY <2>1, <2>5, <1>d, <1>g
<1>5. CASE ConnectionLost \/ StoppedConnecting
  <2>1. /\ process = "running" /\ UNCHANGED <<station, process, boot>>
        /\ running' = [running EXCEPT !.ocsp = FALSE, !.v2g = FALSE]
    BY <1>5 DEF ConnectionLost, StoppedConnecting, DisconnectedCallback
  <2>2. Follows(running, config', boot)
    <3>1. CASE UNCHANGED config
      BY <3>1, <2>1, <1>f
    <3>2. CASE ~UNCHANGED config
      <4>1. PICK written \in BOOLEAN :
                switchSecurityProfile(switch_security_profile_callback, written)
        BY <1>5, <3>2 DEF ConnectionLost, StoppedConnecting
      <4>2. \A x : x # "SecurityProfile" => Value(config', x) = Value(config, x)
        BY <4>1, WithValue DEF switchSecurityProfile, SetKey
      <4>3. /\ \A s \in DOMAIN Settings : Value(config', Settings[s]) = Value(config, Settings[s])
            /\ Value(config', Iso) = Value(config, Iso)
        BY <4>2, NotFollowed DEF Followed
      <4> QED  BY <4>3, <2>1, <1>f, FollowsKept
    <3> QED  BY <3>1, <3>2
  <2>3. /\ DOMAIN running' = Parts
        /\ \A s \in Parts : s \notin {"ocsp", "v2g"} => running'[s] = running[s]
        /\ ~running'["ocsp"] /\ ~running'["v2g"]
    BY <2>1, <1>d, PartNames
  <2>4. \A s \in DOMAIN Settings : running'[s] = running[s]
    BY <2>3, PartNames
  <2>5. Follows(running', config', boot')
    BY <2>1, <2>2, <2>3, <2>4, FollowsStopped
  <2> QED  BY <2>1, <2>3, <2>5, <1>g
<1>6. CASE StartConnecting \/ Connected \/ AttemptFails \/ RestartWhileWriting
  <2>1. process = "running" /\ UNCHANGED <<station, config, boot, running>>
    BY <1>6 DEF StartConnecting, Connected, AttemptFails, RestartWhileWriting
  <2> QED  BY <2>1, <1>d, <1>f, <1>g
<1>7. CASE Restart
  <2>1. UNCHANGED station /\ boot' = "none"
    BY <1>7 DEF Restart
  <2>2. CASE process' # "running"
    <3>1. UNCHANGED running
      BY <1>7, <2>2 DEF Restart, Start
    <3> QED  BY <2>1, <2>2, <3>1, <1>d, <1>g
  <2>3. CASE process' = "running"
    <3>1. PICK offset \in BOOLEAN : running' = Started(config', offset)
      BY <1>7, <2>3 DEF Restart, Start
    <3>2. /\ DOMAIN running' = Parts
          /\ \A s \in Always5 : running'[s] = Value(config', Settings[s])
          /\ ~running'["ocsp"] /\ ~running'["v2g"]
      BY <3>1, PartNames DEF Started
    <3> QED  BY <2>1, <3>2, <1>g DEF Follows
  <2> QED  BY <2>2, <2>3
<1>8. CASE UNCHANGED vars
  <2>1. UNCHANGED <<station, config, boot, running, process>>
    BY <1>8 DEF vars
  <2> QED  BY <2>1, <1>d, <1>f, <1>g
<1> QED  BY <1>1, <1>2, <1>3, <1>4, <1>5, <1>6, <1>7, <1>8 DEF Next

LEMMA RunInvAlways == Spec => []RunInv
<1>1. ASSUME Init PROVE RunInv
  <2>1. running = Started(config, FALSE) /\ boot = "none"
    BY <1>1 DEF Init
  <2>2. /\ DOMAIN running = Parts
        /\ \A s \in Always5 : running[s] = Value(config, Settings[s])
        /\ ~running["ocsp"] /\ ~running["v2g"]
    BY <2>1, PartNames DEF Started
  <2>3. Follows(running, config, boot)
    BY <2>1, <2>2 DEF Follows
  <2> QED  BY <2>2, <2>3, FollowsNow DEF RunInv
<1> QED  BY <1>1, RunningKept, PTL DEF Spec

\* Whatever the CSMS and the application change, whatever the websocket does
\* and however often the process is restarted: the message queue, the ping,
\* the timers and the meter values follow the configuration, and the
\* certificate timers only run while certificate management is enabled.
THEOREM PartsFollow == Spec => []RunningFollows
<1>1. RunInv => RunningFollows
  BY DEF RunInv
<1> QED  BY <1>1, RunInvAlways, PTL

-----------------------------------------------------------------------------
(* What is written is read again.                                          *)

\* The files agree with the memory, the keys of which a write failed apart.
Agree(cfg, usr, lost) ==
    \A k : k \notin lost \cup {"DefaultPrice"} => Value(usr, k) = Value(cfg, k)

SavedInv == process = "running" => Agree(config, user_config, unsaved)

LEMMA SavedNext ==
    ASSUME UNCHANGED station, process' = "running" => Agree(config', user_config', unsaved')
    PROVE  SavedInv'
BY PrimedValue DEF SavedInv, Agree

LEMMA SetKeySaves ==
    ASSUME NEW k, NEW written, Agree(config, user_config, unsaved)
    PROVE  \A v : SetKey(k, v, written) => Agree(config', user_config', unsaved')
<1> SUFFICES ASSUME NEW STATE v, SetKey(k, v, written)
             PROVE  Agree(config', user_config', unsaved')
  OBVIOUS
<1>1. /\ Value(config', k) = v
      /\ \A x : x # k => Value(config', x) = Value(config, x)
  BY WithValue DEF SetKey
<1>2. CASE written
  <2>1. user_config' = With(user_config, k, v) /\ unsaved' = unsaved \ {k}
    BY <1>2 DEF SetKey, setInUserConfig
  <2>2. /\ Value(user_config', k) = v
        /\ \A x : x # k => Value(user_config', x) = Value(user_config, x)
    BY <2>1, WithValue
  <2> QED  BY <1>1, <2>1, <2>2 DEF Agree
<1>3. CASE ~written
  <2>1. user_config' = user_config /\ unsaved' = unsaved \cup {k}
    BY <1>3 DEF SetKey, setInUserConfig
  <2> QED  BY <1>1, <2>1 DEF Agree
<1> QED  BY <1>2, <1>3

\* Reading the files again only merges the price.
LEMMA PatchValue ==
    \A cfg, k : k # "DefaultPrice" => Value(merge_patch(cfg), k) = Value(cfg, k)
BY DEF merge_patch, Value

LEMMA SavedKept ==
    ASSUME SavedInv, [Next]_vars
    PROVE  SavedInv'
<1>a. process = "running" => Agree(config, user_config, unsaved)
  BY DEF SavedInv
<1>1. CASE ChangeConfiguration
  <2>1. PICK k \in Requestable, t \in DOMAIN Texts, written \in BOOLEAN :
            set_configuration_key_internal(k, t, written)
    BY <1>1 DEF ChangeConfiguration
  <2>2. process = "running" /\ UNCHANGED <<station, process>>
    BY <1>1, <2>1 DEF ChangeConfiguration, set_configuration_key_internal
  <2>3. SetKey(k, Stored(k, t), written) \/ UNCHANGED <<config, user_config, unsaved>>
    BY <2>1 DEF set_configuration_key_internal, ChangeSecurityProfile, ChangeAuthorizationKey,
                ChangeOther, file
  <2> QED  BY <2>2, <2>3, <1>a, SetKeySaves, SavedNext
<1>2. ASSUME NEW status \in {"Accepted", "Pending"}, NEW interval \in {0, 300},
             BootNotificationResponse(status, interval)
      PROVE  SavedInv'
  <2>1. process = "running" /\ UNCHANGED <<station, process>>
    BY <1>2 DEF BootNotificationResponse
  <2>2. SetKey("HeartbeatInterval", IntValue(interval), TRUE)
        \/ UNCHANGED <<config, user_config, unsaved>>
    BY <1>2 DEF BootNotificationResponse, file
  <2> QED  BY <2>1, <2>2, <1>a, SetKeySaves, SavedNext
<1>3. CASE TimeOffsetTransition
  <2>1. process = "running" /\ UNCHANGED <<station, process>>
    BY <1>3 DEF TimeOffsetTransition
  <2>2. SetKey("TimeOffset", Value(config, "TimeOffsetNextTransition"), TRUE)
        \/ UNCHANGED <<config, user_config, unsaved>>
    BY <1>3 DEF TimeOffsetTransition, file
  <2> QED  BY <2>1, <2>2, <1>a, SetKeySaves, SavedNext
<1>4. ASSUME NEW what \in DOMAIN Information, SetInformation(Information[what])
      PROVE  SavedInv'
  <2> DEFINE new == [k \in Information[what] |-> TextValue("words")]
  <2>1. /\ process = "running" /\ UNCHANGED <<station, process, unsaved>>
        /\ config' = Over(new, config) /\ user_config' = Over(new, user_config)
    BY <1>4 DEF SetInformation
  <2> HIDE DEF new
  <2>2. Agree(config', user_config', unsaved')
    BY <2>1, <1>a, OverValue DEF Agree
  <2> QED  BY <2>1, <2>2, SavedNext
<1>5. CASE StoppedConnecting
  <2>1. process = "running" /\ UNCHANGED <<station, process>>
    BY <1>5 DEF StoppedConnecting
  <2>2. CASE switch_security_profile_callback = None
    BY <1>5, <2>1, <2>2, <1>a, SavedNext DEF StoppedConnecting, file
  <2>3. CASE switch_security_profile_callback # None
    <3>1. PICK written \in BOOLEAN :
              SetKey("SecurityProfile", IntValue(switch_security_profile_callback.profile), written)
      BY <1>5, <2>3 DEF StoppedConnecting, switchSecurityProfile
    <3> QED  BY <2>1, <3>1, <1>a, SetKeySaves, SavedNext
  <2> QED  BY <2>2, <2>3
<1>6. CASE ConnectionLost \/ StartConnecting \/ Connected \/ AttemptFails \/ UNCHANGED vars
  <2>1. UNCHANGED <<station, process, config, user_config, unsaved>>
    BY <1>6 DEF ConnectionLost, StartConnecting, Connected, AttemptFails, vars, file
  <2> QED  BY <2>1, <1>a, SavedNext
<1>7. CASE RestartWhileWriting
  <2>1. UNCHANGED station /\ process' # "running"
    BY <1>7 DEF RestartWhileWriting
  <2> QED  BY <2>1, SavedNext
<1>8. CASE Restart
  <2>1. UNCHANGED <<station, user_config>>
    BY <1>8 DEF Restart
  <2>2. process' = "running" => config' = merge_patch(user_config)
    BY <1>8 DEF Restart, Start
  <2> QED  BY <2>1, <2>2, PatchValue, SavedNext DEF Agree
<1> QED  BY <1>1, <1>2, <1>3, <1>4, <1>5, <1>6, <1>7, <1>8 DEF Next

LEMMA SavedAlways == Spec => []SavedInv
<1>1. Init => SavedInv
  BY DEF Init, SavedInv, Agree
<1> QED  BY <1>1, SavedKept, PTL DEF Spec

\* A restart reads again every value that was changed, by whomever, unless the
\* file system had refused to write it.
THEOREM NothingIsLost == Spec => RestartKeeps
<1>1. ASSUME SavedInv
      PROVE  Restart /\ process' = "running" =>
                \A k \in DOMAIN KeyTable \ (unsaved \cup {"DefaultPrice"}) :
                    Value(config', k) = Value(config, k)
  <2> SUFFICES ASSUME Restart, process' = "running",
                      NEW k \in DOMAIN KeyTable \ (unsaved \cup {"DefaultPrice"})
               PROVE  Value(config', k) = Value(config, k)
    OBVIOUS
  <2>1. config' = merge_patch(user_config) /\ process = "running"
    BY DEF Restart, Start
  <2> QED  BY <1>1, <2>1, PatchValue DEF SavedInv, Agree
<1> QED  BY <1>1, SavedAlways, PTL DEF RestartKeeps

-----------------------------------------------------------------------------
(* Switching the security profile.                                         *)

ProfileOf(cfg) == Value(cfg, "SecurityProfile").int

\* m is the largest of the profiles in S.
Top(S, m) == m \in S /\ \A x \in S : x <= m

\* The configured profile p is the highest that has connected.
Stable(p, prov, ln, opt, back, timer) ==
    /\ Top(prov, p)
    /\ ln \in {"up", "connecting", "reconnecting", "waiting"}
    /\ opt = Switch(p, -1) /\ back = None /\ timer = None

\* A higher one was asked for, and the websocket is being closed.
Requested(p, prov, ln, opt, back, timer) ==
    /\ Top(prov, p)
    /\ ln = "closing"
    /\ \E q \in 0..3 : q > p /\ back = Switch(q, 1)
    /\ timer = None

\* It is configured, and tried once; the way back is open.
Tried(p, prov, ln, opt, back, timer) ==
    \E m \in 0..3 :
        /\ Top(prov, m) /\ p > m
        /\ back = Switch(m, -1)
        /\ \/ ln = "idle" /\ timer = Switch(p, 1)
           \/ ln \in {"connecting", "failed"} /\ timer = None /\ opt = Switch(p, 1)

\* It has failed, and the old one is configured again.
FallenBack(p, prov, ln, opt, back, timer) ==
    /\ Top(prov, p)
    /\ \E q \in 0..3 : back = Switch(q, -1)
    /\ \/ ln = "exhausted" /\ timer = Switch(p, -1)
       \/ ln = "connecting" /\ timer = None /\ opt = Switch(p, -1)

\* The steps of a switch.
Phases(p, prov, ln, opt, back, timer) ==
    \/ Stable(p, prov, ln, opt, back, timer)
    \/ Requested(p, prov, ln, opt, back, timer)
    \/ Tried(p, prov, ln, opt, back, timer)
    \/ FallenBack(p, prov, ln, opt, back, timer)

SwitchOK(cfg, usr, prov, ln, opt, back, timer) ==
    /\ ProfileOf(cfg) \in 0..3
    /\ ProfileOf(usr) \in 0..3
    /\ prov \subseteq 0..3
    /\ Phases(ProfileOf(cfg), prov, ln, opt, back, timer)

SwitchInv ==
    process = "running" /\ ~disturbed =>
        SwitchOK(config, user_config, proven, link, options, switch_security_profile_callback,
                 websocket_timer)

LEMMA SwitchNext ==
    ASSUME UNCHANGED station,
           process' = "running" /\ ~disturbed' =>
               SwitchOK(config', user_config', proven', link', options',
                        switch_security_profile_callback', websocket_timer')
    PROVE  SwitchInv'
<1>1. ProfileOf(config)' = ProfileOf(config') /\ ProfileOf(user_config)' = ProfileOf(user_config')
  BY PrimedValue DEF ProfileOf
<1> QED  BY <1>1 DEF SwitchInv, SwitchOK, Phases, Stable, Requested, Tried, FallenBack

LEMMA SwitchFields ==
    \A p, n : Switch(p, n).profile = p /\ Switch(p, n).attempts = n /\ Switch(p, n) # None
<1>1. \A p, n : DOMAIN Switch(p, n) # DOMAIN None
  BY DEF Switch, None
<1> QED  BY <1>1 DEF Switch

LEMMA TopMax ==
    \A S, m : S \subseteq 0..3 /\ Top(S, m) => Max(S) = m
<1> SUFFICES ASSUME NEW S, NEW m, S \subseteq 0..3, Top(S, m)
             PROVE  Max(S) = m
  OBVIOUS
<1>1. m \in S /\ \A y \in S : m >= y
  BY DEF Top
<1>2. Max(S) \in S /\ \A y \in S : Max(S) >= y
  BY <1>1 DEF Max
<1>3. m \in 0..3 /\ Max(S) \in 0..3
  BY <1>1, <1>2
<1>4. m >= Max(S) /\ Max(S) >= m
  BY <1>1, <1>2
<1> QED  BY <1>3, <1>4

\* Other keys do not touch the profile.
LEMMA ProfileKept ==
    ASSUME NEW k, NEW written, k # "SecurityProfile"
    PROVE  \A v : SetKey(k, v, written) =>
                /\ ProfileOf(config') = ProfileOf(config)
                /\ ProfileOf(user_config') = ProfileOf(user_config)
BY WithValue DEF SetKey, setInUserConfig, ProfileOf

LEMMA ProfileSet ==
    ASSUME NEW written
    PROVE  \A p : SetKey("SecurityProfile", IntValue(p), written) =>
                /\ ProfileOf(config') = p
                /\ ProfileOf(user_config') \in {p, ProfileOf(user_config)}
BY WithValue DEF SetKey, setInUserConfig, ProfileOf, IntValue

\* Texts start with integers.
LEMMA TextPrefix == \A t \in DOMAIN Texts : Texts[t].prefix \in Int
BY DEF Texts, Text, Word, Number, NoNumber

LEMMA SwitchKept ==
    ASSUME SwitchInv, SavedInv, [Next]_vars
    PROVE  SwitchInv'
<1> DEFINE back == switch_security_profile_callback
           P == ProfileOf(config)
<1>a. process = "running" /\ ~disturbed =>
        SwitchOK(config, user_config, proven, link, options, back, websocket_timer)
  BY DEF SwitchInv
<1>b. ASSUME process = "running", ~disturbed
      PROVE  /\ P \in 0..3 /\ ProfileOf(user_config) \in 0..3 /\ proven \subseteq 0..3
             /\ Phases(P, proven, link, options, back, websocket_timer)
  BY <1>a, <1>b DEF SwitchOK
<1>c. ASSUME process = "running", UNCHANGED <<station, disturbed, proven, link, options, back, websocket_timer>>,
             ProfileOf(config') = ProfileOf(config), ProfileOf(user_config') = ProfileOf(user_config)
      PROVE  SwitchInv'
  BY <1>a, <1>c, SwitchNext DEF SwitchOK
<1>1. CASE ChangeConfiguration
  <2>1. PICK k \in Requestable, t \in DOMAIN Texts, written \in BOOLEAN :
            set_configuration_key_internal(k, t, written)
    BY <1>1 DEF ChangeConfiguration
  <2>2. process = "running" /\ UNCHANGED <<station, process>>
    BY <1>1, <2>1 DEF ChangeConfiguration, set_configuration_key_internal
  <2>3. CASE k = "SecurityProfile"
    <3> DEFINE q == Texts[t].prefix
    <3>1. /\ SwitchAllowed(q)
          /\ back' = Switch(q, 1)
          /\ link' = IF link \in Open THEN "closing" ELSE link
          /\ disturbed' = (disturbed \/ link # "up")
          /\ UNCHANGED <<config, user_config, options, websocket_timer, proven>>
      BY <2>1, <2>3 DEF set_configuration_key_internal, ChangeSecurityProfile, disconnect, file
    <3>2. q > P /\ q <= 3 /\ q \in Int
      BY <3>1, TextPrefix DEF SwitchAllowed, SecurityProfile, ProfileOf
    <3> HIDE DEF q
    <3>3. ASSUME ~disturbed'
          PROVE  SwitchOK(config', user_config', proven', link', options', back', websocket_timer')
      <4>1. ~disturbed /\ link = "up"
        BY <3>1, <3>3
      <4>2. P \in 0..3 /\ ProfileOf(user_config) \in 0..3 /\ proven \subseteq 0..3
            /\ Stable(P, proven, link, options, back, websocket_timer)
        BY <4>1, <2>2, <1>b DEF Phases, Requested, Tried, FallenBack
      <4>3. q \in 0..3
        BY <4>2, <3>2
      <4>4. Requested(P, proven, "closing", options, back', websocket_timer)
        BY <4>2, <4>3, <3>1, <3>2 DEF Stable, Requested
      <4>5. link' = "closing"
        BY <4>1, <3>1 DEF Open
      <4> QED  BY <4>2, <4>4, <4>5, <3>1 DEF SwitchOK, Phases
    <3> QED  BY <3>3, <2>2, SwitchNext
  <2>4. CASE k = "AuthorizationKey"
    <3>1. /\ SetKey(k, Stored(k, t), written)
          /\ UNCHANGED <<options, back, websocket_timer, proven>>
      BY <2>1, <2>4 DEF set_configuration_key_internal, ChangeAuthorizationKey
    <3>2. ProfileOf(config') = P /\ ProfileOf(user_config') = ProfileOf(user_config)
      BY <3>1, <2>4, ProfileKept
    <3>3. CASE UNCHANGED <<link, disturbed>>
      BY <3>1, <3>2, <3>3, <2>2, <1>c
    <3>4. CASE reconnect /\ disturbed' = (disturbed \/ link # "up")
      <4>1. ASSUME ~disturbed'
            PROVE  SwitchOK(config', user_config', proven', link', options', back', websocket_timer')
        <5>1. ~disturbed /\ link = "up"
          BY <3>4, <4>1
        <5>2. P \in 0..3 /\ ProfileOf(user_config) \in 0..3 /\ proven \subseteq 0..3
              /\ Stable(P, proven, link, options, back, websocket_timer)
          BY <5>1, <2>2, <1>b DEF Phases, Requested, Tried, FallenBack
        <5>3. link' = "reconnecting"
          BY <5>1, <3>4 DEF reconnect, Open
        <5>4. Stable(P, proven, link', options, back, websocket_timer)
          BY <5>2, <5>3 DEF Stable
        <5> QED  BY <5>2, <5>4, <3>1, <3>2 DEF SwitchOK, Phases
      <4> QED  BY <4>1, <2>2, SwitchNext
    <3> QED  BY <2>1, <2>4, <3>3, <3>4 DEF set_configuration_key_internal, ChangeAuthorizationKey
  <2>5. CASE k \notin {"SecurityProfile", "AuthorizationKey"}
    <3>1. ChangeOther(k, t, written)
      BY <2>1, <2>5 DEF set_configuration_key_internal
    <3>2. SetKey(k, Stored(k, t), written)
          /\ UNCHANGED <<disturbed, proven, link, options, back, websocket_timer>>
      BY <3>1 DEF ChangeOther, security
    <3>3. ProfileOf(config') = P /\ ProfileOf(user_config') = ProfileOf(user_config)
      BY <3>2, <2>5, ProfileKept
    <3> QED  BY <3>2, <3>3, <2>2, <1>c
  <2> QED  BY <2>3, <2>4, <2>5
<1>2. ASSUME NEW status \in {"Accepted", "Pending"}, NEW interval \in {0, 300},
             BootNotificationResponse(status, interval)
      PROVE  SwitchInv'
  <2>1. process = "running"
        /\ UNCHANGED <<station, disturbed, proven, link, options, back, websocket_timer>>
    BY <1>2 DEF BootNotificationResponse, security
  <2>2. SetKey("HeartbeatInterval", IntValue(interval), TRUE)
        \/ UNCHANGED <<config, user_config>>
    BY <1>2 DEF BootNotificationResponse, file
  <2>3. ProfileOf(config') = P /\ ProfileOf(user_config') = ProfileOf(user_config)
    <3>1. CASE SetKey("HeartbeatInterval", IntValue(interval), TRUE)
      BY <3>1, ProfileKept
    <3>2. CASE UNCHANGED <<config, user_config>>
      BY <3>2
    <3> QED  BY <2>2, <3>1, <3>2
  <2> QED  BY <2>1, <2>3, <1>c
<1>3. CASE TimeOffsetTransition
  <2>1. process = "running"
        /\ UNCHANGED <<station, disturbed, proven, link, options, back, websocket_timer>>
    BY <1>3 DEF TimeOffsetTransition, security
  <2>2. SetKey("TimeOffset", Value(config, "TimeOffsetNextTransition"), TRUE)
        \/ UNCHANGED <<config, user_config>>
    BY <1>3 DEF TimeOffsetTransition, file
  <2>3. ProfileOf(config') = P /\ ProfileOf(user_config') = ProfileOf(user_config)
    BY <2>2, ProfileKept DEF ProfileOf
  <2> QED  BY <2>1, <2>3, <1>c
<1>4. ASSUME NEW what \in DOMAIN Information, SetInformation(Information[what])
      PROVE  SwitchInv'
  <2> DEFINE new == [k \in Information[what] |-> TextValue("words")]
  <2>1. /\ process = "running"
        /\ UNCHANGED <<station, disturbed, proven, link, options, back, websocket_timer>>
        /\ config' = Over(new, config) /\ user_config' = Over(new, user_config)
    BY <1>4 DEF SetInformation, security
  <2>2. "SecurityProfile" \notin DOMAIN new
    BY DEF Information
  <2> HIDE DEF new
  <2>3. ProfileOf(config') = P /\ ProfileOf(user_config') = ProfileOf(user_config)
    BY <2>1, <2>2, OverValue DEF ProfileOf
  <2> QED  BY <2>1, <2>3, <1>c
<1>5. CASE StoppedConnecting
  <2>1. /\ process = "running" /\ link \in DOMAIN CallbacksDue
        /\ link' = CallbacksDue[link]
        /\ UNCHANGED <<station, process, options, proven, disturbed>>
    BY <1>5 DEF StoppedConnecting
  <2>2. ASSUME ~disturbed
        PROVE  SwitchOK(config', user_config', proven', link', options', back', websocket_timer')
    <3>1. P \in 0..3 /\ ProfileOf(user_config) \in 0..3 /\ proven \subseteq 0..3
          /\ Phases(P, proven, link, options, back, websocket_timer)
      BY <2>1, <2>2, <1>b
    <3>2. CASE Stable(P, proven, link, options, back, websocket_timer)
      <4>1. link' = "waiting"
        BY <2>1, <3>2 DEF Stable, CallbacksDue
      <4>2. UNCHANGED <<config, user_config, back, websocket_timer>>
        BY <1>5, <3>2 DEF StoppedConnecting, Stable, file
      <4>3. Stable(P, proven, link', options, back, websocket_timer)
        BY <4>1, <3>2 DEF Stable
      <4> QED  BY <4>2, <4>3, <3>1, <2>1 DEF SwitchOK, Phases
    <3>3. CASE Requested(P, proven, link, options, back, websocket_timer)
      <4>1. PICK q \in 0..3 : q > P /\ back = Switch(q, 1)
        BY <3>3 DEF Requested
      <4>2. PICK written \in BOOLEAN : switchSecurityProfile(back, written)
        BY <1>5, <4>1, SwitchFields DEF StoppedConnecting
      <4>3. /\ SetKey("SecurityProfile", IntValue(q), written)
            /\ back' = Switch(P, -1) /\ websocket_timer' = Switch(q, 1)
        BY <4>1, <4>2, SwitchFields DEF switchSecurityProfile, ProfileOf, SecurityProfile
      <4>4. ProfileOf(config') = q /\ ProfileOf(user_config') \in 0..3
        BY <4>3, <3>1, ProfileSet
      <4>5. link' = "idle" /\ Top(proven, P)
        BY <3>3, <2>1 DEF Requested, CallbacksDue
      <4>6. Tried(q, proven, link', options, back', websocket_timer')
        BY <4>1, <4>3, <4>5, <3>1 DEF Tried
      <4> QED  BY <4>4, <4>6, <3>1, <2>1 DEF SwitchOK, Phases
    <3>4. CASE Tried(P, proven, link, options, back, websocket_timer)
      <4>1. PICK m \in 0..3 : Top(proven, m) /\ P > m /\ back = Switch(m, -1)
        BY <3>4 DEF Tried
      <4>2. PICK written \in BOOLEAN : switchSecurityProfile(back, written)
        BY <1>5, <4>1, SwitchFields DEF StoppedConnecting
      <4>3. /\ SetKey("SecurityProfile", IntValue(m), written)
            /\ back' = Switch(P, -1) /\ websocket_timer' = Switch(m, -1)
        BY <4>1, <4>2, SwitchFields DEF switchSecurityProfile, ProfileOf, SecurityProfile
      <4>4. ProfileOf(config') = m /\ ProfileOf(user_config') \in 0..3
        BY <4>3, <3>1, ProfileSet
      <4>5. link' = "exhausted"
        BY <3>4, <2>1 DEF Tried, CallbacksDue
      <4>6. FallenBack(m, proven, link', options, back', websocket_timer')
        BY <4>1, <4>3, <4>5, <3>1 DEF FallenBack
      <4> QED  BY <4>4, <4>6, <3>1, <2>1 DEF SwitchOK, Phases
    <3>5. CASE FallenBack(P, proven, link, options, back, websocket_timer)
      BY <3>5, <2>1 DEF FallenBack, CallbacksDue
    <3> QED  BY <3>1, <3>2, <3>3, <3>4, <3>5 DEF Phases
  <2> QED  BY <2>1, <2>2, SwitchNext
<1>6. CASE ConnectionLost
  <2>1. /\ process = "running" /\ link = "up" /\ link' = "connecting"
        /\ UNCHANGED <<station, config, user_config, options, back, websocket_timer, proven, disturbed>>
    BY <1>6 DEF ConnectionLost, file
  <2>2. ASSUME ~disturbed
        PROVE  SwitchOK(config', user_config', proven', link', options', back', websocket_timer')
    <3>1. P \in 0..3 /\ ProfileOf(user_config) \in 0..3 /\ proven \subseteq 0..3
          /\ Stable(P, proven, link, options, back, websocket_timer)
      BY <2>1, <2>2, <1>b DEF Phases, Requested, Tried, FallenBack
    <3>2. Stable(P, proven, link', options, back, websocket_timer)
      BY <2>1, <3>1 DEF Stable
    <3> QED  BY <2>1, <3>1, <3>2 DEF SwitchOK, Phases
  <2> QED  BY <2>1, <2>2, SwitchNext
<1>7. CASE StartConnecting
  <2>1. /\ process = "running"
        /\ UNCHANGED <<station, config, user_config, back, proven, disturbed>>
    BY <1>7 DEF StartConnecting, file
  <2>2. ASSUME ~disturbed
        PROVE  SwitchOK(config', user_config', proven', link', options', back', websocket_timer')
    <3>1. P \in 0..3 /\ ProfileOf(user_config) \in 0..3 /\ proven \subseteq 0..3
          /\ Phases(P, proven, link, options, back, websocket_timer)
      BY <2>1, <2>2, <1>b
    <3>2. CASE websocket_timer # None
      <4>1. /\ options' = websocket_timer /\ websocket_timer' = None
            /\ link' = IF link \in {"idle", "waiting", "exhausted"} THEN "connecting" ELSE link
        <5>1. link # "waiting"
          BY <3>1, <3>2 DEF Phases, Stable, Requested, Tried, FallenBack
        <5> QED  BY <5>1, <1>7 DEF StartConnecting
      <4>2. CASE Tried(P, proven, link, options, back, websocket_timer)
        <5>1. Tried(P, proven, link', options', back, websocket_timer')
          BY <4>1, <4>2, <3>2 DEF Tried
        <5> QED  BY <5>1, <3>1, <2>1 DEF SwitchOK, Phases
      <4>3. CASE FallenBack(P, proven, link, options, back, websocket_timer)
        <5>1. FallenBack(P, proven, link', options', back, websocket_timer')
          BY <4>1, <4>3, <3>2 DEF FallenBack
        <5> QED  BY <5>1, <3>1, <2>1 DEF SwitchOK, Phases
      <4> QED  BY <3>1, <3>2, <4>2, <4>3 DEF Phases, Stable, Requested
    <3>3. CASE websocket_timer = None
      <4>1. link = "waiting" /\ link' = "connecting" /\ UNCHANGED <<options, websocket_timer>>
        BY <1>7, <3>3 DEF StartConnecting
      <4>2. Stable(P, proven, link', options, back, websocket_timer)
        BY <4>1, <3>1 DEF Phases, Stable, Requested, Tried, FallenBack
      <4> QED  BY <4>1, <4>2, <3>1, <2>1 DEF SwitchOK, Phases
    <3> QED  BY <3>2, <3>3
  <2> QED  BY <2>1, <2>2, SwitchNext
<1>8. CASE Connected
  <2>1. /\ process = "running" /\ link = "connecting" /\ link' = "up"
        /\ proven' = proven \cup {options.profile}
        /\ back' = None /\ options' = Switch(P, -1)
        /\ UNCHANGED <<station, config, user_config, websocket_timer, disturbed>>
    BY <1>8 DEF Connected, file, SecurityProfile, ProfileOf
  <2>2. ASSUME ~disturbed
        PROVE  SwitchOK(config', user_config', proven', link', options', back', websocket_timer')
    <3>1. P \in 0..3 /\ ProfileOf(user_config) \in 0..3 /\ proven \subseteq 0..3
          /\ Phases(P, proven, link, options, back, websocket_timer)
      BY <2>1, <2>2, <1>b
    <3>2. websocket_timer = None /\ options.profile = P
      BY <2>1, <3>1, SwitchFields DEF Phases, Stable, Requested, Tried, FallenBack
    <3>3. Top(proven', P)
      <4>1. CASE Top(proven, P)
        BY <4>1, <3>1, <3>2, <2>1 DEF Top
      <4>2. CASE \E m \in 0..3 : Top(proven, m) /\ P > m
        BY <4>2, <3>1, <3>2, <2>1 DEF Top
      <4> QED  BY <3>1, <4>1, <4>2 DEF Phases, Stable, Requested, Tried, FallenBack
    <3>4. Stable(P, proven', link', options', back', websocket_timer')
      BY <3>2, <3>3, <2>1 DEF Stable
    <3>5. proven' \subseteq 0..3
      BY <3>1, <3>2, <2>1
    <3> QED  BY <3>1, <3>4, <3>5, <2>1 DEF SwitchOK, Phases
  <2> QED  BY <2>1, <2>2, SwitchNext
<1>9. CASE AttemptFails
  <2>1. /\ process = "running" /\ link = "connecting" /\ link' = "failed" /\ options.attempts = 1
        /\ UNCHANGED <<station, config, user_config, options, back, websocket_timer, proven, disturbed>>
    BY <1>9 DEF AttemptFails, file
  <2>2. ASSUME ~disturbed
        PROVE  SwitchOK(config', user_config', proven', link', options', back', websocket_timer')
    <3>1. P \in 0..3 /\ ProfileOf(user_config) \in 0..3 /\ proven \subseteq 0..3
          /\ Phases(P, proven, link, options, back, websocket_timer)
      BY <2>1, <2>2, <1>b
    <3>2. Tried(P, proven, link, options, back, websocket_timer)
      BY <2>1, <3>1, SwitchFields DEF Phases, Stable, Requested, FallenBack
    <3>3. Tried(P, proven, link', options, back, websocket_timer)
      BY <2>1, <3>2 DEF Tried
    <3> QED  BY <2>1, <3>1, <3>3 DEF SwitchOK, Phases
  <2> QED  BY <2>1, <2>2, SwitchNext
<1>10. CASE Restart
  <2>1. /\ process = "running" /\ UNCHANGED <<station, user_config>>
        /\ back' = None /\ websocket_timer' = None
        /\ proven' = IF "SecurityProfile" \in unsaved THEN {options'.profile} ELSE proven
    BY <1>10 DEF Restart
  <2>2. ASSUME process' = "running", ~disturbed'
        PROVE  SwitchOK(config', user_config', proven', link', options', back', websocket_timer')
    <3>1. /\ config' = merge_patch(user_config)
          /\ link' = "connecting" /\ options' = Switch(ProfileOf(config'), -1)
          /\ disturbed' = (disturbed \/ options'.profile \notin proven)
      BY <1>10, <2>2 DEF Restart, Start, ProfileOf
    <3>2. ProfileOf(config') = ProfileOf(user_config)
      BY <3>1, PatchValue DEF ProfileOf
    <3>3. ~disturbed /\ options'.profile \in proven /\ options'.profile = ProfileOf(user_config)
      BY <3>1, <3>2, <2>2, SwitchFields
    <3>4. P \in 0..3 /\ ProfileOf(user_config) \in 0..3 /\ proven \subseteq 0..3
          /\ Phases(P, proven, link, options, back, websocket_timer)
      BY <2>1, <3>3, <1>b
    <3>5. proven' \subseteq 0..3 /\ Top(proven', ProfileOf(user_config))
      <4>1. CASE "SecurityProfile" \in unsaved
        BY <4>1, <3>3, <3>4, <2>1 DEF Top
      <4>2. CASE "SecurityProfile" \notin unsaved
        <5>1. ProfileOf(user_config) = P
          BY <4>2, <2>1 DEF SavedInv, Agree, ProfileOf
        <5>2. P \in proven
          BY <5>1, <3>3
        <5>3. Top(proven, P)
          BY <5>2, <3>4 DEF Phases, Stable, Requested, Tried, FallenBack, Top
        <5> QED  BY <5>1, <5>3, <4>2, <3>4, <2>1
      <4> QED  BY <4>1, <4>2
    <3>6. Stable(ProfileOf(config'), proven', link', options', back', websocket_timer')
      BY <3>1, <3>2, <3>5, <2>1 DEF Stable
    <3> QED  BY <3>2, <3>4, <3>5, <3>6, <2>1 DEF SwitchOK, Phases
  <2> QED  BY <2>1, <2>2, SwitchNext
<1>11. CASE RestartWhileWriting
  BY <1>11, SwitchNext DEF RestartWhileWriting
<1>12. CASE UNCHANGED vars
  <2>1. UNCHANGED <<station, process, disturbed, proven, link, options, back, websocket_timer, config, user_config>>
    BY <1>12 DEF vars, file, security
  <2> QED  BY <2>1, <1>a, SwitchNext
<1> QED
  BY <1>1, <1>2, <1>3, <1>4, <1>5, <1>6, <1>7, <1>8, <1>9, <1>10, <1>11, <1>12 DEF Next

LEMMA SwitchAlways == Spec => []SwitchInv
<1>1. ASSUME Init PROVE SwitchInv
  <2>1. ProfileOf(config) = station.profile /\ ProfileOf(user_config) = station.profile
    BY <1>1 DEF Init, ProfileOf, Value, FileValue, IntValue
  <2>2. station.profile \in 0..3
    BY <1>1, StationsAssumption DEF Init
  <2>3. Stable(station.profile, proven, link, options, switch_security_profile_callback, websocket_timer)
    BY <1>1, <2>2 DEF Init, Stable, Top
  <2> QED  BY <1>1, <2>1, <2>2, <2>3 DEF Init, SwitchInv, SwitchOK, Phases
<1> QED  BY <1>1, SwitchKept, SavedAlways, PTL DEF Spec

\* Switching the security profile neither locks the station out nor weakens
\* it: while the new profile has not connected, the callback leads back to
\* one that has and the attempts are limited so that it is called; and a
\* station that is connected has the highest profile it has connected with.
THEOREM SwitchIsSafe == Spec => []SwitchSafe
<1>1. ASSUME SwitchInv, process = "running", ~disturbed
      PROVE  /\ SecurityProfile = ProfileOf(config)
             /\ SwitchOK(config, user_config, proven, link, options, switch_security_profile_callback,
                         websocket_timer)
  BY <1>1 DEF SwitchInv, SecurityProfile, ProfileOf
<1>2. SwitchInv => FallbackArmed
  <2> SUFFICES ASSUME SwitchInv, process = "running", ~disturbed, SecurityProfile \notin proven
               PROVE  /\ switch_security_profile_callback # None
                      /\ switch_security_profile_callback.profile \in proven
                      /\ (IF websocket_timer # None THEN websocket_timer ELSE options).attempts = 1
    BY DEF FallbackArmed
  <2>1. Tried(ProfileOf(config), proven, link, options, switch_security_profile_callback, websocket_timer)
    BY <1>1 DEF SwitchOK, Phases, Stable, Requested, FallenBack, Top
  <2> QED  BY <2>1, SwitchFields DEF Tried, Top
<1>3. SwitchInv => NeverDowngraded
  <2> SUFFICES ASSUME SwitchInv, process = "running", link = "up", ~disturbed
               PROVE  SecurityProfile = Max(proven)
    BY DEF NeverDowngraded
  <2>1. Top(proven, ProfileOf(config)) /\ proven \subseteq 0..3
    BY <1>1 DEF SwitchOK, Phases, Stable, Requested, Tried, FallenBack
  <2> QED  BY <1>1, <2>1, TopMax
<1>4. SwitchInv => SwitchSafe
  BY <1>2, <1>3 DEF SwitchSafe
<1> QED  BY <1>4, SwitchAlways, PTL

-----------------------------------------------------------------------------
(* Changes are reported, and pass the schemas.                             *)

\* How the texts read.
LEMMA TextFacts ==
    \A t \in DOMAIN Texts :
        /\ Texts[t].int \in Int /\ Texts[t].prefix \in Int
        /\ Texts[t].int # NoNumber => Texts[t].prefix = Texts[t].int
        /\ HasFormat(t, "offset") => Texts[t].len \in 1..40
        /\ HasFormat(t, "future") => Texts[t].len \in 1..40
<1>1. \A t \in DOMAIN Texts : Texts[t].int \in Int /\ Texts[t].prefix \in Int
  BY SMTT(30) DEF Texts, Text, Word, Number, NoNumber
<1>2. \A t \in DOMAIN Texts : Texts[t].int # NoNumber => Texts[t].prefix = Texts[t].int
  BY SMTT(30) DEF Texts, Text, Word, Number, NoNumber
<1>3. \A t \in DOMAIN Texts : HasFormat(t, "offset") => Texts[t].len \in 1..40
  BY SMTT(30) DEF Texts, Text, Word, Number, HasFormat
<1>4. \A t \in DOMAIN Texts : HasFormat(t, "future") => Texts[t].len \in 1..40
  BY SMTT(30) DEF Texts, Text, Word, Number, HasFormat
<1> QED  BY <1>1, <1>2, <1>3, <1>4

\* The keys of each kind are different.
LEMMA KindsDisjoint ==
    /\ \A k \in Flags \cup UncheckedFlags :
          k \notin Counts \cup TextKeys
                     \cup {"CompositeScheduleDefaultNumberPhases", "SecurityProfile", "AuthorizationKey"}
    /\ \A k \in Counts :
          k \notin TextKeys \cup {"CompositeScheduleDefaultNumberPhases", "SecurityProfile", "AuthorizationKey"}
    /\ \A k \in TextKeys :
          k \notin {"CompositeScheduleDefaultNumberPhases", "SecurityProfile", "AuthorizationKey"}
    /\ \A k \in Flags : k \notin UncheckedFlags
BY DEF Flags, UncheckedFlags, Counts, TextKeys, Measurands

\* A key with a branch of its own in set() that takes texts.
LEMMA TextAllowedKeys ==
    ASSUME NEW k, NEW t, TextAllowed(k, t), k # "AuthorizationKey"
    PROVE  k \in TextKeys
BY DEF TextAllowed, TextKeys, Measurands

\* What set() stores, for each kind of key.
LEMMA StoredKinds ==
    ASSUME NEW k, NEW t, Accepts(k, t), k \notin {"SecurityProfile", "AuthorizationKey"}
    PROVE  \/ k \in Flags \cup UncheckedFlags /\ Stored(k, t) = BoolValue(string_to_bool(t))
           \/ /\ k \in Counts /\ Stored(k, t) = IntValue(Texts[t].int)
              /\ is_positive_integer(t) /\ NumberAllowed(k, Texts[t].int)
           \/ /\ k = "CompositeScheduleDefaultNumberPhases" /\ Stored(k, t) = IntValue(Texts[t].prefix)
              /\ Texts[t].prefix \in 1..3
           \/ k \in TextKeys /\ Stored(k, t) = TextValue(t) /\ TextAllowed(k, t)
<1>1. CASE k \in Flags \cup UncheckedFlags
  BY <1>1, KindsDisjoint DEF Stored
<1>2. CASE k \in Counts
  <2>1. k \notin Flags \cup UncheckedFlags
    BY <1>2, KindsDisjoint
  <2>2. k # "CompositeScheduleDefaultNumberPhases"
    BY <1>2, KindsDisjoint
  <2> QED  BY <1>2, <2>1, <2>2 DEF Stored, Accepts
<1>3. CASE k = "CompositeScheduleDefaultNumberPhases"
  <2>1. k \notin Flags \cup UncheckedFlags /\ k \notin Counts
    BY <1>3, KindsDisjoint
  <2> QED  BY <1>3, <2>1 DEF Stored, Accepts
<1>4. CASE /\ k \notin Flags \cup UncheckedFlags /\ k \notin Counts
           /\ k # "CompositeScheduleDefaultNumberPhases"
  <2>1. TextAllowed(k, t) /\ Stored(k, t) = TextValue(t)
    BY <1>4 DEF Stored, Accepts
  <2> QED  BY <2>1, TextAllowedKeys
<1> QED  BY <1>1, <1>2, <1>3, <1>4

\* Values are not mistaken for one another.
LEMMA ValueKinds ==
    /\ \A n : IntValue(n) # None /\ ~IsText(IntValue(n)) /\ IntValue(n).int = n
    /\ \A b : BoolValue(b) # None /\ ~IsText(BoolValue(b))
    /\ \A t : TextValue(t) # None /\ IsText(TextValue(t)) /\ TextValue(t).text = t
<1>1. \A x : DOMAIN IntValue(x) # DOMAIN None /\ DOMAIN BoolValue(x) # DOMAIN None
             /\ DOMAIN TextValue(x) # DOMAIN None
  BY DEF IntValue, BoolValue, TextValue, None
<1> QED  BY <1>1 DEF IntValue, BoolValue, TextValue, IsText

\* What is stored is what the text stands for.
LEMMA StoredDenotes ==
    ASSUME NEW k, NEW t \in DOMAIN Texts, Accepts(k, t), k \notin {"SecurityProfile", "AuthorizationKey"},
           Denotes(k, t) # None
    PROVE  Stored(k, t) = Denotes(k, t)
<1>1. CASE k \in Flags \cup UncheckedFlags /\ Stored(k, t) = BoolValue(string_to_bool(t))
  <2>1. KeyTable[k].type = "bool"
    BY <1>1, FlagTypes
  <2> QED  BY <1>1, <2>1 DEF Denotes, string_to_bool
<1>2. CASE k \in Counts /\ Stored(k, t) = IntValue(Texts[t].int)
  <2>1. KeyTable[k].type = "int"
    BY <1>2, CountTypes
  <2> QED  BY <1>2, <2>1 DEF Denotes
<1>3. CASE k = "CompositeScheduleDefaultNumberPhases" /\ Stored(k, t) = IntValue(Texts[t].prefix)
  <2>1. KeyTable[k].type = "int"
    BY <1>3, CountTypes
  <2> QED  BY <1>3, <2>1, TextFacts DEF Denotes
<1>4. CASE k \in TextKeys /\ Stored(k, t) = TextValue(t)
  <2>1. KeyTable[k].type = "text"
    BY <1>4, TextTypes
  <2> QED  BY <1>4, <2>1 DEF Denotes
<1> QED  BY <1>1, <1>2, <1>3, <1>4, StoredKinds

LEMMA StoredSomething ==
    ASSUME NEW k, NEW t, Accepts(k, t), k \notin {"SecurityProfile", "AuthorizationKey"}
    PROVE  Stored(k, t) # None
BY StoredKinds, ValueKinds

\* The schemas admit what is stored, the known gaps apart.
LEMMA StoredAdmitted ==
    ASSUME NEW k, NEW t \in DOMAIN Texts, Accepts(k, t),
           k \notin SchemaGaps \cup {"SecurityProfile", "AuthorizationKey"}
    PROVE  SchemaAdmits(k, Stored(k, t))
<1> DEFINE Numbers == {"LightIntensity", "OcspRequestInterval", "CompositeScheduleDefaultNumberPhases",
                       "WaitForSetUserPriceTimeout"}
<1>a. /\ \A x \in Flags \cup UncheckedFlags : x \notin Numbers \cup Measurands
      /\ \A x \in Counts : x \notin Measurands
      /\ \A x \in TextKeys : x \notin Numbers
      /\ "CompositeScheduleDefaultNumberPhases" \notin Counts \cup Measurands
  BY DEF Flags, UncheckedFlags, Counts, TextKeys, Measurands
<1>b. k \notin {"DefaultPrice", "DefaultPriceText"}
  BY DEF SchemaGaps
<1> DEFINE v == Stored(k, t)
<1> SUFFICES SchemaAdmits(k, v)
  OBVIOUS
<1>1. CASE k \in Flags \cup UncheckedFlags /\ v = BoolValue(string_to_bool(t))
  <2>1. ~IsText(v)
    BY <1>1, ValueKinds
  <2>2. k \notin Numbers /\ k \notin Measurands
    BY <1>1, <1>a
  <2> HIDE DEF v
  <2> QED  BY <2>1, <2>2, <1>b DEF SchemaAdmits
<1>2. CASE /\ k \in Counts /\ v = IntValue(Texts[t].int)
           /\ is_positive_integer(t) /\ NumberAllowed(k, Texts[t].int)
  <2> DEFINE n == Texts[t].int
  <2>1. n \in Int /\ n >= 0
    BY <1>2, TextFacts DEF is_positive_integer
  <2>2. ~IsText(v) /\ v.int = n
    BY <1>2, ValueKinds
  <2>3. k \notin Measurands /\ k # "CompositeScheduleDefaultNumberPhases"
    BY <1>2, <1>a
  <2>4. NumberAllowed(k, n)
    BY <1>2
  <2> HIDE DEF v, n
  <2>5. k = "LightIntensity" => n \in 0..100
    BY <2>1, <2>4 DEF NumberAllowed
  <2>6. k = "OcspRequestInterval" => n >= 86400
    BY <2>1, <2>4 DEF NumberAllowed
  <2>7. k = "WaitForSetUserPriceTimeout" => n >= 0 /\ n <= 30000
    BY <2>1, <2>4 DEF NumberAllowed
  <2> QED  BY <2>2, <2>3, <2>5, <2>6, <2>7, <1>b DEF SchemaAdmits
<1>3. CASE /\ k = "CompositeScheduleDefaultNumberPhases" /\ v = IntValue(Texts[t].prefix)
           /\ Texts[t].prefix \in 1..3
  <2>1. ~IsText(v) /\ v.int \in 1..3
    BY <1>3, ValueKinds
  <2>2. k \notin Measurands
    BY <1>3, <1>a
  <2> HIDE DEF v
  <2> QED  BY <2>1, <2>2, <1>3, <1>b DEF SchemaAdmits
<1>4. CASE k \in TextKeys /\ Stored(k, t) = TextValue(t) /\ TextAllowed(k, t)
  <2>1. k \in DOMAIN SchemaLengths => Texts[t].len \in SchemaLengths[k]
    <3>1. CASE k = "TimeOffsetNextTransition"
      BY <3>1, <1>4, TextFacts DEF TextAllowed, SchemaLengths, Measurands
    <3>2. CASE k = "NextTimeOffsetTransitionDateTime"
      BY <3>2, <1>4, TextFacts DEF TextAllowed, SchemaLengths, Measurands
    <3>3. CASE k \in {"SeccLeafSubjectCommonName", "SeccLeafSubjectCountry", "SeccLeafSubjectOrganization"}
      BY <3>3, <1>4 DEF TextAllowed, SchemaLengths, Measurands, LengthIn
    <3> QED  BY <3>1, <3>2, <3>3 DEF SchemaLengths, SchemaGaps
  <2>2. k \in Measurands => HasFormat(t, "measurands")
    BY <1>4 DEF TextAllowed, Measurands
  <2>3. v.text = t /\ k \notin Numbers
    BY <1>4, <1>a, ValueKinds
  <2> HIDE DEF v
  <2> QED  BY <2>1, <2>2, <2>3, <1>b DEF SchemaAdmits
<1> QED  BY <1>1, <1>2, <1>3, <1>4, StoredKinds

\* A change is reported as soon as it is accepted.
LEMMA ChangeReported ==
    ASSUME NEW k, NEW t \in DOMAIN Texts, NEW written, get(k), UNCHANGED station,
           k \notin {"SecurityProfile", "AuthorizationKey"}, ChangeOther(k, t, written)
    PROVE  AcceptedIsReported'
<1>1. /\ Accepts(k, t) /\ SetKey(k, Stored(k, t), written)
      /\ last' = Change(k, t)
  BY DEF ChangeOther
<1>2. Value(config', k) = Stored(k, t) /\ \A x : x # k => Value(config', x) = Value(config, x)
  BY <1>1, SetKeyValue
<1>3. \A x : Has(x)' <=> Value(config', x) # None
  BY PrimedValue DEF Has
<1>4. get(k)'
  <2>1. Has(k)'
    BY <1>1, <1>2, <1>3, StoredSomething
  <2>2. k = "DefaultPriceText" => Has("CustomMultiLanguageMessages")'
    BY <1>2, <1>3 DEF get, Has
  <2> QED  BY <2>1, <2>2 DEF get, getSupportedFeatureProfilesSet
<1>5. CASE Change(k, t) = None
  BY <1>1, <1>5 DEF AcceptedIsReported
<1>6. CASE Change(k, t) # None
  <2>1. Denotes(k, t) # None /\ last' = [key |-> k, value |-> Denotes(k, t)]
    BY <1>1, <1>6 DEF Change
  <2>2. last'.key = k /\ last'.value = Stored(k, t)
    BY <2>1, <1>1, StoredDenotes
  <2>3. Value(config, k)' = Stored(k, t)
    BY <1>2, PrimedValue
  <2>4. get(last.key)' /\ Value(config, last.key)' = Stored(k, t)
    BY <2>2, <2>3, <1>4 DEF get, Has, Value, FileValue, getSupportedFeatureProfilesSet
  <2> QED  BY <2>2, <2>4 DEF AcceptedIsReported
<1> QED  BY <1>5, <1>6

LEMMA ReportedKept ==
    ASSUME AcceptedIsReported, [Next]_vars
    PROVE  AcceptedIsReported'
<1>1. CASE last' = None
  BY <1>1 DEF AcceptedIsReported
<1>2. CASE ChangeConfiguration
  <2>1. PICK k \in Requestable, t \in DOMAIN Texts, written \in BOOLEAN :
            set_configuration_key_internal(k, t, written)
    BY <1>2 DEF ChangeConfiguration
  <2>2. CASE k \in {"SecurityProfile", "AuthorizationKey"}
    BY <2>1, <2>2, <1>1 DEF set_configuration_key_internal, ChangeSecurityProfile, ChangeAuthorizationKey
  <2>3. CASE k \notin {"SecurityProfile", "AuthorizationKey"}
    <3>1. ChangeOther(k, t, written) /\ get(k) /\ UNCHANGED station
      BY <2>1, <2>3 DEF set_configuration_key_internal
    <3> QED  BY <2>3, <3>1, ChangeReported
  <2> QED  BY <2>2, <2>3
<1>3. CASE UNCHANGED vars
  BY <1>3 DEF vars, AcceptedIsReported, get, Has, Value, FileValue, getSupportedFeatureProfilesSet
<1> QED
  BY <1>1, <1>2, <1>3
     DEF Next, BootNotificationResponse, TimeOffsetTransition, SetInformation, ConnectionLost,
         StoppedConnecting, StartConnecting, Connected, AttemptFails, Restart, RestartWhileWriting

\* The schemas admit every value of the user configuration.
Admitted(usr) == \A k \in DOMAIN usr \ SchemaGaps : SchemaAdmits(k, usr[k])

FileInv == \/ Admitted(user_config)
           \/ process = "refused" /\ user_config = Torn

LEMMA FileNext ==
    ASSUME Admitted(user_config')
    PROVE  FileInv'
BY DEF FileInv, Admitted

LEMMA SetKeyAdmitted ==
    ASSUME NEW k, NEW written, Admitted(user_config)
    PROVE  \A v : SetKey(k, v, written) /\ (k \notin SchemaGaps => SchemaAdmits(k, v))
                    => Admitted(user_config')
<1> SUFFICES ASSUME NEW STATE v, SetKey(k, v, written), k \notin SchemaGaps => SchemaAdmits(k, v)
             PROVE  Admitted(user_config')
  OBVIOUS
<1>1. CASE written
  <2>1. user_config' = With(user_config, k, v)
    BY <1>1 DEF SetKey, setInUserConfig
  <2>2. /\ DOMAIN user_config' = DOMAIN user_config \cup {k}
        /\ user_config'[k] = v
        /\ \A x \in DOMAIN user_config : x # k => user_config'[x] = user_config[x]
    BY <2>1 DEF With
  <2> QED  BY <2>2 DEF Admitted
<1>2. CASE ~written
  BY <1>2 DEF SetKey, setInUserConfig
<1> QED  BY <1>1, <1>2

\* Keys without a schema of their own here.
LEMMA FreeKeys ==
    /\ \A n : SchemaAdmits("SecurityProfile", IntValue(n)) /\ SchemaAdmits("HeartbeatInterval", IntValue(n))
    /\ \A what \in DOMAIN Information : \A k \in Information[what] : SchemaAdmits(k, TextValue("words"))
<1>1. "SecurityProfile" \notin Measurands /\ "HeartbeatInterval" \notin Measurands
  BY DEF Measurands
<1>2. \A n : SchemaAdmits("SecurityProfile", IntValue(n)) /\ SchemaAdmits("HeartbeatInterval", IntValue(n))
  BY <1>1, ValueKinds DEF SchemaAdmits
<1>3. \A what \in DOMAIN Information : \A k \in Information[what] :
        /\ k \notin DOMAIN SchemaLengths /\ k \notin Measurands
        /\ k \notin {"DefaultPrice", "DefaultPriceText", "LightIntensity", "OcspRequestInterval",
                     "CompositeScheduleDefaultNumberPhases", "WaitForSetUserPriceTimeout"}
  BY DEF Information, SchemaLengths, Measurands
<1>4. \A what \in DOMAIN Information : \A k \in Information[what] : SchemaAdmits(k, TextValue("words"))
  BY <1>3 DEF SchemaAdmits
<1> QED  BY <1>2, <1>4

LEMMA FileKept ==
    ASSUME FileInv, [Next]_vars
    PROVE  FileInv'
<1>a. process = "running" => Admitted(user_config)
  BY DEF FileInv
<1>1. CASE ChangeConfiguration
  <2>1. PICK k \in Requestable, t \in DOMAIN Texts, written \in BOOLEAN :
            set_configuration_key_internal(k, t, written)
    BY <1>1 DEF ChangeConfiguration
  <2>2. Admitted(user_config)
    BY <1>1, <1>a DEF ChangeConfiguration
  <2>3. CASE k = "SecurityProfile"
    <3>1. UNCHANGED user_config
      BY <2>1, <2>3 DEF set_configuration_key_internal, ChangeSecurityProfile, file
    <3> QED  BY <3>1, <2>2, FileNext
  <2>4. CASE k = "AuthorizationKey"
    <3>1. SetKey(k, Stored(k, t), written)
      BY <2>1, <2>4 DEF set_configuration_key_internal, ChangeAuthorizationKey
    <3>2. k \in SchemaGaps
      BY <2>4 DEF SchemaGaps
    <3>3. Admitted(user_config')
      BY <3>1, <3>2, <2>2, SetKeyAdmitted
    <3> QED  BY <3>3, FileNext
  <2>5. CASE k \notin {"SecurityProfile", "AuthorizationKey"}
    <3>1. SetKey(k, Stored(k, t), written) /\ Accepts(k, t)
      BY <2>1, <2>5 DEF set_configuration_key_internal, ChangeOther
    <3>2. k \notin SchemaGaps => SchemaAdmits(k, Stored(k, t))
      BY <3>1, <2>5, StoredAdmitted
    <3>3. Admitted(user_config')
      BY <3>1, <3>2, <2>2, SetKeyAdmitted
    <3> QED  BY <3>3, FileNext
  <2> QED  BY <2>3, <2>4, <2>5
<1>2. ASSUME NEW status \in {"Accepted", "Pending"}, NEW interval \in {0, 300},
             BootNotificationResponse(status, interval)
      PROVE  FileInv'
  <2>1. SetKey("HeartbeatInterval", IntValue(interval), TRUE) \/ UNCHANGED user_config
    BY <1>2 DEF BootNotificationResponse, file
  <2>2. Admitted(user_config)
    BY <1>2, <1>a DEF BootNotificationResponse
  <2>3. Admitted(user_config')
    <3>1. CASE SetKey("HeartbeatInterval", IntValue(interval), TRUE)
      BY <3>1, <2>2, SetKeyAdmitted, FreeKeys
    <3> QED  BY <2>1, <2>2, <3>1
  <2> QED  BY <2>3, FileNext
<1>3. CASE TimeOffsetTransition
  <2>1. SetKey("TimeOffset", Value(config, "TimeOffsetNextTransition"), TRUE) \/ UNCHANGED user_config
    BY <1>3 DEF TimeOffsetTransition, file
  <2>2. Admitted(user_config) /\ "TimeOffset" \in SchemaGaps
    BY <1>3, <1>a DEF TimeOffsetTransition, SchemaGaps
  <2>3. Admitted(user_config')
    <3>1. CASE SetKey("TimeOffset", Value(config, "TimeOffsetNextTransition"), TRUE)
      BY <3>1, <2>2, SetKeyAdmitted
    <3> QED  BY <2>1, <2>2, <3>1
  <2> QED  BY <2>3, FileNext
<1>4. ASSUME NEW what \in DOMAIN Information, SetInformation(Information[what])
      PROVE  FileInv'
  <2> DEFINE new == [k \in Information[what] |-> TextValue("words")]
  <2>1. user_config' = Over(new, user_config)
    BY <1>4 DEF SetInformation
  <2>2. Admitted(user_config)
    BY <1>4, <1>a DEF SetInformation
  <2>3. \A k \in DOMAIN new : SchemaAdmits(k, new[k])
    BY FreeKeys
  <2> HIDE DEF new
  <2>4. Admitted(user_config')
    <3>1. /\ DOMAIN user_config' = DOMAIN new \cup DOMAIN user_config
          /\ \A k \in DOMAIN new : user_config'[k] = new[k]
          /\ \A k \in DOMAIN user_config : k \notin DOMAIN new => user_config'[k] = user_config[k]
      BY <2>1 DEF Over
    <3> QED  BY <3>1, <2>2, <2>3 DEF Admitted
  <2> QED  BY <2>4, FileNext
<1>5. CASE StoppedConnecting
  <2>1. Admitted(user_config)
    BY <1>5, <1>a DEF StoppedConnecting
  <2>2. CASE switch_security_profile_callback = None
    BY <1>5, <2>1, <2>2, FileNext DEF StoppedConnecting, file
  <2>3. CASE switch_security_profile_callback # None
    <3>1. PICK written \in BOOLEAN :
              SetKey("SecurityProfile", IntValue(switch_security_profile_callback.profile), written)
      BY <1>5, <2>3 DEF StoppedConnecting, switchSecurityProfile
    <3>2. Admitted(user_config')
      BY <3>1, <2>1, SetKeyAdmitted, FreeKeys
    <3> QED  BY <3>2, FileNext
  <2> QED  BY <2>2, <2>3
<1>6. CASE ConnectionLost \/ StartConnecting \/ Connected \/ AttemptFails \/ Restart
  <2>1. Admitted(user_config) /\ UNCHANGED user_config
    BY <1>6, <1>a DEF ConnectionLost, StartConnecting, Connected, AttemptFails, Restart, file
  <2> QED  BY <2>1, FileNext
<1>7. CASE RestartWhileWriting
  BY <1>7 DEF RestartWhileWriting, FileInv, Torn
<1>8. CASE UNCHANGED vars
  <2>1. UNCHANGED <<user_config, process>>
    BY <1>8 DEF vars, file
  <2> QED  BY <2>1, FileNext DEF FileInv, Torn
<1> QED  BY <1>1, <1>2, <1>3, <1>4, <1>5, <1>6, <1>7, <1>8 DEF Next

LEMMA FileAlways == Spec => []FileInv
<1>1. Init => FileInv
  BY DEF Init, FileInv, Admitted
<1> QED  BY <1>1, FileKept, PTL DEF Spec

LEMMA ReportedAlways == Spec => []AcceptedIsReported
<1>1. Init => AcceptedIsReported
  BY DEF Init, AcceptedIsReported
<1> QED  BY <1>1, ReportedKept, PTL DEF Spec

\* What ChangeConfiguration accepts is reported from then on, with the value
\* that the text stands for; and the constructor's schemas admit every value
\* in the user configuration, the keys of SchemaGaps apart.
THEOREM AcceptedChangesHold == Spec => []ChangesHold
<1>1. FileInv => StartsAgain
  <2> SUFFICES ASSUME FileInv, user_config # Torn, NEW k \in DOMAIN user_config \ SchemaGaps
               PROVE  SchemaAdmits(k, merge_patch(user_config)[k])
    BY DEF StartsAgain
  <2>1. SchemaAdmits(k, user_config[k])
    BY DEF FileInv, Admitted
  <2>2. merge_patch(user_config)[k] = user_config[k]
    BY DEF merge_patch, SchemaGaps
  <2> QED  BY <2>1, <2>2
<1>2. FileInv /\ AcceptedIsReported => ChangesHold
  BY <1>1 DEF ChangesHold
<1> QED  BY <1>2, FileAlways, ReportedAlways, PTL

-----------------------------------------------------------------------------
(* Types.                                                                  *)

\* The keys that are set by other means than set().
LEMMA OtherTypes ==
    /\ KeyTable["SecurityProfile"].type = "int" /\ KeyTable["AuthorizationKey"].type = "text"
    /\ \A what \in DOMAIN Information : \A k \in Information[what] :
          k \in DOMAIN KeyTable /\ KeyTable[k].type = "text"
<1>1. /\ "SecurityProfile" \in DOMAIN SecurityKeys /\ SecurityKeys["SecurityProfile"].type = "int"
      /\ "AuthorizationKey" \in DOMAIN SecurityKeys /\ SecurityKeys["AuthorizationKey"].type = "text"
  BY DEF SecurityKeys, RW, OptionalRW, Key
<1>2. \A what \in DOMAIN Information : \A k \in Information[what] : k \in DOMAIN StationAccess
  BY DEF Information, StationAccess
<1>3. \A what \in DOMAIN Information : \A k \in Information[what] :
        k \in DOMAIN StationValues /\ StationValues[k].type = "text"
  BY DEF Information, StationValues, Always, Maybe
<1>4. \A k \in DOMAIN StationAccess : k \in DOMAIN StationValues =>
        k \in DOMAIN StationKeys /\ StationKeys[k].type = StationValues[k].type
  BY DEF StationKeys, Over, Key
<1>5. \A what \in DOMAIN Information : \A k \in Information[what] :
        k \in DOMAIN StationKeys /\ StationKeys[k].type = "text"
  BY <1>2, <1>3, <1>4
<1> QED  BY <1>1, <1>5, KeyLookup, OtherTables, InternalTables

\* A value of each kind has the type of its kind.
LEMMA KindTyped ==
    \A k : /\ KeyTable[k].type = "int" => \A n : WellTyped(k, IntValue(n))
           /\ KeyTable[k].type = "bool" => \A b : WellTyped(k, BoolValue(b))
           /\ KeyTable[k].type = "text" => \A t : WellTyped(k, TextValue(t)) /\ WellTyped(k, Merged(t))
BY DEF WellTyped, IntValue, BoolValue, TextValue, Merged

LEMMA StoredTyped ==
    ASSUME NEW k, NEW t, Accepts(k, t), k # "SecurityProfile"
    PROVE  k \in DOMAIN KeyTable /\ WellTyped(k, Stored(k, t))
<1>1. CASE k = "AuthorizationKey"
  <2>1. k \notin Flags \cup UncheckedFlags /\ k \notin Counts
    BY <1>1, KindsDisjoint
  <2>2. \E s : Stored(k, t) = TextValue(s)
    BY <1>1, <2>1 DEF Stored
  <2> QED  BY <1>1, <2>2, OtherLookups, OtherTypes, KindTyped
<1>2. CASE k # "AuthorizationKey"
  <2>1. CASE k \in Flags \cup UncheckedFlags /\ Stored(k, t) = BoolValue(string_to_bool(t))
    BY <2>1, FlagTypes, KindTyped
  <2>2. CASE k \in Counts /\ Stored(k, t) = IntValue(Texts[t].int)
    BY <2>2, CountTypes, KindTyped
  <2>3. CASE k = "CompositeScheduleDefaultNumberPhases" /\ Stored(k, t) = IntValue(Texts[t].prefix)
    BY <2>3, CountTypes, KindTyped
  <2>4. CASE k \in TextKeys /\ Stored(k, t) = TextValue(t)
    BY <2>4, TextTypes, KindTyped
  <2> QED  BY <1>2, <2>1, <2>2, <2>3, <2>4, StoredKinds
<1> QED  BY <1>1, <1>2

\* A configuration all of whose values have the types of their keys.
Typed(cfg) == DOMAIN cfg \subseteq DOMAIN KeyTable /\ \A k \in DOMAIN cfg : WellTyped(k, cfg[k])

LEMMA TypedWith ==
    \A cfg, k, v : Typed(cfg) /\ k \in DOMAIN KeyTable /\ WellTyped(k, v) => Typed(With(cfg, k, v))
BY DEF Typed, With

LEMMA TypedSetKey ==
    ASSUME NEW k \in DOMAIN KeyTable, NEW written, Typed(config), Typed(user_config),
           unsaved \subseteq DOMAIN KeyTable
    PROVE  \A v : SetKey(k, v, written) /\ WellTyped(k, v) =>
                     Typed(config') /\ Typed(user_config') /\ unsaved' \subseteq DOMAIN KeyTable
BY TypedWith DEF SetKey, setInUserConfig

LEMMA TypedPatch ==
    \A cfg : Typed(cfg) => Typed(merge_patch(cfg))
<1> SUFFICES ASSUME NEW STATE cfg, Typed(cfg)
             PROVE  Typed(merge_patch(cfg))
  OBVIOUS
<1>1. DOMAIN merge_patch(cfg) = DOMAIN cfg
  BY DEF merge_patch
<1>2. ASSUME NEW k \in DOMAIN cfg
      PROVE  WellTyped(k, merge_patch(cfg)[k])
  <2>1. CASE merge_patch(cfg)[k] = cfg[k]
    BY <2>1 DEF Typed
  <2>2. CASE merge_patch(cfg)[k] # cfg[k]
    <3>1. k = "DefaultPrice" /\ merge_patch(cfg)[k] = Merged(cfg[k].text)
      BY <2>2 DEF merge_patch
    <3>2. KeyTable[k].type = "text"
      BY <3>1, TextTypes DEF TextKeys
    <3> QED  BY <3>1, <3>2, KindTyped
  <2> QED  BY <2>1, <2>2
<1> QED  BY <1>1, <1>2 DEF Typed

LinkTypes ==
    /\ link \in Links
    /\ options \in Switches
    /\ switch_security_profile_callback \in Switches \cup {None}
    /\ websocket_timer \in Switches \cup {None}
    /\ proven \subseteq 0..3

\* The inductive invariant of the types: the profile in memory is a number, and
\* so is the one in the file that the next start reads.
TypeInv ==
    /\ Typed(config) /\ ProfileOf(config) \in 0..3
    /\ \/ Typed(user_config) /\ ProfileOf(user_config) \in 0..3
       \/ process = "refused" /\ user_config = Torn
    /\ unsaved \subseteq DOMAIN KeyTable
    /\ process \in {"running", "refused"}
    /\ boot \in {"none", "Accepted", "Pending"}
    /\ LinkTypes

FilesTyped(cfg, usr, lost) ==
    /\ Typed(cfg) /\ ProfileOf(cfg) \in 0..3
    /\ Typed(usr) /\ ProfileOf(usr) \in 0..3
    /\ lost \subseteq DOMAIN KeyTable

LEMMA TypeNext ==
    ASSUME UNCHANGED station, FilesTyped(config', user_config', unsaved'),
           process' \in {"running", "refused"}, boot' \in {"none", "Accepted", "Pending"}, LinkTypes'
    PROVE  TypeInv'
<1>1. ProfileOf(config)' = ProfileOf(config') /\ ProfileOf(user_config)' = ProfileOf(user_config')
  BY PrimedValue DEF ProfileOf
<1> QED  BY <1>1 DEF TypeInv, FilesTyped, Typed, WellTyped

LEMMA SwitchTypes ==
    /\ \A p \in 0..3 : Switch(p, 1) \in Switches /\ Switch(p, -1) \in Switches
    /\ \A s \in Switches : s.profile \in 0..3
BY DEF Switch, Switches

\* The type invariant is kept by a key that is set, other than SecurityProfile.
LEMMA FilesSetKey ==
    ASSUME NEW k \in DOMAIN KeyTable, NEW written, k # "SecurityProfile",
           FilesTyped(config, user_config, unsaved)
    PROVE  \A v : SetKey(k, v, written) /\ WellTyped(k, v) => FilesTyped(config', user_config', unsaved')
BY TypedSetKey, ProfileKept DEF FilesTyped

LEMMA FilesSetProfile ==
    ASSUME NEW written, FilesTyped(config, user_config, unsaved)
    PROVE  \A p \in 0..3 : SetKey("SecurityProfile", IntValue(p), written) =>
                              FilesTyped(config', user_config', unsaved')
<1>1. \A p : WellTyped("SecurityProfile", IntValue(p))
  BY OtherTypes, KindTyped
<1>2. \A p \in 0..3 : SetKey("SecurityProfile", IntValue(p), written) =>
        Typed(config') /\ Typed(user_config') /\ unsaved' \subseteq DOMAIN KeyTable
  BY <1>1, OtherLookups, TypedSetKey DEF FilesTyped
<1> QED  BY <1>2, ProfileSet DEF FilesTyped

LEMMA TypesKept ==
    ASSUME TypeInv, [Next]_vars
    PROVE  TypeInv'
<1> DEFINE back == switch_security_profile_callback
<1>a. /\ process = "running" => FilesTyped(config, user_config, unsaved)
      /\ boot \in {"none", "Accepted", "Pending"} /\ LinkTypes
      /\ process \in {"running", "refused"}
  BY DEF TypeInv, FilesTyped
<1>b. ASSUME UNCHANGED <<link, options, back, websocket_timer, proven>>
      PROVE  LinkTypes'
  BY <1>a, <1>b DEF LinkTypes
<1>1. CASE ChangeConfiguration
  <2>1. PICK k \in Requestable, t \in DOMAIN Texts, written \in BOOLEAN :
            set_configuration_key_internal(k, t, written)
    BY <1>1 DEF ChangeConfiguration
  <2>2. /\ process = "running" /\ UNCHANGED <<station, process, boot>>
        /\ FilesTyped(config, user_config, unsaved)
    BY <1>1, <1>a, <2>1 DEF ChangeConfiguration, set_configuration_key_internal
  <2>3. CASE k = "SecurityProfile"
    <3> DEFINE q == Texts[t].prefix
    <3>1. /\ SwitchAllowed(q)
          /\ back' = Switch(q, 1)
          /\ link' = IF link \in Open THEN "closing" ELSE link
          /\ UNCHANGED <<config, user_config, unsaved, options, websocket_timer, proven>>
      BY <2>1, <2>3 DEF set_configuration_key_internal, ChangeSecurityProfile, disconnect, file
    <3>2. q > ProfileOf(config) /\ q <= 3 /\ q \in Int /\ ProfileOf(config) \in 0..3
      BY <3>1, <2>2, TextPrefix DEF SwitchAllowed, SecurityProfile, ProfileOf, FilesTyped
    <3> HIDE DEF q
    <3>3. back' \in Switches
      BY <3>1, <3>2, SwitchTypes
    <3>4. link' \in Links
      BY <3>1, <1>a DEF LinkTypes, Links, CallbacksDue
    <3>5. LinkTypes'
      BY <3>1, <3>3, <3>4, <1>a DEF LinkTypes, Switches
    <3> QED  BY <3>1, <3>5, <2>2, <1>a, TypeNext
  <2>4. CASE k = "AuthorizationKey"
    <3>1. /\ SetKey(k, Stored(k, t), written) /\ Accepts(k, t)
          /\ reconnect \/ UNCHANGED link
          /\ UNCHANGED <<options, back, websocket_timer, proven>>
      BY <2>1, <2>4 DEF set_configuration_key_internal, ChangeAuthorizationKey
    <3>2. FilesTyped(config', user_config', unsaved')
      BY <3>1, <2>2, <2>4, StoredTyped, FilesSetKey
    <3>3. link' \in Links
      BY <3>1, <1>a DEF LinkTypes, Links, CallbacksDue, reconnect, Open
    <3>4. LinkTypes'
      BY <3>1, <3>3, <1>a DEF LinkTypes, Switches
    <3> QED  BY <3>2, <3>4, <2>2, <1>a, TypeNext
  <2>5. CASE k \notin {"SecurityProfile", "AuthorizationKey"}
    <3>1. /\ SetKey(k, Stored(k, t), written) /\ Accepts(k, t)
          /\ UNCHANGED <<link, options, back, websocket_timer, proven>>
      BY <2>1, <2>5 DEF set_configuration_key_internal, ChangeOther, security
    <3>2. FilesTyped(config', user_config', unsaved')
      BY <3>1, <2>2, <2>5, StoredTyped, FilesSetKey
    <3> QED  BY <3>1, <3>2, <2>2, <1>a, <1>b, TypeNext
  <2> QED  BY <2>3, <2>4, <2>5
<1>2. ASSUME NEW status \in {"Accepted", "Pending"}, NEW interval \in {0, 300},
             BootNotificationResponse(status, interval)
      PROVE  TypeInv'
  <2>1. /\ process = "running" /\ boot' = status
        /\ UNCHANGED <<station, process, link, options, back, websocket_timer, proven>>
    BY <1>2 DEF BootNotificationResponse, security
  <2>2. FilesTyped(config', user_config', unsaved')
    <3>1. CASE SetKey("HeartbeatInterval", IntValue(interval), TRUE)
      <4>1. "HeartbeatInterval" \in DOMAIN KeyTable /\ WellTyped("HeartbeatInterval", IntValue(interval))
        BY OtherLookups, CountTypes, KindTyped DEF Counts
      <4> QED  BY <3>1, <4>1, <2>1, <1>a, FilesSetKey
    <3>2. CASE UNCHANGED <<config, user_config, unsaved>>
      BY <3>2, <2>1, <1>a
    <3> QED  BY <1>2, <3>1, <3>2 DEF BootNotificationResponse, file
  <2> QED  BY <2>1, <2>2, <1>a, <1>b, TypeNext
<1>3. CASE TimeOffsetTransition
  <2>1. /\ process = "running"
        /\ UNCHANGED <<station, process, boot, link, options, back, websocket_timer, proven>>
    BY <1>3 DEF TimeOffsetTransition, security
  <2>2. FilesTyped(config', user_config', unsaved')
    <3> DEFINE v == Value(config, "TimeOffsetNextTransition")
    <3>1. CASE SetKey("TimeOffset", v, TRUE)
      <4>1. /\ "TimeOffset" \in DOMAIN KeyTable /\ KeyTable["TimeOffset"].type = "text"
            /\ KeyTable["TimeOffsetNextTransition"].type = "text"
        BY TextTypes DEF TextKeys
      <4>2. v \in {None, Original} \/ WellTyped("TimeOffsetNextTransition", v)
        BY <2>1, <1>a DEF FilesTyped, Typed, Value, FileValue
      <4>3. WellTyped("TimeOffset", v)
        BY <4>1, <4>2 DEF WellTyped
      <4> HIDE DEF v
      <4> QED  BY <3>1, <4>1, <4>3, <2>1, <1>a, FilesSetKey
    <3>2. CASE UNCHANGED <<config, user_config, unsaved>>
      BY <3>2, <2>1, <1>a
    <3> QED  BY <1>3, <3>1, <3>2 DEF TimeOffsetTransition, file
  <2> QED  BY <2>1, <2>2, <1>a, <1>b, TypeNext
<1>4. ASSUME NEW what \in DOMAIN Information, SetInformation(Information[what])
      PROVE  TypeInv'
  <2> DEFINE new == [k \in Information[what] |-> TextValue("words")]
  <2>1. /\ process = "running"
        /\ UNCHANGED <<station, process, boot, unsaved, link, options, back, websocket_timer, proven>>
        /\ config' = Over(new, config) /\ user_config' = Over(new, user_config)
    BY <1>4 DEF SetInformation, security
  <2>2. \A k \in DOMAIN new : k \in DOMAIN KeyTable /\ WellTyped(k, new[k])
    BY OtherTypes, KindTyped
  <2>3. "SecurityProfile" \notin DOMAIN new
    BY DEF Information
  <2> HIDE DEF new
  <2>4. \A cfg : Typed(cfg) => Typed(Over(new, cfg))
    BY <2>2 DEF Typed, Over
  <2>5. ProfileOf(config') = ProfileOf(config) /\ ProfileOf(user_config') = ProfileOf(user_config)
    BY <2>1, <2>3, OverValue DEF ProfileOf
  <2>6. FilesTyped(config', user_config', unsaved')
    BY <2>1, <2>4, <2>5, <1>a DEF FilesTyped
  <2> QED  BY <2>1, <2>6, <1>a, <1>b, TypeNext
<1>5. CASE StoppedConnecting
  <2>1. /\ process = "running" /\ link \in DOMAIN CallbacksDue
        /\ link' = CallbacksDue[link]
        /\ UNCHANGED <<station, process, boot, options, proven>>
    BY <1>5 DEF StoppedConnecting
  <2>2. link' \in Links
    BY <2>1 DEF CallbacksDue, Links
  <2>3. CASE back = None
    <3>1. UNCHANGED <<config, user_config, unsaved, back, websocket_timer>>
      BY <1>5, <2>3 DEF StoppedConnecting, file
    <3>2. LinkTypes'
      BY <3>1, <2>1, <2>2, <1>a DEF LinkTypes, Switches
    <3> QED  BY <3>1, <3>2, <2>1, <1>a, TypeNext
  <2>4. CASE back # None
    <3>1. PICK written \in BOOLEAN : switchSecurityProfile(back, written)
      BY <1>5, <2>4 DEF StoppedConnecting
    <3>2. back \in Switches /\ back.profile \in 0..3
      BY <2>4, <1>a, SwitchTypes DEF LinkTypes
    <3>3. FilesTyped(config', user_config', unsaved')
      BY <3>1, <3>2, <2>1, <1>a, FilesSetProfile DEF switchSecurityProfile
    <3>4. websocket_timer' \in Switches /\ back' \in Switches
      BY <3>1, <3>2, <2>1, <1>a, SwitchTypes
         DEF switchSecurityProfile, FilesTyped, ProfileOf, SecurityProfile
    <3>5. LinkTypes'
      BY <3>4, <2>1, <2>2, <1>a DEF LinkTypes, Switches
    <3> QED  BY <3>3, <3>5, <2>1, <1>a, TypeNext
  <2> QED  BY <2>3, <2>4
<1>6. CASE ConnectionLost \/ StartConnecting \/ Connected \/ AttemptFails
  <2>1. process = "running" /\ UNCHANGED <<station, process, boot, config, user_config, unsaved>>
    BY <1>6 DEF ConnectionLost, StartConnecting, Connected, AttemptFails, file
  <2>2. link' \in Links
    BY <1>6, <1>a DEF ConnectionLost, StartConnecting, Connected, AttemptFails, Links, Open,
           CallbacksDue, LinkTypes
  <2>3. options' \in Switches
    <3>1. Switch(SecurityProfile, -1) \in Switches
      BY <2>1, <1>a, SwitchTypes DEF FilesTyped, ProfileOf, SecurityProfile
    <3> QED  BY <3>1, <1>6, <1>a DEF ConnectionLost, StartConnecting, Connected, AttemptFails, LinkTypes
  <2>4. proven' \subseteq 0..3
    <3>1. options.profile \in 0..3
      BY <1>a, SwitchTypes DEF LinkTypes
    <3> QED  BY <3>1, <1>6, <1>a DEF ConnectionLost, StartConnecting, Connected, AttemptFails, LinkTypes
  <2>5. back' \in Switches \cup {None} /\ websocket_timer' \in Switches \cup {None}
    BY <1>6, <1>a DEF ConnectionLost, StartConnecting, Connected, AttemptFails, LinkTypes
  <2>6. LinkTypes'
    BY <2>2, <2>3, <2>4, <2>5 DEF LinkTypes, Switches, None, Links, Open, CallbacksDue
  <2> QED  BY <2>1, <2>6, <1>a, TypeNext
<1>7. CASE Restart
  <2>1. /\ process = "running" /\ UNCHANGED <<station, user_config>> /\ boot' = "none"
        /\ back' = None /\ websocket_timer' = None /\ unsaved' = {}
        /\ proven' = IF "SecurityProfile" \in unsaved THEN {options'.profile} ELSE proven
        /\ FilesTyped(config, user_config, unsaved)
    BY <1>7, <1>a DEF Restart
  <2>2. CASE process' = "running"
    <3>1. /\ config' = merge_patch(user_config)
          /\ link' = "connecting" /\ options' = Switch(ProfileOf(config'), -1)
      BY <1>7, <2>2 DEF Restart, Start, ProfileOf
    <3>2. FilesTyped(config', user_config', unsaved')
      BY <3>1, <2>1, TypedPatch, PatchValue DEF FilesTyped, ProfileOf
    <3>3. options' \in Switches /\ options'.profile \in 0..3
      BY <3>1, <3>2, SwitchTypes DEF FilesTyped
    <3>4. LinkTypes'
      BY <3>1, <3>3, <2>1, <1>a DEF LinkTypes, Switches, Links, Open, None
    <3> QED  BY <2>1, <2>2, <3>2, <3>4, TypeNext
  <2>3. CASE process' # "running"
    <3>1. process' = "refused" /\ UNCHANGED <<config, link, options>>
      BY <1>7, <2>3 DEF Restart, Start
    <3>2. LinkTypes'
      BY <3>1, <2>1, <1>a, SwitchTypes DEF LinkTypes, Switches, None
    <3>3. FilesTyped(config', user_config', unsaved')
      BY <3>1, <2>1 DEF FilesTyped
    <3> QED  BY <3>1, <3>2, <3>3, <2>1, TypeNext
  <2> QED  BY <2>2, <2>3
<1>8. CASE RestartWhileWriting
  <2>1. /\ UNCHANGED <<station, config, unsaved, boot, link, options, back, websocket_timer, proven>>
        /\ user_config' = Torn /\ process' = "refused"
    BY <1>8 DEF RestartWhileWriting, security
  <2>2. LinkTypes'
    BY <2>1, <1>b
  <2>3. ProfileOf(config)' = ProfileOf(config')
    BY <2>1, PrimedValue DEF ProfileOf
  <2> QED  BY <2>1, <2>2, <2>3 DEF TypeInv, Typed, WellTyped, Torn
<1>9. CASE UNCHANGED vars
  <2>1. UNCHANGED <<station, process, config, user_config, unsaved, boot, link, options, back, websocket_timer, proven>>
    BY <1>9 DEF vars, file, security
  <2>2. LinkTypes'
    BY <2>1, <1>b
  <2>3. ProfileOf(config)' = ProfileOf(config) /\ ProfileOf(user_config)' = ProfileOf(user_config)
    BY <2>1, PrimedValue DEF ProfileOf
  <2> QED  BY <2>1, <2>2, <2>3 DEF TypeInv, Typed, WellTyped, Torn
<1> QED  BY <1>1, <1>2, <1>3, <1>4, <1>5, <1>6, <1>7, <1>8, <1>9 DEF Next

LEMMA TypesAlways == Spec => []TypeInv
<1>1. ASSUME Init PROVE TypeInv
  <2>1. ProfileOf(config) = station.profile /\ ProfileOf(user_config) = station.profile
    BY <1>1 DEF Init, ProfileOf, Value, FileValue, IntValue
  <2>2. station.profile \in 0..3
    BY <1>1, StationsAssumption DEF Init
  <2>3. LinkTypes
    BY <1>1, <2>2, SwitchTypes DEF Init, LinkTypes, Links, Open
  <2>4. Typed(config) /\ Typed(user_config)
    BY <1>1 DEF Init, Typed
  <2> QED  BY <1>1, <2>1, <2>2, <2>3, <2>4 DEF Init, TypeInv
<1> QED  BY <1>1, TypesKept, PTL DEF Spec

\* Every value in memory and in the user configuration has the type that the
\* getter of its key converts it to, so no getter throws; and the security
\* profiles stay between 0 and 3.
THEOREM TypeCorrect == Spec => []TypeOK
<1>1. TypeInv => TypeOK
  BY DEF TypeInv, TypeOK, Typed, LinkTypes
<1> QED  BY <1>1, TypesAlways, PTL

=============================================================================
