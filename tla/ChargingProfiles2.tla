-------------------------- MODULE ChargingProfiles2 --------------------------
(***************************************************************************)
(* Charging profiles of an OCPP 2.x station (SmartCharging and the table   *)
(* CHARGING_PROFILES): profiles are set by the CSMS, alone or with a       *)
(* RequestStartTransaction, validated, stored, reported, cleared, deleted  *)
(* with their transaction, and read back - and validated again - whenever  *)
(* a composite schedule is calculated.                                     *)
(*                                                                         *)
(* A profile of the model has one schedule, or none.                       *)
(***************************************************************************)
EXTENDS CompositeSchedule2

CONSTANTS
    Evses,          \* ids of the EVSEs, from 1
    Devices,        \* device models: records, see Validation
    Offers,         \* what SetChargingProfile brings: [evse, profile]
    StartOffers,    \* what RequestStartTransaction brings, the same
    ClearRequests,  \* ClearChargingProfile: [id, criteria]
    GetRequests,    \* GetChargingProfiles: [evse, ids, purpose, stackLevel, sources]
    Duration,       \* duration of the composite schedules that are asked for
    MaxTime,        \* bound on time
    MaxTx           \* bound on transactions

ASSUME ProfilesAssumption ==
    /\ Evses \subseteq Nat \ {0} /\ Evses # {}
    /\ Duration \in Nat
    /\ MaxTime \in Nat /\ MaxTx \in Nat

VARIABLES
    dm,         \* the device model: its values do not change here
    db,         \* CHARGING_PROFILES: set of [evse, profile, source]
    tx,         \* Evse::transaction: [id, start] or None
    started,    \* number of transactions so far
    updated,    \* last_charging_profile_update: purpose -> time or None
    online,     \* is_websocket_connected()
    now,
    out         \* what the handler that ran last sent or returned, until it is handed over

vars == <<dm, db, tx, started, updated, online, now, out>>

Purposes == {"ChargingStationExternalConstraints", "ChargingStationMaxProfile", "TxDefaultProfile",
             "TxProfile", "PriorityCharging", "LocalGeneration"}
Quiet == [kind |-> "nothing"]

\* Handlers run one at a time; what one sends is gone before the next begins.
Ready == out = Quiet
Epoch == -Forever

-----------------------------------------------------------------------------
(* Validation *)

\* operation_modes_for_charging_profile_purposes
OperationModesFor(purpose) ==
    CASE purpose \in {"TxProfile", "TxDefaultProfile"} ->
           {"ChargingOnly", "CentralSetpoint", "ExternalSetpoint", "ExternalLimits", "CentralFrequency",
            "LocalFrequency", "LocalLoadBalancing", "Idle"}
      [] purpose \in {"PriorityCharging", "ChargingStationMaxProfile"} -> {"ChargingOnly"}
      [] purpose = "ChargingStationExternalConstraints" -> {"ChargingOnly", "ExternalLimits", "ExternalSetpoint"}
      [] purpose = "LocalGeneration" -> {"ChargingOnly", "ExternalLimits"}

\* limits_setpoints_per_operation_mode: the required and the allowed limits and setpoints
LimitsFor(mode) ==
    CASE mode = "ChargingOnly" -> [required |-> {"limit"}, allowed |-> {"limit"}]
      [] mode = "CentralSetpoint" -> [required |-> {"setpoint"},
                                      allowed |-> {"setpoint", "limit", "dischargeLimit", "setpointReactive"}]
      [] mode = "CentralFrequency" -> [required |-> {"setpoint"}, allowed |-> {"setpoint", "limit", "dischargeLimit"}]
      [] mode = "ExternalSetpoint" -> [required |-> {}, allowed |-> {"limit", "dischargeLimit"}]
      [] OTHER -> [required |-> {}, allowed |-> {}]

ModeOf(period) == OrElse(period.operationMode, "ChargingOnly")

\* check_limits_and_setpoints
check_limits_and_setpoints(period) ==
    \A type \in {"limit", "dischargeLimit", "setpoint", "setpointReactive"} :
        /\ type \in LimitsFor(ModeOf(period)).required => period[type][1] # None
        /\ (\E i \in 1..3 : period[type][i] # None) => type \in LimitsFor(ModeOf(period)).allowed

\* all_setpoints_signs_equal
all_setpoints_signs_equal(period) ==
    LET s == period.setpoint
    IN s[1] # None => \A i \in {2, 3} : s[i] # None => ~(s[1] > 0 /\ s[i] < 0) /\ ~(s[1] < 0 /\ s[i] > 0)

\* get_current_phase_type of the EVSE, or of the station for 0
get_current_phase_type(evse) ==
    CASE dm.supplyPhases[evse] \in {1, 3} -> "AC" [] dm.supplyPhases[evse] = 0 -> "DC" [] OTHER -> "Unknown"

\* has_dc_input_phase_control
has_dc_input_phase_control(evse) ==
    \A e \in (IF evse = 0 THEN Evses ELSE {evse}) : e \in dm.dcInputPhaseControl

\* The first check that fails decides.
Verdict(checks) ==
    LET failed == SelectSeq(checks, LAMBDA c : c[1])
    IN IF failed = << >> THEN "Valid" ELSE failed[1][2]

\* What validate_profile_schedules checks of the period i
PeriodChecks(p, evse, i) ==
    LET period == p.periods[i]
        phaseValues == period.numberPhases # None \/ period.phaseToUse # None
        mode == ModeOf(period)
        v21 == dm.version = "v21"
    IN << <<period.numberPhases # 1 /\ period.phaseToUse # None, "ChargingSchedulePeriodInvalidPhaseToUse">>,
          <<period.phaseToUse # None /\ ~dm.phaseSwitching, "ChargingSchedulePeriodPhaseToUseACPhaseSwitchingUnsupported">>,
          <<i = 1 /\ period.startPeriod # 0, "ChargingProfileFirstStartScheduleIsNotZero">>,
          <<i < Len(p.periods) /\ p.periods[i + 1].startPeriod <= period.startPeriod, "ChargingSchedulePeriodsOutOfOrder">>,
          <<get_current_phase_type(evse) = "DC" /\ phaseValues /\ ~v21, "ChargingSchedulePeriodExtraneousPhaseValues">>,
          <<get_current_phase_type(evse) = "DC" /\ phaseValues /\ v21 /\ ~has_dc_input_phase_control(evse),
            "ChargingSchedulePeriodNoPhaseForDC">>,
          <<get_current_phase_type(evse) = "AC" /\ period.numberPhases # None /\ period.numberPhases > dm.supplyPhases[0],
            "ChargingSchedulePeriodUnsupportedNumberPhases">>,
          <<v21 /\ p.purpose = "PriorityCharging" /\ mode # "ChargingOnly",
            "ChargingSchedulePeriodPriorityChargingNotChargingOnly">>,
          <<v21 /\ mode \notin OperationModesFor(p.purpose), "ChargingSchedulePeriodUnsupportedOperationMode">>,
          <<v21 /\ mode = "LocalFrequency" /\ p.unit = "A", "ChargingScheduleChargingRateUnitUnsupported">>,
          <<v21 /\ period.evseSleep /\ "EvseSleep" \notin dm.supports, "ChargingScheduleUnsupportedEvseSleep">>,
          <<v21 /\ ~check_limits_and_setpoints(period), "ChargingSchedulePeriodUnsupportedLimitSetpoint">>,
          <<v21 /\ mode = "LocalFrequency" /\ ~period.freqWattCurve, "ChargingSchedulePeriodNoFreqWattCurve">>,
          <<v21 /\ ~all_setpoints_signs_equal(period), "ChargingSchedulePeriodSignDifference">> >>

\* What validate_profile_schedules checks of the schedule before and after its periods
ScheduleChecks(p) ==
    LET v21 == dm.version = "v21"
    IN << <<p.unit \notin dm.units, "ChargingScheduleChargingRateUnitUnsupported">>,
          <<p.periods = << >>, "ChargingProfileNoChargingSchedulePeriods">>,
          <<v21 /\ p.purpose \notin {"TxProfile", "TxDefaultProfile"} /\ p.randomizedDelay # None /\ p.randomizedDelay > 0,
            "ChargingScheduleRandomizedDelay">>,
          <<v21 /\ p.purpose \in {"PriorityCharging", "LocalGeneration"} \ dm.additionalPurposes,
            "ChargingProfileUnsupportedPurpose">>,
          <<v21 /\ p.kind = "Dynamic" /\ "DynamicProfiles" \notin dm.supports, "ChargingProfileUnsupportedKind">>,
          <<v21 /\ p.dynUpdate /\ p.kind # "Dynamic", "ChargingProfileNotDynamic">>,
          <<v21 /\ p.useLocalTime /\ "UseLocalTime" \notin dm.supports, "ChargingScheduleUnsupportedLocalTime">>,
          <<v21 /\ p.randomizedDelay # None /\ "RandomizedDelay" \notin dm.supports, "ChargingScheduleUnsupportedRandomizedDelay">>,
          <<v21 /\ p.limitAtSoC /\ "LimitAtSoC" \notin dm.supports, "ChargingScheduleUnsupportedLimitAtSoC">> >>

StartChecks(p) ==
    << <<p.kind \in {"Absolute", "Recurring"} /\ p.startSchedule = None, "ChargingProfileMissingRequiredStartSchedule">>,
       <<p.kind = "Relative" /\ p.startSchedule # None, "ChargingProfileExtraneousStartSchedule">> >>

validate_profile_schedules(p, evse) ==
    IF p.periods = None THEN "ChargingProfileEmptyChargingSchedules"
    ELSE Verdict(ScheduleChecks(p) \o FlattenSeq([i \in DOMAIN p.periods |-> PeriodChecks(p, evse, i)]) \o StartChecks(p))

\* verify_no_conflicting_external_constraints_id
verify_no_conflicting_external_constraints_id(p) ==
    Verdict(<< <<dm.version = "v21" /\ dm.maxExternalConstraintsId # None /\ p.id <= dm.maxExternalConstraintsId,
                 "ChargingProfileIdSmallerThanMaxExternalConstraintsId">>,
               <<\E r \in db : r.profile.id = p.id /\ r.profile.purpose = "ChargingStationExternalConstraints",
                 "ExistingChargingStationExternalConstraints">> >>)

\* is_overlapping_validity_period, of a conformed profile
is_overlapping_validity_period(p, evse) ==
    /\ p.purpose # "TxProfile"
    /\ \E r \in db : /\ r.profile.purpose = p.purpose /\ r.evse = evse
                     /\ r.profile.id # p.id /\ r.profile.stackLevel = p.stackLevel
                     /\ p.validFrom <= r.profile.validTo /\ p.validTo >= r.profile.validFrom

\* validate_charging_station_max_profile
validate_charging_station_max_profile(p, evse) ==
    Verdict(<< <<evse > 0, "ChargingStationMaxProfileEvseIdGreaterThanZero">>,
               <<p.kind = "Relative", "ChargingStationMaxProfileCannotBeRelative">> >>)

\* validate_tx_default_profile: no station-wide one next to one of an EVSE on the same level
validate_tx_default_profile(p, evse) ==
    IF \E r \in db : /\ r.profile.purpose = "TxDefaultProfile" /\ (r.evse = 0) # (evse = 0)
                     /\ r.profile.stackLevel = p.stackLevel /\ r.profile.id # p.id
    THEN "DuplicateTxDefaultProfileFound" ELSE "Valid"

\* validate_tx_profile
validate_tx_profile(p, evse, source) ==
    LET set == source = "SetChargingProfile"
    IN Verdict(<< <<evse <= 0, "TxProfileEvseIdNotGreaterThanZero">>,
                  <<evse \notin Evses, "EvseDoesNotExist">>,
                  <<set /\ p.tx = None, "TxProfileMissingTransactionId">>,
                  <<set /\ evse \in Evses /\ tx[evse] = None, "TxProfileEvseHasNoActiveTransaction">>,
                  <<set /\ evse \in Evses /\ tx[evse] # None /\ tx[evse].id # p.tx, "TxProfileTransactionNotOnEvse">>,
                  <<set /\ \E r \in db : r.profile.tx # None /\ r.profile.tx = p.tx
                             /\ r.profile.stackLevel = p.stackLevel /\ r.profile.id # p.id,
                    "TxProfileConflictingStackLevel">> >>)

\* validate_priority_charging_profile
validate_priority_charging_profile(p) ==
    IF p.duration # None THEN "ChargingSchedulePriorityExtranousDuration" ELSE "Valid"

\* conform_validity_periods and, for AC, conform_schedule_number_phases
conform(p, evse) ==
    [p EXCEPT !.validFrom = OrElse(@, Epoch), !.validTo = OrElse(@, Forever),
              !.periods = IF @ = None \/ evse \notin DOMAIN dm.supplyPhases \/ get_current_phase_type(evse) # "AC" THEN @
                          ELSE [i \in DOMAIN @ |-> [@[i] EXCEPT !.numberPhases = OrElse(@, 3)]]]

\* conform_and_validate_profile, of a profile to be conformed
validate_profile(p, evse, source) ==
    LET c == conform(p, evse)
        external == verify_no_conflicting_external_constraints_id(p)
        schedules == validate_profile_schedules(p, evse)
    IN CASE source = "RequestStartTransactionRequest" /\ p.purpose # "TxProfile" -> "RequestStartTransactionNonTxProfile"
         [] evse # 0 /\ evse \notin Evses -> "EvseDoesNotExist"
         [] OTHER ->
              IF external # "Valid" THEN external
              ELSE IF schedules # "Valid" THEN schedules
              ELSE IF is_overlapping_validity_period(c, evse) THEN "DuplicateProfileValidityPeriod"
              ELSE CASE p.purpose = "ChargingStationMaxProfile" -> validate_charging_station_max_profile(p, evse)
                     [] p.purpose = "TxDefaultProfile" -> validate_tx_default_profile(p, evse)
                     [] p.purpose = "TxProfile" -> validate_tx_profile(p, evse, source)
                     [] p.purpose = "ChargingStationExternalConstraints" -> "Valid"
                     [] p.purpose = "PriorityCharging" -> validate_priority_charging_profile(p)
                     [] p.purpose = "LocalGeneration" -> "InvalidProfileType"

\* verify_rate_limit: too soon after the last profile of the purpose that came this far
RateLimited == dm.version = "v21" /\ dm.rateLimit # None
TooSoon(purpose) == RateLimited /\ updated[purpose] # None /\ now - updated[purpose] < dm.rateLimit

-----------------------------------------------------------------------------
(* The reply to a profile *)

\* profile_validation_result_to_reason_code
reason_code(result) ==
    CASE result = "Valid" -> "NoError"
      [] result \in {"DuplicateProfileValidityPeriod", "DuplicateTxDefaultProfileFound",
                     "ExistingChargingStationExternalConstraints"} -> "DuplicateProfile"
      [] result \in {"TxProfileTransactionNotOnEvse", "TxProfileEvseHasNoActiveTransaction"} -> "TxNotFound"
      [] result = "TxProfileConflictingStackLevel" -> "InvalidStackLevel"
      [] result = "ChargingScheduleChargingRateUnitUnsupported" -> "UnsupportedRateUnit"
      [] result = "ChargingProfileRateLimitExceeded" -> "RateLimitExceeded"
      [] result = "ChargingProfileIdSmallerThanMaxExternalConstraintsId" -> "InvalidProfileId"
      [] result = "ChargingProfileUnsupportedPurpose" -> "UnsupportedPurpose"
      [] result = "ChargingProfileUnsupportedKind" -> "UnsupportedKind"
      [] result = "ChargingProfileNotDynamic" -> "InvalidProfile"
      [] result = "ChargingSchedulePeriodNoPhaseForDC" -> "NoPhaseForDC"
      [] result = "ChargingSchedulePeriodNoFreqWattCurve" -> "NoFreqWattCurve"
      [] result = "TxProfileMissingTransactionId" -> "MissingParam"
      [] result \in {"EvseDoesNotExist", "TxProfileEvseIdNotGreaterThanZero", "RequestStartTransactionNonTxProfile",
                     "ChargingStationMaxProfileCannotBeRelative",
                     "ChargingStationMaxProfileEvseIdGreaterThanZero"} -> "InvalidValue"
      [] result = "InvalidProfileType" -> "InternalError"
      [] OTHER -> "InvalidSchedule"

Reply(to, status, reason) == [kind |-> "reply", to |-> to, status |-> status, reason |-> reason]

\* insert_or_update_charging_profile: the id is the key of the table
InsertOrUpdate(evse, p) ==
    {r \in db : r.profile.id # p.id} \cup {[evse |-> evse, profile |-> p, source |-> "CSO"]}

\* conform_validate_and_add_profile for a request, and add_profile, whose insert may fail.  The rate
\* limit counts from the last profile that was valid, stored or not.
ConformValidateAndAdd(to, p, evse, source) ==
    LET verdict == validate_profile(p, evse, source)
        result == IF verdict = "Valid" /\ TooSoon(p.purpose) THEN "ChargingProfileRateLimitExceeded" ELSE verdict
    IN /\ updated' = IF verdict = "Valid" /\ RateLimited THEN [updated EXCEPT ![p.purpose] = now] ELSE updated
       /\ \/ /\ result = "Valid"
             /\ db' = InsertOrUpdate(evse, conform(p, evse))
             /\ out' = Reply(to, "Accepted", "NoError")
          \/ /\ result = "Valid"
             /\ out' = Reply(to, "Rejected", "InternalError")
             /\ UNCHANGED db
          \/ /\ result # "Valid"
             /\ out' = Reply(to, "Rejected", reason_code(result))
             /\ UNCHANGED db

-----------------------------------------------------------------------------
(* What is in force *)

\* get_valid_profiles_for_evse: what is stored is validated once more
get_valid_profiles_for_evse(evse) ==
    {conform(r.profile, evse) : r \in {x \in db :
        /\ x.evse = evse
        /\ validate_profile(x.profile, evse, "SetChargingProfile") = "Valid"
        /\ online \/ x.profile.purpose \notin dm.ignoredOffline}}

Sessions == [e \in Evses |-> IF tx[e] = None THEN None ELSE tx[e].start]
ScheduleConfig == [version |-> dm.version, default_limit |-> dm.default_limit,
                   default_number_phases |-> dm.default_number_phases, supply_voltage |-> dm.supply_voltage]

ValidProfiles == [e \in Evses \cup {0} |-> get_valid_profiles_for_evse(e)]

-----------------------------------------------------------------------------
(* Requests of the CSMS *)

\* handle_set_charging_profile_req
SetChargingProfile(o) ==
    /\ Ready
    /\ IF ~dm.available
       THEN out' = Reply("SetChargingProfile", "CallError", "NotSupported") /\ UNCHANGED <<db, updated>>
       ELSE IF o.profile.purpose = "ChargingStationExternalConstraints"
       THEN out' = Reply("SetChargingProfile", "Rejected", "InvalidValue") /\ UNCHANGED <<db, updated>>
       ELSE ConformValidateAndAdd("SetChargingProfile", o.profile, o.evse, "SetChargingProfile")
    /\ UNCHANGED <<dm, tx, started, online, now>>

\* The profile of a RequestStartTransactionRequest; a refusal does not change the answer's status.
RequestStartTransaction(o) ==
    /\ Ready
    /\ dm.enabled
    /\ o.profile.purpose = "TxProfile"
    /\ ConformValidateAndAdd("RequestStartTransaction", o.profile, o.evse, "RequestStartTransactionRequest")
    /\ UNCHANGED <<dm, tx, started, online, now>>

\* clear_charging_profiles_matching_criteria: what a ClearChargingProfile removes
Cleared(req) ==
    LET c == req.criteria
        given == c # None /\ (c.purpose # None \/ c.evse # None \/ c.stackLevel # None)
    IN CASE req.id # None -> {r \in db : r.profile.id = req.id}
         [] req.id = None /\ c = None -> db
         [] req.id = None /\ given ->
              {r \in db : /\ r.profile.purpose # "ChargingStationExternalConstraints"
                          /\ c.purpose \in {None, r.profile.purpose}
                          /\ c.stackLevel \in {None, r.profile.stackLevel}
                          /\ c.evse \in {None, r.evse}}
         [] OTHER -> {}

\* handle_clear_charging_profile_req; clearing the whole table succeeds when it is empty, too
ClearChargingProfile(req) ==
    LET refused == req.criteria # None /\ req.criteria.purpose = "ChargingStationExternalConstraints"
        all == req.id = None /\ req.criteria = None
    IN /\ Ready
       /\ db' = IF refused THEN db ELSE db \ Cleared(req)
       /\ out' = Reply("ClearChargingProfile",
                       IF ~refused /\ (all \/ Cleared(req) # {}) THEN "Accepted" ELSE "Unknown",
                       IF refused THEN "InvalidValue" ELSE "NoError")
       /\ UNCHANGED <<dm, tx, started, updated, online, now>>

\* get_charging_profiles_matching_criteria: ids leave the other criteria out, but not the EVSE
Matching(req) ==
    {r \in db : /\ req.evse \in {None, r.evse}
                /\ IF req.ids # {} THEN r.profile.id \in req.ids
                   ELSE /\ req.purpose \in {None, r.profile.purpose}
                        /\ req.stackLevel \in {None, r.profile.stackLevel}
                        /\ req.sources = {} \/ r.source \in req.sources}

\* The ReportChargingProfilesRequests of handle_get_charging_profiles_req
ReportsOf(rows) ==
    LET groups == SetToSeq({[evse |-> r.evse, source |-> r.source] : r \in rows})
    IN [k \in DOMAIN groups |->
          [evse |-> groups[k].evse, tbc |-> k < Len(groups),
           ids |-> {r.profile.id : r \in {x \in rows : x.evse = groups[k].evse /\ x.source = groups[k].source}}]]

\* handle_get_charging_profiles_req
GetChargingProfiles(req) ==
    /\ Ready
    /\ out' = [kind |-> "reports", req |-> req,
               status |-> IF Matching(req) = {} THEN "NoProfiles" ELSE "Accepted", reports |-> ReportsOf(Matching(req))]
    /\ UNCHANGED <<dm, db, tx, started, updated, online, now>>

\* get_composite_schedule_internal, for the CSMS (simulate) or for the application
GetCompositeSchedule(evse, unit, simulate) ==
    /\ Ready
    /\ \E valid \in {ValidProfiles} :
          out' = IF evse \in Evses \cup {0} /\ unit \in dm.units
                 THEN [kind |-> "composite", evse |-> evse, unit |-> unit, simulate |-> simulate,
                       periods |-> calculate_composite_schedule(valid, Sessions, evse, unit, now, now + Duration,
                                                                simulate, ScheduleConfig)]
                 ELSE Reply("GetCompositeSchedule", "Rejected",
                            reason_code(IF unit \in dm.units THEN "EvseDoesNotExist"
                                        ELSE "ChargingScheduleChargingRateUnitUnsupported"))
    /\ UNCHANGED <<dm, db, tx, started, updated, online, now>>

\* handle_notify_ev_charging_needs_response: a rejection ends the transaction of an ISO 15118-20 car
NotifyEVChargingNeedsResponse(evse, status, is_15118_20) ==
    /\ Ready
    /\ out' = IF status = "Rejected" /\ dm.version = "v21" /\ is_15118_20
              THEN [kind |-> "stop", evse |-> evse] ELSE Quiet
    /\ UNCHANGED <<dm, db, tx, started, updated, online, now>>

-----------------------------------------------------------------------------
(* Around it *)

TransactionStarts(e) ==
    /\ Ready
    /\ tx[e] = None /\ started < MaxTx
    /\ started' = started + 1
    /\ tx' = [tx EXCEPT ![e] = [id |-> started + 1, start |-> now]]
    /\ out' = Quiet
    /\ UNCHANGED <<dm, db, updated, online, now>>

\* The transaction ends and keeps its profiles.
TransactionEnds_Keeps(e) ==
    /\ Ready
    /\ tx[e] # None
    /\ tx' = [tx EXCEPT ![e] = None]
    /\ out' = Quiet
    /\ UNCHANGED <<dm, db, started, updated, online, now>>

\* delete_transaction_tx_profiles in on_transaction_finished: the rows with its id
TransactionEnds(e) ==
    /\ Ready
    /\ tx[e] # None
    /\ db' = {r \in db : r.profile.tx # tx[e].id}
    /\ tx' = [tx EXCEPT ![e] = None]
    /\ out' = Quiet
    /\ UNCHANGED <<dm, started, updated, online, now>>

\* clear_invalid_charging_profiles, after the transactions were resumed.  The rows are looked at one after the
\* other; none depends on one that goes (StoredStaysValid).  The times of the last updates are not kept.
Restart ==
    /\ Ready
    /\ db' = {r \in db : dm.available => validate_profile(r.profile, r.evse, "SetChargingProfile") = "Valid"}
    /\ updated' = [p \in Purposes |-> None]
    /\ out' = Quiet
    /\ UNCHANGED <<dm, tx, started, online, now>>

Connection ==
    /\ Ready
    /\ online' = ~online
    /\ out' = Quiet
    /\ UNCHANGED <<dm, db, tx, started, updated, now>>

Tick ==
    /\ Ready
    /\ now < MaxTime
    /\ now' = now + 1
    /\ out' = Quiet
    /\ UNCHANGED <<dm, db, tx, started, updated, online>>

Delivered ==
    /\ out # Quiet
    /\ out' = Quiet
    /\ UNCHANGED <<dm, db, tx, started, updated, online, now>>

Init ==
    /\ dm \in Devices
    /\ db = {}
    /\ tx = [e \in Evses |-> None]
    /\ started = 0
    /\ updated = [p \in Purposes |-> None]
    /\ online = TRUE
    /\ now = 0
    /\ out = Quiet

Next ==
    \/ \E o \in Offers : SetChargingProfile(o)
    \/ \E o \in StartOffers : RequestStartTransaction(o)
    \/ \E req \in ClearRequests : ClearChargingProfile(req)
    \/ \E req \in GetRequests : GetChargingProfiles(req)
    \/ \E evse \in Evses \cup {0}, unit \in {"A", "W"}, simulate \in BOOLEAN : GetCompositeSchedule(evse, unit, simulate)
    \/ \E evse \in Evses, status \in {"Accepted", "Rejected"}, is_15118_20 \in BOOLEAN :
          NotifyEVChargingNeedsResponse(evse, status, is_15118_20)
    \/ \E e \in Evses : TransactionStarts(e)
    \/ \E e \in Evses : TransactionEnds(e)
    \/ Restart
    \/ Connection
    \/ Tick
    \/ Delivered

Spec == Init /\ [][Next]_vars

-----------------------------------------------------------------------------
(* Properties *)

TypeOK ==
    /\ dm \in Devices
    /\ \A r \in db : r.evse \in Evses \cup {0} /\ r.profile.purpose \in Purposes /\ r.source = "CSO"
    /\ \A r, s \in db : r.profile.id = s.profile.id => r = s
    /\ \A e \in Evses : tx[e] # None => tx[e].id \in 1..started /\ tx[e].start \in 0..now
    /\ started \in 0..MaxTx
    /\ \A p \in Purposes : updated[p] # None => updated[p] \in 0..now
    /\ online \in BOOLEAN
    /\ now \in 0..MaxTime

\* What was accepted counts: a stored profile passes the validation it meets each time a schedule is
\* calculated (get_valid_profiles_for_evse), whatever was set, replaced, cleared or ended after it.
\* A profile of a RequestStartTransaction is stored without a transaction id, and does not pass; nor does
\* one without numberPhases on an AC station of one phase, which is stored with three.
StoredStaysValid ==
    \A r \in db :
        \/ r.profile.purpose = "TxProfile" /\ r.profile.tx = None
        \/ dm.supplyPhases[0] = 1 /\ \E i \in DOMAIN r.profile.periods : r.profile.periods[i].numberPhases = 3
        \/ validate_profile(r.profile, r.evse, "SetChargingProfile") = "Valid"

\* The period of the only profile that rules, as the code writes it down, or no limit
RulingPeriod(profiles, purpose, t, session_start) ==
    LET ruling == Ruling(profiles, purpose, t, now, session_start)
        p == CHOOSE q \in ruling : TRUE
    IN IF ruling = {} THEN default_intermediate_period(0)
       ELSE intermediate_period([unit |-> p.unit, period |-> InForce(p, t, now, session_start)], 0)

\* The limits of an EVSE at time t, from the profiles that rule at that time
EvseAt(valid, e, t, simulate) ==
    LET of(purpose) == RulingPeriod(valid[e] \cup valid[0], purpose, t, Sessions[e])
    IN << of("ChargingStationExternalConstraints") >>
       \o (IF simulate \/ tx[e] # None THEN << PreferTx(<<of("TxProfile"), of("TxDefaultProfile")>>) >> ELSE << >>)

CompositeAt(valid, evse, t, unit, simulate) ==
    LET evses == SetToSortSeq(Evses, <)
        sum == SummedLimits([k \in DOMAIN evses |-> LowestLimit(EvseAt(valid, evses[k], t, simulate), dm.version)],
                            dm.default_limit, dm.version)
        below == IF evse = 0 THEN << sum >> ELSE EvseAt(valid, evse, t, simulate)
        station == RulingPeriod(valid[0], "ChargingStationMaxProfile", t, None)
    IN ConvertedPeriod(LowestLimit(Append(below, station), dm.version), unit, ScheduleConfig)

\* The period of a schedule at a time
At(periods, t) == periods[Max({i \in DOMAIN periods : periods[i].startPeriod <= t - now})]

\* The walk through the periods ends up where the profiles say, at every moment: the schedule that is
\* reported has, at each second, the limits of the profiles that rule at that second - for gaps,
\* recurrences, overlaps and stack levels, for an EVSE and for the station.  And no two profiles
\* of the same purpose and level rule at the same time, so the unstable sort cannot matter.
CompositeExact ==
    out.kind = "composite" =>
        \A valid \in {ValidProfiles}, t \in now .. now + Duration - 1 :
            LET got == At(out.periods, t)
                due == CompositeAt(valid, out.evse, t, out.unit, out.simulate)
            IN /\ got.limit[1] = due.limit[1] /\ got.numberPhases = due.numberPhases
               /\ got.setpoint[1] = due.setpoint[1] /\ got.discharge[1] = due.discharge[1]
               /\ \A e \in Evses : \A purpose \in {p.purpose : p \in valid[e] \cup valid[0]} :
                     Cardinality(Ruling(valid[e] \cup valid[0], purpose, t, now, Sessions[e])) <= 1

\* The car is never told more than a profile allows: at every second the limit of the schedule is at most
\* that of the ChargingStationMaxProfile in force and, during a transaction, at most that of the TxProfile
\* in force, also when the one is in amperes and the other in watts.
NeverAboveLimit ==
    out.kind = "composite" /\ out.evse # 0 =>
        \A valid \in {ValidProfiles}, t \in now .. now + Duration - 1 :
            LET got == At(out.periods, t)
                watts == dm.supply_voltage * OrElse(got.numberPhases, dm.default_number_phases)
            IN \A p \in Ruling(valid[0], "ChargingStationMaxProfile", t, now, None)
                        \cup Ruling(valid[out.evse], "TxProfile", t, now, Sessions[out.evse]) :
                  LET limit == InForce(p, t, now, Sessions[out.evse]).limit
                  IN limit[1] # None /\ limit[2] = None /\ got.limit[2] = None =>
                        IF p.unit = out.unit THEN got.limit[1] <= limit[1]
                        ELSE IF out.unit = "A" THEN got.limit[1] * watts <= limit[1]
                        ELSE got.limit[1] <= limit[1] * watts

\* A GetChargingProfiles that was accepted is answered completely: every profile that matches is in exactly
\* one report, and only the last report says that no more will come.
ReportsComplete ==
    out.kind = "reports" =>
        /\ \A r \in Matching(out.req) :
              Cardinality({k \in DOMAIN out.reports : out.reports[k].evse = r.evse /\ r.profile.id \in out.reports[k].ids}) = 1
        /\ out.status = "Accepted" =>
              {k \in DOMAIN out.reports : ~out.reports[k].tbc} = {Len(out.reports)} /\ out.reports # << >>

=============================================================================
