------------------------- MODULE CompositeSchedule2 -------------------------
(***************************************************************************)
(* The composite schedule of OCPP 2.x: the limits, discharge limits and    *)
(* setpoints of the profiles in force, combined per purpose, per EVSE and  *)
(* for the whole station, and converted to one unit.                       *)
(*                                                                         *)
(* The numbers are floats in the code; here they are integers, and a power *)
(* is a multiple of what it is divided by.  A PeriodLimit is the triple of *)
(* its phases.                                                             *)
(***************************************************************************)
EXTENDS ProfilePeriods

MAX_FLOAT == 1000000
NO_LIMIT_SPECIFIED == -1
NO_SETPOINT_SPECIFIED == MAX_FLOAT
NO_DISCHARGE_LIMIT_SPECIFIED == -MAX_FLOAT
DEFAULT_LIMIT == [A |-> 48, W |-> 288]      \* DEFAULT_LIMIT_AMPS, DEFAULT_LIMIT_WATTS

EachPhase(x) == <<x, x, x>>

\* default_intermediate_period
default_intermediate_period(start) ==
    [startPeriod |-> start, numberPhases |-> None,
     limit |-> [A |-> EachPhase(NO_LIMIT_SPECIFIED), W |-> EachPhase(NO_LIMIT_SPECIFIED)],
     discharge |-> [A |-> EachPhase(NO_DISCHARGE_LIMIT_SPECIFIED), W |-> EachPhase(NO_DISCHARGE_LIMIT_SPECIFIED)],
     setpoint |-> [A |-> EachPhase(NO_SETPOINT_SPECIFIED), W |-> EachPhase(NO_SETPOINT_SPECIFIED)]]

\* The limits that period_entry_t::init reads from a period
LimitOf(period, unit) ==
    <<IF period.limit[1] = None /\ period.operationMode \in {None, "ChargingOnly"}
      THEN DEFAULT_LIMIT[unit]
      ELSE OrElse(period.limit[1], NO_LIMIT_SPECIFIED),
      OrElse(period.limit[2], NO_LIMIT_SPECIFIED), OrElse(period.limit[3], NO_LIMIT_SPECIFIED)>>

DischargeOf(period) == [i \in 1..3 |-> OrElse(period.dischargeLimit[i], NO_DISCHARGE_LIMIT_SPECIFIED)]
SetpointOf(period) == [i \in 1..3 |-> OrElse(period.setpoint[i], NO_SETPOINT_SPECIFIED)]

\* The period that generate_profile_from_periods makes of the chosen entry
intermediate_period(entry, start) ==
    [default_intermediate_period(start) EXCEPT
        !.numberPhases = entry.period.numberPhases,
        !.limit[entry.unit] = LimitOf(entry.period, entry.unit),
        !.discharge[entry.unit] = DischargeOf(entry.period),
        !.setpoint[entry.unit] = SetpointOf(entry.period)]

Generate(entries, now, end) ==
    generate_profile_from_periods(entries, now, end, default_intermediate_period, intermediate_period)

Combine(profiles, Combinator(_)) ==
    combine_list_of_profiles(profiles, Combinator, default_intermediate_period)

-----------------------------------------------------------------------------
(* Limits of two periods *)

\* get_max_limit; the cap is None when there is none
get_max_limit(a, b, cap) ==
    [i \in 1..3 |-> Max({a[i]} \cup {x \in {b[i]} : x < 0} \cup (IF cap = None THEN {} ELSE {cap[i]}))]

\* get_min_limit
get_min_limit(a, b, cap) ==
    [i \in 1..3 |-> Min({a[i]} \cup {x \in {b[i]} : x >= 0} \cup (IF cap = None THEN {} ELSE {cap[i]}))]

\* get_set_setpoint_limit: the setpoint that the first becomes
get_set_setpoint_limit(a, b, cap, cap_discharge) ==
    LET set(s) == s[1] # NO_SETPOINT_SPECIFIED
        first == CASE set(a) /\ set(b) -> IF a[1] < 0 THEN Max({a[1], b[1]}) ELSE Min({a[1], b[1]})
                   [] ~set(a) /\ set(b) -> b[1]
                   [] OTHER -> a[1]
        merged == [a EXCEPT ![1] = first]
    IN IF ~set(a) /\ ~set(b) THEN a
       ELSE IF first < 0 THEN get_max_limit(merged, b, cap_discharge) ELSE get_min_limit(merged, b, cap)

\* uses_three_phase_values
uses_three_phase_values(p) ==
    \E unit \in {"A", "W"}, i \in {2, 3} :
        \/ p.limit[unit][i] # NO_LIMIT_SPECIFIED
        \/ p.discharge[unit][i] # NO_DISCHARGE_LIMIT_SPECIFIED
        \/ p.setpoint[unit][i] # NO_SETPOINT_SPECIFIED

\* set_setpoint_limit_phase_values on the limits of one unit: one phase takes the lowest, several
\* phases are spelt out
PhaseValues(l, none, phases, unit) ==
    IF phases = None \/ l[1] = none THEN l
    ELSE IF phases = 1
    THEN <<Min({l[1]} \cup ({l[2], l[3]} \ {none})), none, none>>
    ELSE IF phases < 1 \/ (l[2] # none /\ l[3] # none) THEN l
    ELSE EachPhase(IF unit = "A" THEN l[1] ELSE l[1] \div phases)

SpellOut(p, phases) ==
    [p EXCEPT !.limit = [unit \in {"A", "W"} |-> PhaseValues(@[unit], NO_LIMIT_SPECIFIED, phases, unit)],
              !.discharge = [unit \in {"A", "W"} |-> PhaseValues(@[unit], NO_DISCHARGE_LIMIT_SPECIFIED, phases, unit)],
              !.setpoint = [unit \in {"A", "W"} |-> PhaseValues(@[unit], NO_SETPOINT_SPECIFIED, phases, unit)]]

-----------------------------------------------------------------------------
(* The combinators *)

\* The TxDefaultProfile is preferred.
PreferTx_Default(periods) ==
    LET set == SelectSeq(periods, LAMBDA p : [p EXCEPT !.startPeriod = 0, !.numberPhases = None] # default_intermediate_period(0))
    IN IF set = << >> THEN default_intermediate_period(0) ELSE Last(set)

\* merge_tx_profile_with_tx_default_profile: the first period that sets anything
PreferTx(periods) ==
    LET set == SelectSeq(periods, LAMBDA p : [p EXCEPT !.startPeriod = 0, !.numberPhases = None] # default_intermediate_period(0))
    IN IF set = << >> THEN default_intermediate_period(0) ELSE Head(set)

PhasesOf(periods) == {p.numberPhases : p \in ToSet(periods)} \ {None}

\* merge_profiles_by_lowest_limit
LowestLimit(periods, version) ==
    LET phases == IF PhasesOf(periods) = {} THEN None ELSE Min(PhasesOf(periods))
        three == version = "v21" /\ \E p \in ToSet(periods) : uses_three_phase_values(p)
        unlimited == [default_intermediate_period(0) EXCEPT !.numberPhases = phases,
                        !.limit = [unit \in {"A", "W"} |-> EachPhase(MAX_FLOAT)]]
        Add(acc, p) ==
            LET q == IF three THEN SpellOut(p, phases) ELSE p
                limit == [u \in {"A", "W"} |-> get_min_limit(acc.limit[u], q.limit[u], None)]
                discharge == [u \in {"A", "W"} |-> get_max_limit(acc.discharge[u], q.discharge[u], None)]
            IN [acc EXCEPT !.limit = limit, !.discharge = discharge,
                           !.setpoint = [u \in {"A", "W"} |->
                              get_set_setpoint_limit(@[u], q.setpoint[u], limit[u], discharge[u])]]
        lowest == FoldLeft(Add, unlimited, periods)
    IN [lowest EXCEPT !.limit = [u \in {"A", "W"} |->
          [i \in 1..3 |-> IF @[u][i] = MAX_FLOAT THEN NO_LIMIT_SPECIFIED ELSE @[u][i]]]]

\* merge_profiles_by_summing_limits.  It leaves the discharge limits at 0, not unspecified.
SummedLimits(periods, default, version) ==
    LET phases == IF PhasesOf(periods) = {} THEN None ELSE Max(PhasesOf(periods))
        three == version = "v21" /\ \E p \in ToSet(periods) : uses_three_phase_values(p)
        Sum(u, i) == FoldLeft(LAMBDA n, p :
                                LET q == IF three THEN SpellOut(p, phases) ELSE p
                                IN n + (IF q.limit[u][i] >= 0 THEN q.limit[u][i] ELSE default[u]),
                              0, periods)
    IN [default_intermediate_period(0) EXCEPT
          !.numberPhases = phases,
          !.limit = [u \in {"A", "W"} |->
             <<Sum(u, 1), IF three THEN Sum(u, 2) ELSE NO_LIMIT_SPECIFIED, IF three THEN Sum(u, 3) ELSE NO_LIMIT_SPECIFIED>>],
          !.discharge = [u \in {"A", "W"} |-> EachPhase(0)]]

-----------------------------------------------------------------------------
(* The schedule that is reported *)

\* store_limit_to_phase_limits
store_limit_to_phase_limits(l, none, old) == [i \in 1..3 |-> IF l[i] = none THEN old[i] ELSE l[i]]

\* convert_and_transform_limit_to_period_schedule: the limits of the other unit, converted
Converted(l, none, unit, voltage, phases, use_min, old) ==
    LET factor == IF l[2] = none \/ l[3] = none THEN voltage * phases ELSE voltage
        value(i) == IF unit = "A" THEN l[i] \div factor ELSE l[i] * factor
        known(i) == {old[i], value(i)} \ {None}
    IN [i \in 1..3 |-> IF l[i] = none THEN old[i] ELSE IF use_min THEN Min(known(i)) ELSE Max(known(i))]

\* One period of convert_intermediate_into_schedule
ConvertedPeriod(p, unit, config) ==
    LET other == IF unit = "A" THEN "W" ELSE "A"
        phases == OrElse(p.numberPhases, config.default_number_phases)
        unset == <<None, None, None>>
        limited == p.limit["A"][1] # NO_LIMIT_SPECIFIED \/ p.limit["W"][1] # NO_LIMIT_SPECIFIED
        start == [unset EXCEPT ![1] = IF limited THEN MAX_FLOAT ELSE config.default_limit[unit]]
        both(l, none, use_min, old) ==
            Converted(l[other], none, unit, config.supply_voltage, phases, use_min,
                      store_limit_to_phase_limits(l[unit], none, old))
    IN [startPeriod |-> p.startPeriod, numberPhases |-> p.numberPhases,
        limit |-> both(p.limit, NO_LIMIT_SPECIFIED, TRUE, start),
        discharge |-> both(p.discharge, NO_DISCHARGE_LIMIT_SPECIFIED, FALSE, unset),
        setpoint |-> both(p.setpoint, NO_SETPOINT_SPECIFIED, TRUE, unset)]

\* convert_intermediate_into_schedule; L2 and L3 are not compared
convert_intermediate_into_schedule(periods, unit, config) ==
    FoldLeft(LAMBDA out, p :
               LET q == ConvertedPeriod(p, unit, config)
               IN IF /\ out # << >>
                     /\ q.limit[1] = Last(out).limit[1]
                     /\ q.numberPhases = Last(out).numberPhases
                     /\ q.setpoint[1] = Last(out).setpoint[1]
                     /\ q.discharge[1] = Last(out).discharge[1]
                  THEN out ELSE Append(out, q),
             << >>, periods)

-----------------------------------------------------------------------------
(* The composite schedule of an EVSE or of the station *)

\* generate_evse_intermediates for the profiles of an EVSE and of the station
generate_evse_intermediates(profiles, start, end, session_start, simulate) ==
    LET of(purpose) == Generate(calculate_all_profiles(start, end, session_start, profiles, purpose), start, end)
        tx == IF session_start # None \/ simulate
              THEN << Combine(<<of("TxProfile"), of("TxDefaultProfile")>>, PreferTx) >>
              ELSE << >>
    IN << of("ChargingStationExternalConstraints") >> \o tx

\* calculate_composite_schedule, given the valid profiles of each EVSE and of the station (0)
calculate_composite_schedule(valid, sessions, evse, unit, start, end, simulate, config) ==
    LET Lowest(periods) == LowestLimit(periods, config.version)
        Summed(periods) == SummedLimits(periods, config.default_limit, config.version)
        intermediates(e) ==
            generate_evse_intermediates(valid[e] \cup valid[0], start, end, sessions[e], simulate)
        evses == SetToSortSeq(DOMAIN sessions, <)
        combined == IF evse # 0 THEN intermediates(evse)
                    ELSE << Combine([k \in DOMAIN evses |-> Combine(intermediates(evses[k]), Lowest)], Summed) >>
        \* the session of the last EVSE is left over when the station was asked for
        session == sessions[IF evse = 0 THEN Last(evses) ELSE evse]
        station == Generate(calculate_all_profiles(start, end, session, valid[0], "ChargingStationMaxProfile"), start, end)
    IN convert_intermediate_into_schedule(Combine(Append(combined, station), Lowest), unit, config)

=============================================================================
