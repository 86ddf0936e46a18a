------------------------ MODULE CompositeSchedule16 ------------------------
(***************************************************************************)
(* The composite schedule of OCPP 1.6.  A period has a limit in amperes, a *)
(* limit in watts and, for each, the stack level of the profile it is      *)
(* from.  Limits are integers, and a power is a multiple of what it is     *)
(* divided by.                                                             *)
(***************************************************************************)
EXTENDS ProfilePeriods

NO_LIMIT_SPECIFIED == -1
Units == {"A", "W"}

\* A period that limits nothing
Unlimited(start) ==
    [startPeriod |-> start, numberPhases |-> None,
     limit |-> [u \in Units |-> NO_LIMIT_SPECIFIED], level |-> [u \in Units |-> 0]]

\* The period that generate_profile_from_periods makes of the chosen entry
LimitedBy(entry, start) ==
    [Unlimited(start) EXCEPT !.numberPhases = entry.period.numberPhases,
                             !.limit[entry.unit] = entry.period.limit,
                             !.level[entry.unit] = entry.stackLevel]

Generate(entries, now, end) == generate_profile_from_periods(entries, now, end, Unlimited, LimitedBy)
Combine(profiles, Combinator(_)) == combine_list_of_profiles(profiles, Combinator, Unlimited)

\* merge_tx_profile_with_tx_default_profile: the first period with a limit
PreferTx(periods) ==
    LET limited == SelectSeq(periods, LAMBDA p : \E u \in Units : p.limit[u] # NO_LIMIT_SPECIFIED)
    IN IF limited = << >> THEN Unlimited(0) ELSE Head(limited)

PhasesOf(periods) == {p.numberPhases : p \in ToSet(periods)} \ {None}

\* The level is the one of the last period, whatever limit is taken.
LowestLimit_LastLevel(periods) ==
    LET lowest(u) == {p.limit[u] : p \in ToSet(periods)} \ {NO_LIMIT_SPECIFIED}
    IN [Unlimited(0) EXCEPT
          !.numberPhases = IF PhasesOf(periods) = {} THEN None ELSE Min(PhasesOf(periods)),
          !.limit = [u \in Units |-> IF lowest(u) = {} THEN NO_LIMIT_SPECIFIED ELSE Min(lowest(u))],
          !.level = [u \in Units |-> IF lowest(u) = {} THEN 0 ELSE Last(periods).level[u]]]

\* merge_profiles_by_lowest_limit, per unit; of equal limits the level of the first counts
LowestLimit(periods) ==
    LET limited(u) == SelectSeq(periods, LAMBDA p : p.limit[u] >= 0)
        lowest(u) == SelectSeq(limited(u), LAMBDA p : \A q \in ToSet(limited(u)) : p.limit[u] <= q.limit[u])
    IN [Unlimited(0) EXCEPT
          !.numberPhases = IF PhasesOf(periods) = {} THEN None ELSE Min(PhasesOf(periods)),
          !.limit = [u \in Units |-> IF lowest(u) = << >> THEN NO_LIMIT_SPECIFIED ELSE Head(lowest(u)).limit[u]],
          !.level = [u \in Units |-> IF lowest(u) = << >> THEN 0 ELSE Head(lowest(u)).level[u]]]

\* merge_profiles_by_summing_limits; a connector without a limit counts with the default
SummedLimits(periods, default) ==
    [Unlimited(0) EXCEPT
        !.numberPhases = IF PhasesOf(periods) = {} THEN None ELSE Max(PhasesOf(periods)),
        !.limit = [u \in Units |->
            FoldLeft(LAMBDA n, p : n + (IF p.limit[u] >= 0 THEN p.limit[u] ELSE default[u]), 0, periods)]]

\* One period of convert_intermediate_into_schedule
ConvertedPeriod(p, unit, config) ==
    LET other == CHOOSE u \in Units : u # unit
        factor == config.supply_voltage * OrElse(p.numberPhases, config.default_number_phases)
        own == p.limit[unit] # NO_LIMIT_SPECIFIED
        converted == IF unit = "A" THEN p.limit[other] \div factor ELSE p.limit[other] * factor
        transformed == p.limit[other] # NO_LIMIT_SPECIFIED /\ (own => converted < p.limit[unit])
    IN [startPeriod |-> p.startPeriod, numberPhases |-> p.numberPhases,
        limit |-> IF transformed THEN converted ELSE IF own THEN p.limit[unit] ELSE config.default_limit[unit],
        stackLevel |-> IF transformed THEN p.level[other] ELSE IF own THEN p.level[unit] ELSE 0,
        periodTransformed |-> transformed]

\* convert_intermediate_into_schedule: a period like the one before it is left out
convert_intermediate_into_schedule(periods, unit, config) ==
    FoldLeft(LAMBDA out, p :
               LET q == ConvertedPeriod(p, unit, config)
               IN IF /\ out # << >>
                     /\ q.limit = Last(out).limit
                     /\ q.numberPhases = Last(out).numberPhases
                     /\ q.stackLevel = Last(out).stackLevel
                  THEN out ELSE Append(out, q),
             << >>, periods)

\* generate_evse_intermediates for the profiles of a connector and of the charge point
generate_evse_intermediates(profiles, start, end, session_start, simulate) ==
    LET of(purpose) == Generate(calculate_all_profiles(start, end, session_start, profiles, purpose), start, end)
    IN IF session_start # None \/ simulate
       THEN << Combine(<<of("TxProfile"), of("TxDefaultProfile")>>, PreferTx) >>
       ELSE << >>

\* calculate_enhanced_composite_schedule, given the valid profiles of each connector and of the charge point (0)
calculate_enhanced_composite_schedule(valid, sessions, connector, unit, start, end, simulate, config) ==
    LET Summed(periods) == SummedLimits(periods, config.default_limit)
        intermediates(c) ==
            generate_evse_intermediates(valid[c] \cup valid[0], start, end, sessions[c], simulate)
        connectors == SetToSortSeq(DOMAIN sessions, <)
        combined == IF connector # 0 THEN intermediates(connector)
                    ELSE << Combine([k \in DOMAIN connectors |->
                                       Combine(intermediates(connectors[k]), LowestLimit)], Summed) >>
        max == Generate(calculate_all_profiles(start, end, None, valid[0], "ChargePointMaxProfile"), start, end)
    IN convert_intermediate_into_schedule(Combine(Append(combined, max), LowestLimit), unit, config)

=============================================================================
