--------------------------- MODULE ProfilePeriods ---------------------------
(***************************************************************************)
(* From charging profiles to periods of time: when a profile starts, which *)
(* stretch of time each of its periods covers, which period counts at a    *)
(* moment, and how lists of periods are combined.  profile.cpp of OCPP 1.6 *)
(* and of 2.x have this code in common; they differ in the limits that a   *)
(* period carries, which are parameters here.                              *)
(*                                                                         *)
(* Times are whole seconds, so floor_seconds changes nothing; a DateTime   *)
(* or a number that may be absent is None.  A profile is a record with the *)
(* fields of its (first) schedule next to its own.                         *)
(***************************************************************************)
EXTENDS Integers, Sequences, SequencesExt, FiniteSetsExt

CONSTANTS
    None,
    Day         \* seconds per day

ASSUME DayAssumption == Day \in Nat \ {0}

\* numeric_limits<int>::max() seconds: longer than any composite schedule
Forever == 1000000

OrElse(x, default) == IF x = None THEN default ELSE x
Present(x) == IF x = None THEN {} ELSE {x}

-----------------------------------------------------------------------------
(* The periods of a profile *)

\* The start times of the schedule that matter between now and end.  The
\* remainder of C++ is corrected for a startSchedule that is still to come.
calculate_start(now, end, session_start, p) ==
    LET length == IF p.recurrencyKind = "Daily" THEN Day ELSE 7 * Day
        first == now - ((now - p.startSchedule) % length)
    IN CASE p.kind = "Absolute" -> << OrElse(p.startSchedule, OrElse(p.validFrom, now)) >>
         [] p.kind = "Relative" -> << OrElse(session_start, now) >>
         [] p.kind = "Dynamic" -> << now >>
         [] p.kind = "Recurring" ->
              IF p.recurrencyKind = None \/ p.startSchedule = None
              THEN << >>
              ELSE [i \in 1 .. (end - first) \div length + 1 |-> first + (i - 1) * length]

\* period_entry_t::init
period_entry(start, duration, period, p) ==
    [start |-> start + period.startPeriod, end |-> start + duration,
     stackLevel |-> p.stackLevel, unit |-> p.unit, period |-> period]

\* period_entry_t::validate: the entry, begun when the profile becomes valid, or nothing
validate_entry(entry, p, now) ==
    LET from == Max({entry.start} \cup Present(p.validFrom))
    IN IF entry.end > from /\ entry.end > now THEN {[entry EXCEPT !.start = from]} ELSE {}

\* Where period i of the occurrence k ends, in seconds from the start of the occurrence
PeriodEnd(p, i, starts, k) ==
    Min({Forever}
        \cup {p.periods[j].startPeriod : j \in {i + 1} \cap DOMAIN p.periods}
        \cup Present(p.duration)
        \cup {starts[j] - starts[k] : j \in {k + 1} \cap DOMAIN starts}
        \cup {v - starts[k] : v \in Present(p.validTo)})

\* calculate_profile_entry for the period i; nothing if the periods are out of order there
calculate_profile_entry(now, end, session_start, p, i) ==
    LET inOrder == IF i = 1 THEN p.periods[1].startPeriod = 0
                            ELSE p.periods[i - 1].startPeriod < p.periods[i].startPeriod
        starts == calculate_start(now, end, session_start, p)
    IN IF ~inOrder THEN {}
       ELSE UNION {validate_entry(period_entry(starts[k], PeriodEnd(p, i, starts, k), p.periods[i], p), p, now)
                     : k \in DOMAIN starts}

calculate_profile_unsorted(now, end, session_start, p) ==
    {e \in UNION {calculate_profile_entry(now, end, session_start, p, i) : i \in DOMAIN p.periods} :
        e.start <= end}

\* calculate_all_profiles.  Its sort by date is undone by the sort by stack level below.
calculate_all_profiles(now, end, session_start, profiles, purpose) ==
    UNION {calculate_profile_unsorted(now, end, session_start, p) : p \in {q \in profiles : q.purpose = purpose}}

-----------------------------------------------------------------------------
(* One list of periods from the entries of all profiles of a purpose *)

\* The first entry that covers the time is taken, whatever its stack level.
Chosen_Unranked(ranked, current, end) ==
    LET covering == SelectSeq(ranked, LAMBDA e : e.start <= current /\ e.end > current)
    IN IF covering = << >>
       THEN [earliest |-> Min({end} \cup {e.start : e \in {x \in ToSet(ranked) : x.end > current}}),
             next |-> end, entry |-> None]
       ELSE [earliest |-> Last(covering).start, next |-> end, entry |-> Last(covering)]

\* The inner loop of generate_profile_from_periods: of the entries, highest stack level first,
\* the one to use now, or the first that is still to come, and when a higher one begins
Chosen(ranked, current, end) ==
    FoldLeft(LAMBDA c, e :
                IF \/ c.entry # None /\ c.earliest <= current
                   \/ e.start > c.earliest
                   \/ e.end <= current
                THEN c
                ELSE [earliest |-> e.start, next |-> c.earliest, entry |-> e],
             [earliest |-> end, next |-> end, entry |-> None], ranked)

\* generate_profile_from_periods.  std::sort may order the entries of one stack level in any
\* way; the profiles that are in force have no two that cover the same time.
generate_profile_from_periods(entries, now, end, Gap(_), Used(_, _)) ==
    LET ranked == SetToSortSeq(entries, LAMBDA a, b : a.stackLevel > b.stackLevel)
        from[current \in now..end] ==
            IF current = end THEN << >>
            ELSE LET c == Chosen(ranked, current, end)
                 IN IF c.earliest > current
                    THEN << Gap(current - now) >> \o from[c.earliest]
                    ELSE << Used(c.entry, current - now) >> \o from[Min({c.entry.end, c.next})]
    IN IF entries = {} THEN << Gap(0) >> ELSE from[now]

-----------------------------------------------------------------------------
(* One list of periods from several *)

\* The iterators whose next period starts at this time move on.
Advance(lists, at, time) ==
    [k \in DOMAIN lists |->
        IF at[k] < Len(lists[k]) /\ lists[k][at[k] + 1].startPeriod = time THEN at[k] + 1 ELSE at[k]]

\* The moments at which one of the lists goes on to its next period, with the period that each
\* list is at
Moments(lists) ==
    LET here(s) == [time |-> s.time, periods |-> [k \in DOMAIN lists |-> lists[k][s.at[k]]]]
        later(s) == {t \in {lists[k][s.at[k] + 1].startPeriod : k \in {j \in DOMAIN lists : s.at[j] < Len(lists[j])}} :
                       t > s.time}
        Step(s) == [time |-> Min(later(s)), at |-> Advance(lists, s.at, Min(later(s)))]
        from[s \in [time : Nat, at : Seq(Nat)]] ==
            << here(s) >> \o (IF later(s) = {} THEN << >> ELSE from[Step(s)])
    IN from[[time |-> 0, at |-> [k \in DOMAIN lists |-> 1]]]

\* A period that differs from the last one in its start only is left out.
Distinct(periods) ==
    FoldLeft(LAMBDA out, p :
                IF out # << >> /\ [Last(out) EXCEPT !.startPeriod = p.startPeriod] = p
                THEN out ELSE Append(out, p),
             << >>, periods)

\* combine_list_of_profiles
combine_list_of_profiles(profiles, Combinator(_), Gap(_)) ==
    LET lists == SelectSeq(profiles, LAMBDA l : l # << >>)
        moments == Moments(lists)
    IN IF lists = << >> THEN << Gap(0) >>
       ELSE Distinct([i \in DOMAIN moments |->
                        [Combinator(moments[i].periods) EXCEPT !.startPeriod = moments[i].time]])

-----------------------------------------------------------------------------
(* What the above should amount to, moment by moment *)

\* The period of profile p that is in force at time t, or None, for a query made at now
InForce(p, t, now, session_start) ==
    LET start == CASE p.kind = "Absolute" -> OrElse(p.startSchedule, OrElse(p.validFrom, now))
                   [] p.kind = "Relative" -> OrElse(session_start, now)
                   [] p.kind = "Dynamic" -> now
                   [] p.kind = "Recurring" ->
                        t - ((t - p.startSchedule) % (IF p.recurrencyKind = "Daily" THEN Day ELSE 7 * Day))
        begun == {i \in DOMAIN p.periods : start + p.periods[i].startPeriod <= t}
    IN IF \/ begun = {}
          \/ p.duration # None /\ t >= start + p.duration
          \/ p.validFrom # None /\ t < p.validFrom
          \/ p.validTo # None /\ t >= p.validTo
       THEN None
       ELSE p.periods[Max(begun)]

\* Of the profiles of a purpose, the one that counts at time t: the highest stack level in force
Ruling(profiles, purpose, t, now, session_start) ==
    LET live == {p \in profiles : p.purpose = purpose /\ InForce(p, t, now, session_start) # None}
    IN {p \in live : \A q \in live : q.stackLevel <= p.stackLevel}

=============================================================================
