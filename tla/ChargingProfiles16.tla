------------------------- MODULE ChargingProfiles16 -------------------------
(***************************************************************************)
(* Charging profiles of an OCPP 1.6 charge point: SmartChargingHandler     *)
(* keeps them in maps from stack level to profile, one map of              *)
(* ChargePointMaxProfiles and two per connector, and in the table          *)
(* CHARGING_PROFILES, from which they are loaded at the start.  Maps and   *)
(* table are changed by different rules.                                   *)
(*                                                                         *)
(* The statements of the database do not fail here.                        *)
(***************************************************************************)
EXTENDS CompositeSchedule16

CONSTANTS
    Connectors,     \* ids of the connectors, from 1
    Config,         \* the configuration keys: see validate_profile and ValidProfiles
    Offers,         \* what SetChargingProfile brings: [connector, profile]
    StartOffers,    \* what RemoteStartTransaction brings; the connector may be None
    ClearRequests,  \* ClearChargingProfile: [id, connector, purpose, stackLevel]
    Duration,       \* duration of the composite schedules that are asked for
    MaxTime,        \* bound on time
    MaxTx           \* bound on transactions

ASSUME ProfilesAssumption ==
    /\ Connectors \subseteq Nat \ {0} /\ Connectors # {}
    /\ Duration \in Nat
    /\ MaxTime \in Nat /\ MaxTx \in Nat

VARIABLES
    installed,  \* the maps: set of [connector, profile]; 0 has the ChargePointMaxProfiles
    db,         \* CHARGING_PROFILES: set of [connector, profile]
    tx,         \* Connector::transaction: [id, start] or None; the id is negative until the CSMS gives one
    started,    \* number of transactions so far
    online,     \* websocket->is_connected()
    now,
    out         \* what the handler that ran last sent or returned, until it is handed over

vars == <<installed, db, tx, started, online, now, out>>

Purposes == {"ChargePointMaxProfile", "TxDefaultProfile", "TxProfile"}
Quiet == [kind |-> "nothing"]

\* Handlers run one at a time; what one sends is gone before the next begins.
Ready == out = Quiet

NoTransaction == [c \in Connectors |-> None]
Reply(to, status) == [kind |-> "reply", to |-> to, status |-> status]

-----------------------------------------------------------------------------
(* Validation *)

\* validate_schedule
validate_schedule(p) ==
    /\ Len(p.periods) <= Config.maxPeriods
    /\ p.unit \in Config.units
    /\ \A i \in DOMAIN p.periods : p.periods[i].numberPhases \in {None, 1, 2, 3} /\ p.periods[i].limit >= 0

\* validate_profile against the maps and the transactions
validate_profile(p, connector, ignore_no_transaction, maps, transactions) ==
    LET starts == p.startSchedule # None \/ Config.allowWithoutStart
    IN /\ connector \in Connectors \cup {0}
       /\ p.stackLevel \in 0..Config.maxStackLevel
       /\ p.kind \in {"Absolute", "Recurring"} => starts
       /\ Cardinality(maps) < Config.maxInstalled           \* get_number_installed_profiles
       /\ validate_schedule(p)
       /\ p.kind = "Recurring" => p.recurrencyKind # None
       /\ p.purpose = "ChargePointMaxProfile" => connector = 0 /\ p.kind # "Relative"
       /\ p.purpose = "TxProfile" =>
             /\ connector # 0
             /\ transactions[connector] = None => ignore_no_transaction /\ p.tx = None
             /\ transactions[connector] # None => p.tx \in {None, transactions[connector].id}

\* What validate_profile changes in a profile: a missing start, a duration longer than the recurrence
Conformed(p) ==
    LET longest == IF p.recurrencyKind = "Daily" THEN Day ELSE 7 * Day
    IN [p EXCEPT !.startSchedule = IF p.kind # "Relative" THEN OrElse(@, now) ELSE @,
                 !.duration = IF p.kind = "Recurring" /\ @ # None THEN Min({@, longest}) ELSE @]

-----------------------------------------------------------------------------
(* The maps and the table *)

\* Profiles of one purpose and level on the connectors are in each other's place.
SamePlace(r, connectors, p) ==
    r.connector \in connectors /\ r.profile.purpose = p.purpose /\ r.profile.stackLevel = p.stackLevel

\* add_charge_point_max_profile, add_tx_default_profile and add_tx_profile: the map
Install(maps, connector, p) ==
    LET at == IF p.purpose = "TxDefaultProfile" /\ connector = 0 THEN Connectors ELSE {connector}
    IN {r \in maps : ~SamePlace(r, at, p)} \cup {[connector |-> c, profile |-> p] : c \in at}

\* insert_or_update_charging_profile: rows of the same purpose and level go, whatever their connector
InsertOrUpdate(rows, connector, p) ==
    {r \in rows : /\ r.profile.id # p.id
                  /\ ~(r.profile.purpose = p.purpose /\ r.profile.stackLevel = p.stackLevel)}
    \cup {[connector |-> connector, profile |-> p]}

\* The rows stay.
WithoutCleared_Kept(rows, cleared) == rows

\* clear_profiles erases from a map and deletes the row of the id
WithoutCleared(rows, cleared) ==
    {r \in rows : r.profile.id \notin {x.profile.id : x \in cleared}}

\* clear_all_profiles_with_filter by id, and by the other criteria
ClearedById(maps, id) == {r \in maps : r.profile.id = id}
ClearedByFilter(maps, connector, stackLevel, purpose) ==
    {r \in maps : /\ connector \in {None, r.connector}
                  /\ stackLevel \in {None, r.profile.stackLevel}
                  /\ purpose \in {None, r.profile.purpose}}

-----------------------------------------------------------------------------
(* Requests of the CSMS *)

\* What a profile is put in the place of is not cleared first.
Replaced_Nothing(connector, p) == {}

\* The profiles that handleSetChargingProfileRequest clears before it adds one
Replaced(connector, p) ==
    LET same == ClearedById(installed, p.id)
    IN same \cup ClearedByFilter(installed \ same, connector, p.stackLevel, p.purpose)

\* handleSetChargingProfileRequest
SetChargingProfile(o) ==
    LET p == Conformed(o.profile)
        cleared == Replaced(o.connector, p)
        accepted == /\ o.profile.purpose \in Config.supportedPurposes
                    /\ validate_profile(o.profile, o.connector, FALSE, installed, tx)
    IN /\ Ready
       /\ installed' = IF accepted THEN Install(installed \ cleared, o.connector, p) ELSE installed
       /\ db' = IF accepted THEN InsertOrUpdate(WithoutCleared(db, cleared), o.connector, p) ELSE db
       /\ out' = IF accepted THEN [kind |-> "accepted", connector |-> o.connector, profile |-> p]
                 ELSE Reply("SetChargingProfile", "Rejected")
       /\ UNCHANGED <<tx, started, online, now>>

\* The profile of a RemoteStartTransactionRequest for a connector that is free: added, and nothing cleared.
RemoteStartTransaction(o) ==
    LET accepted == /\ o.connector # None
                    /\ o.profile.purpose = "TxProfile"
                    /\ validate_profile(o.profile, o.connector, TRUE, installed, tx)
        p == Conformed(o.profile)
    IN /\ Ready
       /\ o.connector \in Connectors => tx[o.connector] = None
       /\ \E c \in Connectors : tx[c] = None
       /\ installed' = IF accepted THEN Install(installed, o.connector, p) ELSE installed
       /\ db' = IF accepted THEN InsertOrUpdate(db, o.connector, p) ELSE db
       /\ out' = Reply("RemoteStartTransaction", IF accepted THEN "Accepted" ELSE "Rejected")
       /\ UNCHANGED <<tx, started, online, now>>

\* handleClearChargingProfileRequest: all, by id alone, or by the criteria
ClearChargingProfile(req) ==
    LET all == req.id = None /\ req.connector = None /\ req.purpose = None /\ req.stackLevel = None
        cleared == IF req.id # None THEN ClearedById(installed, req.id)
                   ELSE ClearedByFilter(installed, req.connector, req.stackLevel, req.purpose)
    IN /\ Ready
       /\ installed' = installed \ cleared
       /\ db' = IF all THEN {} ELSE WithoutCleared(db, cleared)
       /\ out' = Reply("ClearChargingProfile", IF all \/ cleared # {} THEN "Accepted" ELSE "Unknown")
       /\ UNCHANGED <<tx, started, online, now>>

\* get_valid_profiles, of the connector or of the charge point (0)
get_valid_profiles(connector) ==
    {r.profile : r \in {x \in installed :
        /\ x.connector \in {0, connector}
        /\ online \/ x.profile.purpose \notin Config.ignoredOffline
        /\ x.profile.purpose = "TxProfile" /\ x.profile.tx # None =>
              tx[connector] # None /\ tx[connector].id = x.profile.tx}}

ValidProfiles == [c \in Connectors \cup {0} |-> get_valid_profiles(c)]
Sessions == [c \in Connectors |-> IF tx[c] = None THEN None ELSE tx[c].start]

\* handleGetCompositeScheduleRequest (simulate) and the schedules for the application
GetCompositeSchedule(connector, unit, simulate) ==
    /\ Ready
    /\ \E valid \in {ValidProfiles} :
          out' = IF connector \in Connectors \cup {0} /\ unit \in Config.units
                 THEN [kind |-> "composite", connector |-> connector, unit |-> unit, simulate |-> simulate,
                       periods |-> calculate_enhanced_composite_schedule(
                                      valid, Sessions, connector, unit, now,
                                      now + Min({Duration, Config.maxCompositeScheduleDuration}), simulate, Config)]
                 ELSE Reply("GetCompositeSchedule", "Rejected")
    /\ UNCHANGED <<installed, db, tx, started, online, now>>

-----------------------------------------------------------------------------
(* Around it *)

TransactionStarts(c) ==
    /\ Ready
    /\ tx[c] = None /\ started < MaxTx
    /\ started' = started + 1
    /\ tx' = [tx EXCEPT ![c] = [id |-> -(started + 1), start |-> now]]
    /\ out' = Quiet
    /\ UNCHANGED <<installed, db, online, now>>

\* handleStartTransactionResponse: the transaction gets the id of the CSMS
StartTransactionAnswered(c) ==
    /\ Ready
    /\ tx[c] # None /\ tx[c].id < 0
    /\ tx' = [tx EXCEPT ![c].id = -@]
    /\ out' = Quiet
    /\ UNCHANGED <<installed, db, started, online, now>>

\* on_transaction_stopped: the TxProfiles of the connector are cleared
TransactionEnds(c) ==
    LET cleared == ClearedByFilter(installed, c, None, "TxProfile")
    IN /\ Ready
       /\ tx[c] # None
       /\ tx' = [tx EXCEPT ![c] = None]
       /\ installed' = installed \ cleared
       /\ db' = WithoutCleared(db, cleared)
       /\ out' = Quiet
       /\ UNCHANGED <<started, online, now>>

Expired(p) ==
    \/ p.validTo # None /\ p.validTo < now
    \/ p.kind = "Absolute" /\ p.startSchedule # None /\ p.duration # None /\ p.startSchedule + p.duration < now

\* clear_expired_profiles, once a day
ClearExpired ==
    LET cleared == {r \in installed : Expired(r.profile)}
    IN /\ Ready
       /\ cleared # {}
       /\ installed' = installed \ cleared
       /\ db' = WithoutCleared(db, cleared)
       /\ out' = Quiet
       /\ UNCHANGED <<tx, started, online, now>>

\* load_charging_profiles for one row.  No transaction has been resumed yet.
LoadRow(s, row) ==
    IF /\ row.profile.purpose \in Config.supportedPurposes
       /\ validate_profile(row.profile, row.connector, FALSE, s.maps, NoTransaction)
    THEN [maps |-> Install(s.maps, row.connector, Conformed(row.profile)),
          rows |-> InsertOrUpdate(s.rows, row.connector, Conformed(row.profile))]
    ELSE [s EXCEPT !.rows = {r \in @ : r.profile.id # row.profile.id}]

\* load_charging_profiles: the rows in the order of their ids
Loaded ==
    FoldLeft(LoadRow, [maps |-> {}, rows |-> db], SetToSortSeq(db, LAMBDA a, b : a.profile.id < b.profile.id))

Restart ==
    /\ Ready
    /\ installed' = Loaded.maps
    /\ db' = Loaded.rows
    /\ out' = [kind |-> "restarted"]
    /\ UNCHANGED <<tx, started, online, now>>

Connection ==
    /\ Ready
    /\ online' = ~online
    /\ out' = Quiet
    /\ UNCHANGED <<installed, db, tx, started, now>>

Tick ==
    /\ Ready
    /\ now < MaxTime
    /\ now' = now + 1
    /\ out' = Quiet
    /\ UNCHANGED <<installed, db, tx, started, online>>

Delivered ==
    /\ out # Quiet
    /\ out' = Quiet
    /\ UNCHANGED <<installed, db, tx, started, online, now>>

Init ==
    /\ installed = {}
    /\ db = {}
    /\ tx = NoTransaction
    /\ started = 0
    /\ online = TRUE
    /\ now = 0
    /\ out = Quiet

Next ==
    \/ \E o \in Offers : SetChargingProfile(o)
    \/ \E o \in StartOffers : RemoteStartTransaction(o)
    \/ \E req \in ClearRequests : ClearChargingProfile(req)
    \/ \E connector \in Connectors \cup {0}, unit \in Units, simulate \in BOOLEAN :
          GetCompositeSchedule(connector, unit, simulate)
    \/ \E c \in Connectors : TransactionStarts(c)
    \/ \E c \in Connectors : StartTransactionAnswered(c)
    \/ \E c \in Connectors : TransactionEnds(c)
    \/ ClearExpired
    \/ Restart
    \/ Connection
    \/ Tick
    \/ Delivered

Spec == Init /\ [][Next]_vars

-----------------------------------------------------------------------------
(* Properties *)

TypeOK ==
    /\ \A r \in installed \cup db : r.connector \in Connectors \cup {0} /\ r.profile.purpose \in Purposes
    /\ \A r \in installed : r.connector = 0 <=> r.profile.purpose = "ChargePointMaxProfile"
    /\ \A r, s \in installed : SamePlace(r, {s.connector}, s.profile) => r = s
    /\ \A c \in Connectors : tx[c] # None => tx[c].id \in (-started)..started /\ tx[c].start \in 0..now
    /\ started \in 0..MaxTx
    /\ online \in BOOLEAN
    /\ now \in 0..MaxTime

\* The table never holds what the maps do not: a row is installed, on each connector it is for.  So no
\* profile that was cleared, replaced, expired or ended with its transaction comes back after a restart.
\* (The other way round it does not hold: see the README.)
StoredIsInstalled ==
    \A r \in db : \A c \in (IF r.profile.purpose = "TxDefaultProfile" /\ r.connector = 0 THEN Connectors ELSE {r.connector}) :
        [connector |-> c, profile |-> r.profile] \in installed

\* handleSetChargingProfileRequest: "If a charging profile with the same chargingProfileId, or the same
\* combination of stackLevel / ChargingProfilePurpose, exists on the Charge Point, the new charging profile
\* SHALL replace the existing charging profile".  It does so on the connectors it is for; the id is
\* then nowhere else, unless a RemoteStartTransaction used it again.
AcceptedReplaces ==
    out.kind = "accepted" =>
        \A r \in installed :
            \/ r.profile = out.profile
            \/ r.profile.id # out.profile.id /\ ~SamePlace(r, {out.connector}, out.profile)

\* A restart invents nothing and settles at once: what is installed after it is what the table says, no
\* TxProfile is left to meet a later transaction, and another restart would change nothing.
RestartSettles ==
    out.kind = "restarted" =>
        /\ \A r \in installed :
              /\ r.profile.purpose # "TxProfile"
              /\ \E s \in db : s.profile = r.profile /\ s.connector \in {0, r.connector}
        /\ Loaded = [maps |-> installed, rows |-> db]

\* The table and the maps of the SmartChargingHandler do not drift apart in the harmful direction, over
\* every sequence of installing, clearing, expiring, ending transactions and restarting.
StoreConsistent == StoredIsInstalled /\ RestartSettles

\* What the profile of a purpose that rules at time t asks for
Asked(profiles, purpose, t, session_start) ==
    {[level |-> p.stackLevel, unit |-> p.unit, limit |-> InForce(p, t, now, session_start).limit,
      phases |-> InForce(p, t, now, session_start).numberPhases] : p \in Ruling(profiles, purpose, t, now, session_start)}

\* What limits a connector at time t: the TxProfile or else the TxDefaultProfile
AskedOf(valid, c, t, simulate) ==
    LET of(purpose) == Asked(valid[c], purpose, t, Sessions[c])
    IN IF ~simulate /\ tx[c] = None THEN {}
       ELSE IF of("TxProfile") # {} THEN of("TxProfile") ELSE of("TxDefaultProfile")

\* What limits the charge point: in each unit, the sum of the limits of the connectors in that unit
AskedOfAll(valid, t, simulate) ==
    LET In(unit, c) == {a.limit : a \in {x \in AskedOf(valid, c, t, simulate) : x.unit = unit}}
        Sum(unit) == FoldSet(LAMBDA c, n : n + (IF In(unit, c) = {} THEN Config.default_limit[unit] ELSE Min(In(unit, c))),
                             0, Connectors)
        phases == UNION {{a.phases : a \in AskedOf(valid, c, t, simulate)} : c \in Connectors} \ {None}
    IN {[level |-> 0, unit |-> unit, limit |-> Sum(unit), phases |-> IF phases = {} THEN None ELSE Max(phases)] :
          unit \in Units}

\* The walk through the periods ends up where the profiles say: at each second the schedule has the lowest
\* of the limits of the ChargePointMaxProfile in force and of the TxProfile or else the TxDefaultProfile in
\* force, whatever their units - for the charge point, of the sums over its connectors - and the
\* stack level it reports is that of a profile with this limit.
CompositeExact ==
    out.kind = "composite" =>
        \A valid \in {ValidProfiles}, t \in now .. now + Min({Duration, Config.maxCompositeScheduleDuration}) - 1 :
            LET due == Asked(valid[0], "ChargePointMaxProfile", t, None)
                       \cup (IF out.connector = 0 THEN AskedOfAll(valid, t, out.simulate)
                             ELSE AskedOf(valid, out.connector, t, out.simulate))
                phases == {d.phases : d \in due} \ {None}
                factor == Config.supply_voltage * (IF phases = {} THEN Config.default_number_phases ELSE Min(phases))
                In(d) == IF d.unit = out.unit THEN d.limit
                         ELSE IF out.unit = "A" THEN d.limit \div factor ELSE d.limit * factor
                got == out.periods[Max({i \in DOMAIN out.periods : out.periods[i].startPeriod <= t - now})]
            IN IF due = {} THEN got.limit = Config.default_limit[out.unit]
               ELSE /\ got.limit = Min({In(d) : d \in due})
                    /\ got.stackLevel \in {d.level : d \in {x \in due : In(x) = got.limit}}

=============================================================================
