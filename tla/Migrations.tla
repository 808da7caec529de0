------------------------------ MODULE Migrations ------------------------------
(***************************************************************************)
(* The alembic chain of backend/alembic/versions run against a database    *)
(* that holds rows.                                                        *)
(*                                                                         *)
(* A command (alembic upgrade T, alembic downgrade T) walks the chain one  *)
(* revision at a time inside one transaction: a statement that PostgreSQL  *)
(* refuses rolls the whole command back.  Between commands the application *)
(* writes rows.  Of the rows only what a migration reads or a constraint   *)
(* it creates can refuse is kept: whether any ride is stored, the natural  *)
(* key and the external identity of each resort, and the legacy source     *)
(* records that 0016 derives from them.                                    *)
(***************************************************************************)
EXTENDS Schema

CONSTANTS
  ResortId,   \* resort rows
  Name,       \* values of (name, country, region)
  ExternalId, \* values of (external_source, external_id) of the known sources
  Nil

ASSUME NilAssumption == Nil \notin ResortId \cup Name \cup ExternalId

VARIABLES
  rev,      \* alembic_version: how many revisions of the chain are applied
  db,       \* the schema, a set of facts
  rides,    \* whether ride_sessions holds a row
  resorts,  \* the resort rows: id -> [name, ext], Nil where there is none
  records,  \* the legacy rows of resort_source_records: external id -> resort
  target,   \* the revision the running command goes to
  saved     \* what a rollback of the running command restores, <<>> when none runs
vars == <<rev, db, rides, resorts, records, target, saved>>

Idle == target = rev

-------------------------------------------------------------------------------
(* The revisions.  An upgrade or a downgrade is what it drops, what it adds *)
(* and the tables it truncates in between.                                  *)

Step(drop, add, truncated) == [drop |-> drop, add |-> add, truncated |-> truncated]
Adds(add) == Step({}, add, {})
DropsTables(d, ts) == Step(UNION {FactsOfTable(d, t) : t \in ts}, {}, {})
DropsColumns(d, t, cs) == Step(UNION {FactsOfColumn(d, t, c) : c \in cs}, {}, {})
Missing(d, t, cs) == cs \ ColumnsOf(d, t)

Up0001 ==
  Adds(Columns("users", {"id", "email", "password_hash", "display_name"}, {"created_at"}, {})
         \cup PrimaryKey("users", {"id"})
         \cup Uniques("users", {"ix_users_email"}))

Up0002 ==
  Adds(Columns("resorts", {"id", "name", "country", "region"}, {"created_at"},
               {"city", "latitude", "longitude", "elevation_base_m", "elevation_top_m"})
         \cup PrimaryKey("resorts", {"id"})
         \cup Uniques("resorts", {"uq_resorts_name_country_region"})
         \cup Indexes("resorts", {"ix_resorts_name", "ix_resorts_region"})
         \cup Columns("favorite_resorts", {"user_id", "resort_id"}, {"created_at"}, {})
         \cup Ref("favorite_resorts", "resort_id", "resorts", "CASCADE")
         \cup Ref("favorite_resorts", "user_id", "users", "CASCADE")
         \cup PrimaryKey("favorite_resorts", {"user_id", "resort_id"})
         \cup Indexes("favorite_resorts", {"ix_favorite_resorts_resort_id"}))

OldRideTotals == {"duration_s", "distance_m", "avg_speed_mps", "elevation_gain_m",
                  "elevation_loss_m"}

Up0003 ==
  Adds({<<"enum", "ride_session_status">>}
         \cup Columns("ride_sessions", {"id", "user_id"}, {"started_at", "status", "created_at"},
                      {"resort_id", "ended_at", "max_speed_mps"} \cup OldRideTotals)
         \cup EnumColumn("ride_sessions", "status", "ride_session_status")
         \cup Ref("ride_sessions", "resort_id", "resorts", "SET NULL")
         \cup Ref("ride_sessions", "user_id", "users", "CASCADE")
         \cup PrimaryKey("ride_sessions", {"id"})
         \cup Indexes("ride_sessions", {"ix_ride_sessions_user_id", "ix_ride_sessions_resort_id",
                                        "ix_ride_sessions_user_id_started_at"})
         \cup Columns("session_points",
                      {"id", "session_id", "t_offset_ms", "latitude", "longitude"},
                      {"created_at"}, {"accuracy_m", "altitude_m", "speed_mps", "heading_deg"})
         \cup Ref("session_points", "session_id", "ride_sessions", "CASCADE")
         \cup PrimaryKey("session_points", {"id"})
         \cup Indexes("session_points", {"ix_session_points_session_id",
                                         "ix_session_points_session_id_t_offset_ms"}))

Down0003(d) ==
  Step(FactsOfTable(d, "session_points") \cup FactsOfTable(d, "ride_sessions")
         \cup {<<"enum", "ride_session_status">>}, {}, {"session_points", "ride_sessions"})

PointOffsetKey == Uniques("session_points", {"uq_session_points_session_id_t_offset_ms"})

Up0004 ==
  Adds(Columns("weather_cache", {"id", "resort_id", "observed_at"}, {"fetched_at"},
               {"temp_c", "wind_kph", "snowfall_cm_24h", "conditions_text", "today_high_c",
                "today_low_c", "snowfall_next_24h_cm", "weather_code_text"})
         \cup Ref("weather_cache", "resort_id", "resorts", "CASCADE")
         \cup PrimaryKey("weather_cache", {"id"})
         \cup Uniques("weather_cache", {"uq_weather_cache_resort_id"})
         \cup Indexes("weather_cache", {"ix_weather_cache_resort_id"})
         \cup PointOffsetKey)

Down0004(d) == Step(PointOffsetKey \cup FactsOfTable(d, "weather_cache"), {}, {})

Derived == {"quality_score", "quality_reason", "filtered_latitude", "filtered_longitude",
            "filtered_altitude_m", "fused_speed_mps", "derived_speed_mps",
            "distance_delta_m", "motion_state", "quality_class"}
Enriched == Derived \cup {"elapsed_realtime_ns", "vertical_accuracy_m", "speed_accuracy_mps",
                          "bearing_accuracy_deg", "provider", "is_mocked"}

(* Only the columns that are not there yet. *)
Up0006(d) ==
  Adds(Columns("session_points", {}, {}, Missing(d, "session_points", Enriched)))
Down0006(d) ==
  DropsColumns(d, "session_points", Enriched \cap ColumnsOf(d, "session_points"))

ResortIdentity == {"external_source", "external_id", "last_source_sync_at"}
ResortIdentityKey == Uniques("resorts", {"uq_resorts_external_source_external_id"})

Up0007 ==
  Adds(Columns("resorts", {}, {"is_active"}, ResortIdentity)
         \cup Indexes("resorts", {"ix_resorts_is_active"})
         \cup ResortIdentityKey)

Down0007(d) ==
  LET columns == DropsColumns(d, "resorts", ResortIdentity \cup {"is_active"})
  IN [columns EXCEPT !.drop = @ \cup ResortIdentityKey
                                \cup Indexes("resorts", {"ix_resorts_is_active"})]

(* recorded_at is added nullable, filled from the ride and made NOT NULL;
   accepted_for_analytics is added with its default, filled and made NOT NULL. *)
Up0008(d) ==
  LET absent == Missing(d, "session_points", {"recorded_at", "accepted_for_analytics"})
      wanted == Columns("session_points", {"recorded_at"}, {"accepted_for_analytics"}, {})
  IN IF ColumnsOf(d, "session_points") = {} THEN Adds({})
     ELSE Adds({f \in wanted : f[3] \in absent \/ f \notin d})

Down0008(d) ==
  DropsColumns(d, "session_points",
               {"recorded_at", "accepted_for_analytics"} \cap ColumnsOf(d, "session_points"))

PointEnums == {<<"provider", "provider_type">>, <<"motion_state", "motion_state">>,
               <<"quality_class", "quality_class">>}
PointEnumFacts ==
  UNION {{<<"enum", e[2]>>} \cup EnumColumn("session_points", e[1], e[2]) : e \in PointEnums}

Up0009 == Adds(PointEnumFacts)
Down0009(d) == Step(PointEnumFacts \cap d, {}, {})

PointAnalytics ==
  LET t == "session_point_analytics"
  IN Columns(t, {"session_point_id"}, {"accepted_for_analytics"}, Derived)
       \cup Ref(t, "session_point_id", "session_points", "CASCADE")
       \cup PrimaryKey(t, {"session_point_id"})
       \cup EnumColumn(t, "quality_class", "quality_class")
       \cup EnumColumn(t, "motion_state", "motion_state")

Up0010 == Adds(PointAnalytics)

(* The tables that 0011 creates. *)
AnalyzerTables ==
  LET a == "ride_session_actions"
      o == "ride_session_overrides"
      l == "resort_lifts"
  IN Columns(a, {"id", "session_id", "action_type", "sequence_index", "started_at",
                 "ended_at", "duration_s", "distance_m", "avg_speed_mps", "max_speed_mps",
                 "source"}, {"created_at"},
             {"min_speed_mps", "vertical_m", "min_altitude_m", "max_altitude_m", "min_lat",
              "max_lat", "min_long", "max_long", "top_speed_lat", "top_speed_long",
              "top_speed_alt_m", "time_of_day", "external_track_id"})
       \cup Checks(a, {"ck_ride_session_actions_action_type",
                       "ck_ride_session_actions_sequence_index",
                       "ck_ride_session_actions_time_of_day", "ck_ride_session_actions_source"})
       \cup Ref(a, "session_id", "ride_sessions", "CASCADE")
       \cup PrimaryKey(a, {"id"})
       \cup Uniques(a, {"uq_ride_session_actions_session_id_action_type_sequence_index"})
       \cup Indexes(a, {"ix_ride_session_actions_session_id_started_at"})
       \cup Columns(o, {"id", "session_id", "started_at", "ended_at", "motion_state",
                        "created_by"}, {"created_at"}, {})
       \cup Checks(o, {"ck_ride_session_overrides_motion_state",
                       "ck_ride_session_overrides_created_by"})
       \cup Ref(o, "session_id", "ride_sessions", "CASCADE")
       \cup PrimaryKey(o, {"id"})
       \cup Indexes(o, {"ix_ride_session_overrides_session_id_started_at"})
       \cup Columns(l, {"id", "resort_id", "name"}, {"created_at"},
                    {"lift_type", "polyline", "base_altitude_m", "top_altitude_m",
                     "external_track_id"})
       \cup Checks(l, {"ck_resort_lifts_lift_type"})
       \cup Ref(l, "resort_id", "resorts", "CASCADE")
       \cup PrimaryKey(l, {"id"})
       \cup Indexes(l, {"ix_resort_lifts_resort_id", "ix_resort_lifts_external_track_id"})

Summary == {"descent_distance_m", "descent_duration_s", "descent_vertical_m",
            "lift_distance_m", "lift_duration_s", "lift_vertical_m",
            "avg_descent_speed_mps", "total_duration_s"}
RideExtras == {"external_identifier", "conditions", "altitude_offset_m", "peak_altitude_m",
               "center_lat", "center_long", "processed_by_version", "processed_at"}

(* The columns that 0011 adds to ride_sessions, the summary without defaults. *)
AnalyzerColumns ==
  Columns("ride_sessions", Summary, {"source", "sport"}, RideExtras)
    \cup Checks("ride_sessions", {"ck_ride_sessions_source", "ck_ride_sessions_sport"})
    \cup EnumColumn("ride_sessions", "conditions", "session_conditions")
    \cup Uniques("ride_sessions", {"ix_ride_sessions_external_identifier_unique"})

(* Mutant: the two tables are not emptied before the NOT NULL columns come. *)
Up0011KeepsRows(d) ==
  Step(FactsOfTable(d, "session_point_analytics")
         \cup DropsColumns(d, "session_points", Derived \cup {"accepted_for_analytics"}).drop
         \cup {<<"enum", "motion_state">>, <<"enum", "quality_class">>}
         \cup DropsColumns(d, "ride_sessions", OldRideTotals).drop,
       {<<"enum", "session_conditions">>} \cup AnalyzerTables \cup AnalyzerColumns, {})

Up0011(d) ==
  Step(FactsOfTable(d, "session_point_analytics")
         \cup DropsColumns(d, "session_points", Derived \cup {"accepted_for_analytics"}).drop
         \cup {<<"enum", "motion_state">>, <<"enum", "quality_class">>}
         \cup DropsColumns(d, "ride_sessions", OldRideTotals).drop,
       {<<"enum", "session_conditions">>} \cup AnalyzerTables \cup AnalyzerColumns,
       {"session_points", "ride_sessions"})

Down0011(d) ==
  LET restored == Derived \cup {"accepted_for_analytics"}
  IN Step(DropsTables(d, {"ride_session_overrides", "ride_session_actions",
                          "resort_lifts"}).drop
            \cup Uniques("ride_sessions", {"ix_ride_sessions_external_identifier_unique"})
            \cup DropsColumns(d, "ride_sessions",
                              Summary \cup RideExtras \cup {"source", "sport"}).drop
            \cup Checks("ride_sessions", {"ck_ride_sessions_source", "ck_ride_sessions_sport"})
            \cup {<<"enum", "session_conditions">>},
          {<<"enum", "motion_state">>, <<"enum", "quality_class">>} \cup PointAnalytics
            \cup Columns("session_points", {}, {}, restored)
            \cup EnumColumn("session_points", "quality_class", "quality_class")
            \cup EnumColumn("session_points", "motion_state", "motion_state")
            \cup Columns("ride_sessions", {}, {}, OldRideTotals),
          {})

SummaryDefaults == {<<"default", "ride_sessions", c>> : c \in Summary}
Up0012 == Adds(SummaryDefaults)
Down0012 == Step(SummaryDefaults, {}, {})

Up0013 ==
  LET t == "refresh_tokens"
  IN Adds(Columns(t, {"id", "user_id", "token_hash", "family_id", "expires_at",
                      "family_expires_at"}, {"issued_at"},
                  {"device_label", "last_used_at", "revoked_at", "replaced_by_id"})
            \cup PrimaryKey(t, {"id"})
            \cup Ref(t, "user_id", "users", "CASCADE")
            \cup Ref(t, "replaced_by_id", "refresh_tokens", "SET NULL")
            \cup Uniques(t, {"uq_refresh_tokens_token_hash"})
            \cup Indexes(t, {"ix_refresh_tokens_user_id", "ix_refresh_tokens_family_id"}))

Up0014 == Adds(Columns("session_points", {}, {}, {"pressure_hpa"}))

(* Mutant: the name of the lift is forgotten. *)
Up0015NoLiftName ==
  Adds(Columns("resort_lifts", {}, {}, {"osm_aerialway"})
         \cup Columns("ride_sessions", {}, {"break_count", "break_duration_s"}, {}))

Up0015 ==
  Adds(Columns("resort_lifts", {}, {}, {"osm_aerialway"})
         \cup Columns("ride_session_actions", {}, {}, {"lift_name"})
         \cup Columns("ride_sessions", {}, {"break_count", "break_duration_s"}, {}))

(* Mutant: the column of resort_lifts stays. *)
Down0015KeepsAerialway(d) ==
  Step(DropsColumns(d, "ride_sessions", {"break_count", "break_duration_s"}).drop
         \cup DropsColumns(d, "ride_session_actions", {"lift_name"}).drop, {}, {})

Down0015(d) ==
  Step(DropsColumns(d, "ride_sessions", {"break_count", "break_duration_s"}).drop
         \cup DropsColumns(d, "ride_session_actions", {"lift_name"}).drop
         \cup DropsColumns(d, "resort_lifts", {"osm_aerialway"}).drop, {}, {})

ResortNameKey == Uniques("resorts", {"uq_resorts_name_country_region"})

(* The two tables of 0016. *)
CatalogTables ==
  LET s == "resort_source_records"
      o == "resort_field_overrides"
  IN Columns(s, {"id", "source", "external_id", "payload", "content_hash", "fetched_at",
                 "match_status"}, {"created_at", "updated_at"},
             {"snapshot_built_at", "missing_since", "resort_id", "match_method",
              "match_score", "match_candidates"})
       \cup PrimaryKey(s, {"id"})
       \cup Ref(s, "resort_id", "resorts", "SET NULL")
       \cup Uniques(s, {"uq_resort_source_records_source_ext"})
       \cup Checks(s, {"ck_resort_source_records_source",
                       "ck_resort_source_records_match_status",
                       "ck_resort_source_records_match_method"})
       \cup Indexes(s, {"ix_resort_source_records_resort_id",
                        "ix_resort_source_records_source_status"})
       \cup Columns(o, {"id", "resort_id", "field", "value"}, {"created_at"}, {"note"})
       \cup PrimaryKey(o, {"id"})
       \cup Ref(o, "resort_id", "resorts", "CASCADE")
       \cup Uniques(o, {"uq_resort_field_overrides_resort_field"})
       \cup Checks(o, {"ck_resort_field_overrides_field"})

CatalogColumns ==
  Columns("resorts", {}, {"name_aliases", "field_provenance"},
          {"boundary", "bbox_min_lat", "bbox_min_lon", "bbox_max_lat", "bbox_max_lon",
           "country_code", "region_code", "last_merged_at"})

LiftOrigin ==
  Columns("resort_lifts", {}, {"source"}, {"status", "source_record_id"})
    \cup Ref("resort_lifts", "source_record_id", "resort_source_records", "SET NULL")
    \cup Checks("resort_lifts", {"ck_resort_lifts_source"})
    \cup Uniques("resort_lifts", {"ix_resort_lifts_resort_track_unique"})

Up0016(d) ==
  Step(ResortIdentityKey \cup ResortNameKey \cup DropsColumns(d, "resorts", ResortIdentity).drop,
       CatalogTables \cup CatalogColumns \cup LiftOrigin, {})

Down0016 ==
  Step(LiftOrigin \cup CatalogColumns \cup CatalogTables,
       Columns("resorts", {}, {}, ResortIdentity) \cup ResortIdentityKey \cup ResortNameKey, {})

(* The chain: there is no revision 0005, so the revision numbers are places
   in the chain. *)
HeadRev == 15
Upgrade(n, d) ==
  CASE n = 1 -> Up0001       [] n = 2 -> Up0002     [] n = 3 -> Up0003
    [] n = 4 -> Up0004       [] n = 5 -> Up0006(d)  [] n = 6 -> Up0007
    [] n = 7 -> Up0008(d)    [] n = 8 -> Up0009     [] n = 9 -> Up0010
    [] n = 10 -> Up0011(d)   [] n = 11 -> Up0012    [] n = 12 -> Up0013
    [] n = 13 -> Up0014      [] n = 14 -> Up0015    [] n = 15 -> Up0016(d)
Downgrade(n, d) ==
  CASE n = 1 -> DropsTables(d, {"users"})
    [] n = 2 -> DropsTables(d, {"favorite_resorts", "resorts"})
    [] n = 3 -> Down0003(d)  [] n = 4 -> Down0004(d) [] n = 5 -> Down0006(d)
    [] n = 6 -> Down0007(d)  [] n = 7 -> Down0008(d) [] n = 8 -> Down0009(d)
    [] n = 9 -> DropsTables(d, {"session_point_analytics"})
    [] n = 10 -> Down0011(d) [] n = 11 -> Down0012
    [] n = 12 -> DropsTables(d, {"refresh_tokens"})
    [] n = 13 -> DropsColumns(d, "session_points", {"pressure_hpa"})
    [] n = 14 -> Down0015(d) [] n = 15 -> Down0016

-------------------------------------------------------------------------------
(* Rows. *)

NoResort == [name |-> Nil, ext |-> Nil]
NoRecord == [resort |-> Nil, legacy |-> FALSE]

Stored(r) == resorts[r].name # Nil
Linked(e) == records[e].resort # Nil
DuplicateNames == \E r, s \in ResortId : r # s /\ Stored(r) /\ resorts[r].name = resorts[s].name

(* 0016: one linked legacy record per external identity, which the columns
   then no longer hold. *)
IdsToRecords ==
  /\ records' = [e \in ExternalId |->
                   IF \E r \in ResortId : resorts[r].ext = e
                   THEN [resort |-> CHOOSE r \in ResortId : resorts[r].ext = e,
                         legacy |-> TRUE]
                   ELSE NoRecord]
  /\ resorts' = [r \in ResortId |-> [resorts[r] EXCEPT !.ext = Nil]]

(* Mutant: any source record gives the resort an identity. *)
AnyIdOf(r) ==
  IF \E e \in ExternalId : records[e].resort = r
  THEN CHOOSE e \in ExternalId : records[e].resort = r
  ELSE Nil

(* 0016 undone: the columns are filled from the legacy records alone. *)
LegacyIdOf(r) ==
  IF \E e \in ExternalId : records[e].resort = r /\ records[e].legacy
  THEN CHOOSE e \in ExternalId : records[e].resort = r /\ records[e].legacy
  ELSE Nil
RecordsToIds ==
  /\ resorts' = [r \in ResortId |-> [resorts[r] EXCEPT !.ext = LegacyIdOf(r)]]
  /\ records' = [e \in ExternalId |-> NoRecord]

Unread == UNCHANGED <<resorts, records>>
RowsUp(n) == IF n = 15 THEN IdsToRecords ELSE Unread
(* Mutant: identities outlive the columns that 0007 undone drops. *)
RowsDownKeepsIds(n) ==
  CASE n = 15 -> RecordsToIds
    [] n = 2 -> resorts' = [r \in ResortId |-> NoResort] /\ UNCHANGED records
    [] OTHER -> Unread
RowsDown(n) ==
  CASE n = 15 -> RecordsToIds
    [] n = 6 -> resorts' = [r \in ResortId |-> [resorts[r] EXCEPT !.ext = Nil]]
                /\ UNCHANGED records
    [] n = 2 -> resorts' = [r \in ResortId |-> NoResort] /\ UNCHANGED records
    [] OTHER -> Unread

-------------------------------------------------------------------------------
(* Commands. *)

Snapshot == [rev |-> rev, db |-> db, rides |-> rides, resorts |-> resorts,
             records |-> records]

Init ==
  /\ rev = 0 /\ target = 0
  /\ db = {}
  /\ rides = FALSE
  /\ resorts = [r \in ResortId |-> NoResort]
  /\ records = [e \in ExternalId |-> NoRecord]
  /\ saved = <<>>

(* alembic upgrade or downgrade opens its transaction. *)
Command(t) ==
  /\ Idle
  /\ t # rev
  /\ target' = t
  /\ saved' = Snapshot
  /\ UNCHANGED <<rev, db, rides, resorts, records>>

(* What PostgreSQL refuses: dropping what is not there, adding what is, a
   dangling constraint or type, a NOT NULL column without a default on a
   table with rows, and a unique constraint that the rows break. *)
Applied(m, d) == (d \ m.drop) \cup m.add
Refused(m) ==
  \/ ~ (m.drop \subseteq db)
  \/ m.add \cap (db \ m.drop) # {}
  \/ ~ WellFormed(Applied(m, db))
  \/ /\ rides /\ "ride_sessions" \notin m.truncated
     /\ \E f \in m.add : /\ f[1] = "notnull" /\ f[2] = "ride_sessions"
                         /\ <<"default", f[2], f[3]>> \notin m.add
  \/ ResortNameKey \subseteq m.add /\ DuplicateNames

NextRev == IF target > rev THEN rev + 1 ELSE rev - 1
Migration == IF target > rev THEN Upgrade(rev + 1, db) ELSE Downgrade(rev, db)

Migrate ==
  /\ ~ Idle
  /\ ~ Refused(Migration)
  /\ db' = Applied(Migration, db)
  /\ rides' = (rides /\ "ride_sessions" \notin Migration.truncated)
  /\ IF target > rev THEN RowsUp(rev + 1) ELSE RowsDown(rev)
  /\ rev' = NextRev
  /\ saved' = IF NextRev = target THEN <<>> ELSE saved
  /\ UNCHANGED target

RollBack ==
  /\ ~ Idle
  /\ Refused(Migration)
  /\ rev' = saved.rev /\ target' = saved.rev
  /\ db' = saved.db
  /\ rides' = saved.rides
  /\ resorts' = saved.resorts
  /\ records' = saved.records
  /\ saved' = <<>>

-------------------------------------------------------------------------------
(* The application, between two commands. *)

StoreRide ==
  /\ Idle
  /\ rev >= 3
  /\ rides' = TRUE
  /\ UNCHANGED <<rev, db, resorts, records, target, saved>>

(* The importers of the revisions before 0016: their constraints hold. *)
LegacyImport(r, name, ext) ==
  /\ Idle
  /\ rev \in 2..14
  /\ ~ Stored(r)
  /\ \A s \in ResortId : resorts[s].name # name
  /\ ext # Nil => rev >= 6 /\ \A s \in ResortId : resorts[s].ext # ext
  /\ resorts' = [resorts EXCEPT ![r] = [name |-> name, ext |-> ext]]
  /\ UNCHANGED <<rev, db, rides, records, target, saved>>

(* The OpenSkiData import: a new source record is linked to a resort that has
   no OpenSkiData record yet, or to a new resort of any name. *)
CatalogImport(r, name, ext) ==
  /\ Idle
  /\ rev = HeadRev
  /\ ~ Linked(ext)
  /\ \A e \in ExternalId : records[e].resort = r => records[e].legacy
  /\ Stored(r) => name = resorts[r].name
  /\ resorts' = [resorts EXCEPT ![r].name = name]
  /\ records' = [records EXCEPT ![ext] = [resort |-> r, legacy |-> FALSE]]
  /\ UNCHANGED <<rev, db, rides, target, saved>>

Next ==
  \/ \E t \in 0..HeadRev : Command(t)
  \/ Migrate
  \/ RollBack
  \/ StoreRide
  \/ \E r \in ResortId, name \in Name :
       \/ \E ext \in ExternalId \cup {Nil} : LegacyImport(r, name, ext)
       \/ \E ext \in ExternalId : CatalogImport(r, name, ext)

Spec == Init /\ [][Next]_vars

-------------------------------------------------------------------------------
(* Properties. *)

(* The rows fit the tables that exist: rides need ride_sessions, resorts need
   the resorts table, identities their columns and records their table. *)
MigTypeOK ==
  /\ rev \in 0..HeadRev /\ target \in 0..HeadRev
  /\ Idle <=> saved = <<>>
  /\ WellFormed(db)
  /\ rides => "ride_sessions" \in Tables(db)
  /\ \A r \in ResortId :
       /\ resorts[r].name \in Name \cup {Nil}
       /\ resorts[r].ext \in ExternalId \cup {Nil}
       /\ Stored(r) => "resorts" \in Tables(db)
       /\ resorts[r].ext # Nil => Stored(r) /\ "external_id" \in ColumnsOf(db, "resorts")
  /\ \A e \in ExternalId :
       Linked(e) => Stored(records[e].resort) /\ "resort_source_records" \in Tables(db)

(* Two differences between the models and the head revision that no statement
   of the application runs into: the checks of 0011 on ride_sessions that the
   model does not declare, and the server default that the model declares for
   session_points.recorded_at and no revision creates. *)
KnownDrift ==
  Checks("ride_sessions", {"ck_ride_sessions_source", "ck_ride_sessions_sport"})
    \cup {<<"default", "session_points", "recorded_at">>}

(* Whatever upgrades and downgrades led there, a database at the head revision
   has the schema that the SQLAlchemy models declare (backend/app/models). *)
HeadSchemaIsTheModels ==
  Idle /\ rev = HeadRev => db \cup KnownDrift = Models \cup KnownDrift

(* The schema that the upgrades alone lead to, by revision. *)
Clean[n \in 0..HeadRev] ==
  IF n = 0 THEN {} ELSE Applied(Upgrade(n, Clean[n - 1]), Clean[n - 1])

(* 0011 undone brings session_points.accepted_for_analytics back nullable and
   without its default. *)
NotRestored == {<<f, "session_points", "accepted_for_analytics">> : f \in {"notnull", "default"}}

(* The schema is a function of the revision: a downgrade takes back all that
   its upgrade made and nothing else, so that the next upgrade finds what it
   was written for. *)
DowngradeUndoesUpgrade == db \cup NotRestored = Clean[rev] \cup NotRestored

(* A command is refused, and rolled back, for one reason only, the one that
   0016_resort_catalog_sources.py:224 gives: two resorts of the same name,
   country and region.  An upgrade is never refused, whatever rows are stored
   and whatever downgrades came before it. *)
OnlyDuplicatesRefuse ==
  [][~ Idle /\ target' # target => rev = HeadRev /\ target < HeadRev /\ DuplicateNames]_vars

IdentityOf(r) == IF rev < HeadRev THEN resorts[r].ext ELSE LegacyIdOf(r)

(* As long as 0007 is applied a resort keeps the external identity it was
   imported with, in its columns before 0016 and in its legacy record after it,
   and a downgrade gives no resort an identity it did not have, even when an
   OpenSkiData record was linked to it in the meantime. *)
LegacyIdentityKept ==
  [][rev >= 6 /\ rev' >= 6 =>
       \A r \in ResortId : Stored(r) => IdentityOf(r)' = IdentityOf(r)]_vars
===============================================================================
