-------------------------------- MODULE Schema --------------------------------
(***************************************************************************)
(* The PostgreSQL schema of the backend as a set of facts, and the schema  *)
(* that the SQLAlchemy models declare.                                     *)
(*                                                                         *)
(* A fact is a tuple of strings:                                           *)
(*   <<"col", t, c>>             table t has column c                      *)
(*   <<"notnull", t, c>>         ... which is NOT NULL                     *)
(*   <<"default", t, c>>         ... and has a server default              *)
(*   <<"pk", t, c>>              ... and belongs to the primary key        *)
(*   <<"fk", t, c, u, a>>        c references table u, ON DELETE a         *)
(*   <<"unique", t, n>>          unique constraint or unique index n       *)
(*   <<"index", t, n>>           plain index n                             *)
(*   <<"check", t, n>>           check constraint n                        *)
(*   <<"enum", e>>               enum type e exists                        *)
(*   <<"uses", t, c, e>>         column c has type e                       *)
(* Scalar types (Text, Float, Numeric, ...) and the text of the checks are *)
(* left out: no property tells them apart.                                 *)
(***************************************************************************)
EXTENDS Naturals, Sequences, FiniteSets

(* The columns of a table: the required ones are NOT NULL without a server
   default, the defaulted ones NOT NULL with one, the others nullable. *)
Columns(t, required, defaulted, nullable) ==
  {<<"col", t, c>> : c \in required \cup defaulted \cup nullable}
    \cup {<<"notnull", t, c>> : c \in required \cup defaulted}
    \cup {<<"default", t, c>> : c \in defaulted}

PrimaryKey(t, cs) == {<<"pk", t, c>> : c \in cs}
Ref(t, c, u, onDelete) == {<<"fk", t, c, u, onDelete>>}
Uniques(t, names) == {<<"unique", t, n>> : n \in names}
Indexes(t, names) == {<<"index", t, n>> : n \in names}
Checks(t, names) == {<<"check", t, n>> : n \in names}
EnumColumn(t, c, e) == {<<"uses", t, c, e>>}

(* Everything a DROP TABLE or a DROP COLUMN takes with it. *)
FactsOfTable(db, t) == {f \in db : Len(f) > 2 /\ f[2] = t}
FactsOfColumn(db, t, c) ==
  {f \in FactsOfTable(db, t) :
     /\ f[1] \in {"col", "notnull", "default", "pk", "fk", "uses"}
     /\ f[3] = c}

Tables(db) == {f[2] : f \in {g \in db : g[1] = "col"}}
ColumnsOf(db, t) == {f[3] : f \in {g \in db : g[1] = "col" /\ g[2] = t}}

(* What PostgreSQL guarantees of any schema it lets a statement produce:
   a column that is constrained exists, a referenced table exists and a type
   in use exists. *)
WellFormed(db) ==
  \A f \in db :
    CASE f[1] \in {"notnull", "default", "pk"} -> <<"col", f[2], f[3]>> \in db
      [] f[1] = "fk" -> <<"col", f[2], f[3]>> \in db /\ f[4] \in Tables(db)
      [] f[1] = "uses" -> <<"col", f[2], f[3]>> \in db /\ <<"enum", f[4]>> \in db
      [] f[1] \in {"unique", "index", "check"} -> f[2] \in Tables(db)
      [] OTHER -> TRUE

-------------------------------------------------------------------------------
(* The models. *)

User ==
  Columns("users", {"id", "email", "password_hash", "display_name"}, {"created_at"}, {})
    \cup PrimaryKey("users", {"id"})
    \cup Uniques("users", {"ix_users_email"})

Resort ==
  Columns("resorts", {"id", "name", "country", "region"},
          {"name_aliases", "field_provenance", "is_active", "created_at"},
          {"city", "latitude", "longitude", "elevation_base_m", "elevation_top_m",
           "boundary", "bbox_min_lat", "bbox_min_lon", "bbox_max_lat", "bbox_max_lon",
           "country_code", "region_code", "last_merged_at"})
    \cup PrimaryKey("resorts", {"id"})
    \cup Indexes("resorts", {"ix_resorts_name", "ix_resorts_region", "ix_resorts_is_active"})

FavoriteResort ==
  Columns("favorite_resorts", {"user_id", "resort_id"}, {"created_at"}, {})
    \cup PrimaryKey("favorite_resorts", {"user_id", "resort_id"})
    \cup Ref("favorite_resorts", "user_id", "users", "CASCADE")
    \cup Ref("favorite_resorts", "resort_id", "resorts", "CASCADE")
    \cup Indexes("favorite_resorts", {"ix_favorite_resorts_resort_id"})

WeatherCache ==
  Columns("weather_cache", {"id", "resort_id", "observed_at"}, {"fetched_at"},
          {"temp_c", "wind_kph", "snowfall_cm_24h", "conditions_text", "today_high_c",
           "today_low_c", "snowfall_next_24h_cm", "weather_code_text"})
    \cup PrimaryKey("weather_cache", {"id"})
    \cup Ref("weather_cache", "resort_id", "resorts", "CASCADE")
    \cup Uniques("weather_cache", {"uq_weather_cache_resort_id"})
    \cup Indexes("weather_cache", {"ix_weather_cache_resort_id"})

RefreshToken ==
  Columns("refresh_tokens",
          {"id", "user_id", "token_hash", "family_id", "expires_at", "family_expires_at"},
          {"issued_at"},
          {"device_label", "last_used_at", "revoked_at", "replaced_by_id"})
    \cup PrimaryKey("refresh_tokens", {"id"})
    \cup Ref("refresh_tokens", "user_id", "users", "CASCADE")
    \cup Ref("refresh_tokens", "replaced_by_id", "refresh_tokens", "SET NULL")
    \cup Uniques("refresh_tokens", {"uq_refresh_tokens_token_hash"})
    \cup Indexes("refresh_tokens", {"ix_refresh_tokens_user_id", "ix_refresh_tokens_family_id"})

RideSession ==
  Columns("ride_sessions", {"id", "user_id"},
          {"started_at", "source", "sport", "descent_distance_m", "descent_duration_s",
           "descent_vertical_m", "lift_distance_m", "lift_duration_s", "lift_vertical_m",
           "avg_descent_speed_mps", "total_duration_s", "break_count", "break_duration_s",
           "status", "created_at"},
          {"resort_id", "ended_at", "max_speed_mps", "external_identifier", "conditions",
           "altitude_offset_m", "peak_altitude_m", "center_lat", "center_long",
           "processed_by_version", "processed_at"})
    \cup PrimaryKey("ride_sessions", {"id"})
    \cup Ref("ride_sessions", "user_id", "users", "CASCADE")
    \cup Ref("ride_sessions", "resort_id", "resorts", "SET NULL")
    \cup Uniques("ride_sessions", {"ix_ride_sessions_external_identifier_unique"})
    \cup Indexes("ride_sessions", {"ix_ride_sessions_user_id", "ix_ride_sessions_resort_id",
                                   "ix_ride_sessions_user_id_started_at"})
    \cup EnumColumn("ride_sessions", "conditions", "session_conditions")
    \cup EnumColumn("ride_sessions", "status", "ride_session_status")

RideSessionAction ==
  Columns("ride_session_actions",
          {"id", "session_id", "action_type", "sequence_index", "started_at", "ended_at",
           "duration_s", "distance_m", "avg_speed_mps", "max_speed_mps", "source"},
          {"created_at"},
          {"min_speed_mps", "vertical_m", "min_altitude_m", "max_altitude_m", "min_lat",
           "max_lat", "min_long", "max_long", "top_speed_lat", "top_speed_long",
           "top_speed_alt_m", "time_of_day", "external_track_id", "lift_name"})
    \cup PrimaryKey("ride_session_actions", {"id"})
    \cup Ref("ride_session_actions", "session_id", "ride_sessions", "CASCADE")
    \cup Uniques("ride_session_actions",
                 {"uq_ride_session_actions_session_id_action_type_sequence_index"})
    \cup Indexes("ride_session_actions", {"ix_ride_session_actions_session_id_started_at"})
    \cup Checks("ride_session_actions",
                {"ck_ride_session_actions_action_type", "ck_ride_session_actions_sequence_index",
                 "ck_ride_session_actions_time_of_day", "ck_ride_session_actions_source"})

RideSessionOverride ==
  Columns("ride_session_overrides",
          {"id", "session_id", "started_at", "ended_at", "motion_state", "created_by"},
          {"created_at"}, {})
    \cup PrimaryKey("ride_session_overrides", {"id"})
    \cup Ref("ride_session_overrides", "session_id", "ride_sessions", "CASCADE")
    \cup Indexes("ride_session_overrides", {"ix_ride_session_overrides_session_id_started_at"})
    \cup Checks("ride_session_overrides",
                {"ck_ride_session_overrides_motion_state",
                 "ck_ride_session_overrides_created_by"})

SessionPoint ==
  Columns("session_points", {"id", "session_id", "t_offset_ms", "latitude", "longitude"},
          {"recorded_at", "created_at"},
          {"accuracy_m", "elapsed_realtime_ns", "altitude_m", "vertical_accuracy_m",
           "speed_mps", "speed_accuracy_mps", "heading_deg", "bearing_accuracy_deg",
           "pressure_hpa", "provider", "is_mocked"})
    \cup PrimaryKey("session_points", {"id"})
    \cup Ref("session_points", "session_id", "ride_sessions", "CASCADE")
    \cup Uniques("session_points", {"uq_session_points_session_id_t_offset_ms"})
    \cup Indexes("session_points", {"ix_session_points_session_id",
                                    "ix_session_points_session_id_t_offset_ms"})
    \cup EnumColumn("session_points", "provider", "provider_type")

ResortLift ==
  Columns("resort_lifts", {"id", "resort_id", "name"}, {"source", "created_at"},
          {"lift_type", "osm_aerialway", "polyline", "base_altitude_m", "top_altitude_m",
           "external_track_id", "status", "source_record_id"})
    \cup PrimaryKey("resort_lifts", {"id"})
    \cup Ref("resort_lifts", "resort_id", "resorts", "CASCADE")
    \cup Ref("resort_lifts", "source_record_id", "resort_source_records", "SET NULL")
    \cup Uniques("resort_lifts", {"ix_resort_lifts_resort_track_unique"})
    \cup Indexes("resort_lifts", {"ix_resort_lifts_resort_id",
                                  "ix_resort_lifts_external_track_id"})
    \cup Checks("resort_lifts", {"ck_resort_lifts_lift_type", "ck_resort_lifts_source"})

ResortSourceRecord ==
  Columns("resort_source_records",
          {"id", "source", "external_id", "payload", "content_hash", "fetched_at",
           "match_status"},
          {"created_at", "updated_at"},
          {"snapshot_built_at", "missing_since", "resort_id", "match_method", "match_score",
           "match_candidates"})
    \cup PrimaryKey("resort_source_records", {"id"})
    \cup Ref("resort_source_records", "resort_id", "resorts", "SET NULL")
    \cup Uniques("resort_source_records", {"uq_resort_source_records_source_ext"})
    \cup Indexes("resort_source_records", {"ix_resort_source_records_resort_id",
                                           "ix_resort_source_records_source_status"})
    \cup Checks("resort_source_records",
                {"ck_resort_source_records_source", "ck_resort_source_records_match_status",
                 "ck_resort_source_records_match_method"})

ResortFieldOverride ==
  Columns("resort_field_overrides", {"id", "resort_id", "field", "value"},
          {"created_at"}, {"note"})
    \cup PrimaryKey("resort_field_overrides", {"id"})
    \cup Ref("resort_field_overrides", "resort_id", "resorts", "CASCADE")
    \cup Uniques("resort_field_overrides", {"uq_resort_field_overrides_resort_field"})
    \cup Checks("resort_field_overrides", {"ck_resort_field_overrides_field"})

ModelTables ==
  UNION {User, Resort, FavoriteResort, WeatherCache, RefreshToken, RideSession,
         RideSessionAction, RideSessionOverride, SessionPoint, ResortLift,
         ResortSourceRecord, ResortFieldOverride}

(* Base.metadata: the tables and the enum types their columns use. *)
Models == ModelTables \cup {<<"enum", f[4]>> : f \in {g \in ModelTables : g[1] = "uses"}}
===============================================================================
