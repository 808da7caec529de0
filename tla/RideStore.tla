------------------------------ MODULE RideStore ------------------------------
(***************************************************************************)
(* The two places a ride is kept, and the single statements that change    *)
(* them.  On the phone: the rows of local_ride_sessions, the tombstones of *)
(* pending_remote_session_deletes and the cached remote summaries (Drift,  *)
(* one serialised SQLite connection, so a DAO call is one step).  On the   *)
(* server: the ride sessions of one account (PostgreSQL, one commit per    *)
(* request, so a handler is one step).  The tasks that call them, and what *)
(* happens between two calls, are in RideSync and RideBook.                *)
(***************************************************************************)
EXTENDS Integers, FiniteSets

CONSTANTS
  Ride,      \* rides recorded on this phone
  Remote,    \* identifiers the server can still hand out
  Batches,   \* Batches[x]: upload batches the points of ride x make up
  Nil        \* no identifier

ASSUME RideAssumption ==
  /\ Ride \cap Remote = {}
  /\ Nil \notin Ride \cup Remote
  /\ Batches \in [Ride -> Nat]

(* A recorded ride has a row of its own; a session that history hydration  *)
(* finds on the server gets the row named after its identifier.            *)
Row == Ride \cup Remote

VARIABLES
  state,     \* state[x]: column state of row x; "none" never inserted, "gone" deleted
  remote,    \* remote[x]: column remote_id of row x, or Nil
  tomb,      \* tomb[r]: tombstone of r: none, due, waiting (next_attempt_at ahead), failed
  cache,     \* remote ids in cached_remote_session_summaries
  status,    \* status[r]: absent, draft, completed or deleted
  stored,    \* stored[r]: batches whose points the server holds for r
  madeFor    \* madeFor[r]: the ride whose create request made r, or Nil

rowVars    == <<state, remote>>
serverVars == <<status, stored, madeFor>>
storeVars  == <<state, remote, tomb, cache, status, stored, madeFor>>

Absent     == {"none", "gone"}
InProgress == {"recording", "paused"}
Unsynced   == {"syncPending", "syncing", "syncFailed"}
RowState   == Absent \cup InProgress \cup Unsynced \cup {"synced"}

StoreTypeOK ==
  /\ state \in [Row -> RowState]
  /\ remote \in [Row -> Remote \cup {Nil}]
  /\ tomb \in [Remote -> {"none", "due", "waiting", "failed"}]
  /\ cache \in SUBSET Remote
  /\ status \in [Remote -> {"absent", "draft", "completed", "deleted"}]
  /\ stored \in [Remote -> SUBSET (Nat \ {0})]
  /\ madeFor \in [Remote -> Ride \cup {Nil}]

StoreInit ==
  /\ state = [x \in Row |-> "none"]
  /\ remote = [x \in Row |-> Nil]
  /\ tomb = [r \in Remote |-> "none"]
  /\ cache = {}
  /\ status = [r \in Remote |-> "absent"]
  /\ stored = [r \in Remote |-> {}]
  /\ madeFor = [r \in Remote |-> Nil]

-----------------------------------------------------------------------------
(* The phone's statements. *)

Present(x) == state[x] \notin Absent

(* UPDATE ... SET state WHERE local_id: whatever the row's state was, and   *)
(* no row at all once the ride has been deleted.                            *)
SetState(x, s) == state' = IF Present(x) THEN [state EXCEPT ![x] = s] ELSE state

(* The same update with remote_id = COALESCE(r, remote_id).                 *)
BindRemote(x, r) ==
  /\ SetState(x, "syncing")
  /\ remote' = IF Present(x) THEN [remote EXCEPT ![x] = r] ELSE remote

(* Remote ids the history hides: tombstones still in state 'pending'.       *)
HiddenByTombstone == {r \in Remote : tomb[r] \in {"due", "waiting"}}

(* INSERT ... ON CONFLICT(owner_user_id, remote_id) DO UPDATE.              *)
RowsOf(r) == {x \in Row : remote[x] = r}

(* Mutant: a plain INSERT, as if the unique index were not there.           *)
UpsertSummaryInserts(r) ==
  /\ state' = [state EXCEPT ![r] = "synced"]
  /\ remote' = [remote EXCEPT ![r] = r]

UpsertSummary(r) ==
  LET target == IF RowsOf(r) = {} THEN {r} ELSE RowsOf(r)
  IN  /\ state' = [x \in Row |-> IF x \in target THEN "synced" ELSE state[x]]
      /\ remote' = [x \in Row |-> IF x \in target THEN r ELSE remote[x]]

-----------------------------------------------------------------------------
(* The server's handlers; r is the session in the request's path.           *)

AllBatches(x) == 1 .. Batches[x]

(* A session whose points are all on the server.                            *)
Whole(r) == madeFor[r] \in Ride /\ AllBatches(madeFor[r]) \subseteq stored[r]

CreateSession(x, r) ==
  /\ status[r] = "absent"
  /\ status' = [status EXCEPT ![r] = "draft"]
  /\ madeFor' = [madeFor EXCEPT ![r] = x]
  /\ UNCHANGED stored

AcceptsUpload(r) == status[r] = "draft"

(* Offsets the session already has are skipped, so a batch counts once.     *)
StoreBatch(r, i) ==
  /\ stored' = [stored EXCEPT ![r] = @ \cup {i}]
  /\ UNCHANGED <<status, madeFor>>

CompleteSession(r) ==
  /\ status' = [status EXCEPT ![r] = "completed"]
  /\ UNCHANGED <<stored, madeFor>>

DeleteSession(r) ==
  /\ status' = [status EXCEPT ![r] = "deleted"]
  /\ stored' = [stored EXCEPT ![r] = {}]
  /\ UNCHANGED madeFor

(* Mutant: drafts are kept too.                                             *)
ListedWithDrafts == {r \in Remote : status[r] \in {"draft", "completed"}}

(* GET /users/me/sessions, and what the history keeps of the answer.        *)
ListedAsHistory == {r \in Remote : status[r] = "completed"}
=============================================================================
