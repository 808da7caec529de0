------------------------------- MODULE RideSync -------------------------------
(***************************************************************************)
(* How finished rides reach the server.  A task is a Dart future that runs *)
(* SessionRepositoryImpl code: the background pass, the "Sync now" button  *)
(* of the ride detail screen, a history screen.  Dart is single-threaded,  *)
(* so tasks interleave only where they await: between two actions here.    *)
(*                                                                         *)
(* A request in flight can be answered, or the client can give up on it    *)
(* (timeout, lost connection, process killed); in that case it stays in    *)
(* the network and may still be executed at any later time, or never.      *)
(***************************************************************************)
EXTENDS RideStore

CONSTANTS
  Pass,       \* the background sync manager's one task
  Buttons,    \* tasks started by the detail screen's sync button
  Screens,    \* tasks started by the history screen
  MaxFaults   \* bound on lost requests and crashes together

ASSUME TaskAssumption ==
  /\ Pass \notin Buttons \cup Screens
  /\ Buttons \cap Screens = {}
  /\ MaxFaults \in Nat

Task == {Pass} \cup Buttons \cup Screens

VARIABLES
  pc,      \* pc[t]: the await task t is suspended at
  on,      \* on[t]: the ride it syncs
  rem,     \* rem[t]: its local variable remoteId
  sent,    \* sent[t]: batches acknowledged in this attempt
  todo,    \* rides the pass has listed and not reached yet
  hide,    \* hide[t]: tombstones read before the remote list was asked for
  seen,    \* seen[t]: listed sessions not written to the phone yet
  lateCreate, lateUpload, lateComplete,   \* requests nobody waits for any more
  faults

taskVars == <<pc, on, rem, sent, todo, hide, seen>>
netVars  == <<lateCreate, lateUpload, lateComplete, faults>>
syncVars == <<pc, on, rem, sent, todo, hide, seen, lateCreate, lateUpload, lateComplete, faults>>
vars     == <<storeVars, syncVars>>

SyncPC    == {"begin", "read", "create", "bind", "upload", "complete", "mark", "failed"}
RefreshPC == {"list", "look", "rehydrate", "join", "hide", "fetch", "store", "hydrate"}

TypeOK ==
  /\ StoreTypeOK
  /\ pc \in [Task -> {"idle", "next"} \cup SyncPC \cup RefreshPC]
  /\ on \in [Task -> Ride \cup {Nil}]
  /\ rem \in [Task -> Remote \cup {Nil}]
  /\ sent \in [Task -> Nat]
  /\ todo \in SUBSET Ride
  /\ hide \in [Task -> SUBSET Remote]
  /\ seen \in [Task -> SUBSET Remote]
  /\ lateCreate \in SUBSET Ride
  /\ lateUpload \in SUBSET (Remote \X (Nat \ {0}))
  /\ lateComplete \in SUBSET Remote
  /\ faults \in 0 .. MaxFaults

SyncInit ==
  /\ pc = [t \in Task |-> "idle"]
  /\ on = [t \in Task |-> Nil]
  /\ rem = [t \in Task |-> Nil]
  /\ sent = [t \in Task |-> 0]
  /\ todo = {}
  /\ hide = [t \in Task |-> {}]
  /\ seen = [t \in Task |-> {}]
  /\ lateCreate = {} /\ lateUpload = {} /\ lateComplete = {}
  /\ faults = 0

Init == StoreInit /\ SyncInit

Goto(t, l) == pc' = [pc EXCEPT ![t] = l]

(* syncSession returned or threw: its locals are gone, and the pass, which  *)
(* catches everything, takes its next ride.                                 *)
AfterSync(t) == IF t = Pass THEN "next" ELSE "idle"

SyncReturns(t) ==
  /\ Goto(t, AfterSync(t))
  /\ on' = [on EXCEPT ![t] = Nil]
  /\ rem' = [rem EXCEPT ![t] = Nil]
  /\ sent' = [sent EXCEPT ![t] = 0]

-----------------------------------------------------------------------------
(* Recording, as far as the row's state shows it.                           *)

Recording == {x \in Ride : state[x] = "recording"}

StartRide(x) ==
  /\ state[x] = "none"
  /\ \A y \in Ride : state[y] \notin InProgress
  /\ state' = [state EXCEPT ![x] = "recording"]
  /\ UNCHANGED <<remote, tomb, cache, serverVars, syncVars>>

(* Mutant: the pause of a lost permission does not look at the row.         *)
PauseRideUnchecked(x) ==
  /\ Present(x)
  /\ SetState(x, "paused")
  /\ UNCHANGED <<remote, tomb, cache, serverVars, syncVars>>

PauseRide(x) ==
  /\ state[x] = "recording"
  /\ SetState(x, "paused")
  /\ UNCHANGED <<remote, tomb, cache, serverVars, syncVars>>

ResumeRide(x) ==
  /\ state[x] = "paused"
  /\ SetState(x, "recording")
  /\ UNCHANGED <<remote, tomb, cache, serverVars, syncVars>>

(* Mutant: the legacy state is written without canonicalising it.           *)
FinishRideLegacy(x) ==
  /\ state[x] \in InProgress
  /\ SetState(x, "locallyCompleted")
  /\ UNCHANGED <<remote, tomb, cache, serverVars, syncVars>>

FinishRide(x) ==
  /\ state[x] \in InProgress
  /\ SetState(x, "syncPending")
  /\ UNCHANGED <<remote, tomb, cache, serverVars, syncVars>>

-----------------------------------------------------------------------------
(* Who starts a task.                                                       *)

(* Mutant: an attempt a crash has left in "syncing" is not listed.          *)
PassBeginPendingOnly ==
  /\ pc[Pass] = "idle"
  /\ Recording = {}
  /\ todo' = {x \in Ride : state[x] \in {"syncPending", "syncFailed"}}
  /\ Goto(Pass, "next")
  /\ UNCHANGED <<storeVars, on, rem, sent, hide, seen, netVars>>

(* runPendingSyncPass, past the recording and the in-flight checks.         *)
PassBegin ==
  /\ pc[Pass] = "idle"
  /\ Recording = {}
  /\ todo' = {x \in Ride : state[x] \in Unsynced}
  /\ Goto(Pass, "next")
  /\ UNCHANGED <<storeVars, on, rem, sent, hide, seen, netVars>>

PassTakesRide ==
  /\ pc[Pass] = "next"
  /\ \E x \in todo :
       /\ todo' = todo \ {x}
       /\ IF Present(x)
            THEN Goto(Pass, "begin") /\ on' = [on EXCEPT ![Pass] = x]
            ELSE UNCHANGED <<pc, on>>
  /\ UNCHANGED <<storeVars, rem, sent, hide, seen, netVars>>

(* Mutant: the pass ends without a refresh of the history.                  *)
PassEndsWithoutRefresh ==
  /\ pc[Pass] = "next"
  /\ todo = {}
  /\ Goto(Pass, "idle")
  /\ UNCHANGED <<storeVars, on, rem, sent, todo, hide, seen, netVars>>

PassTurnsToRefresh ==
  /\ pc[Pass] = "next"
  /\ todo = {}
  /\ Goto(Pass, "join")
  /\ UNCHANGED <<storeVars, on, rem, sent, todo, hide, seen, netVars>>

(* The button shows for a finished, unsynced ride, but the screen shows     *)
(* the row as it was when it was opened: a ride synced since can be pressed.*)
ButtonPressed(t, x) ==
  /\ pc[t] = "idle"
  /\ state[x] \in Unsynced \cup {"synced"}
  /\ on' = [on EXCEPT ![t] = x]
  /\ Goto(t, "begin")
  /\ UNCHANGED <<storeVars, rem, sent, todo, hide, seen, netVars>>

ScreenOpens(t) ==
  /\ pc[t] = "idle"
  /\ Goto(t, "list")
  /\ UNCHANGED <<storeVars, on, rem, sent, todo, hide, seen, netVars>>

-----------------------------------------------------------------------------
(* syncSession, await by await.                                             *)

BeginAttempt(t) ==
  /\ pc[t] = "begin"
  /\ SetState(on[t], "syncing")
  /\ Goto(t, "read")
  /\ UNCHANGED <<remote, tomb, cache, serverVars, on, rem, sent, todo, hide, seen, netVars>>

(* Mutant: every attempt asks for a draft of its own.                       *)
ReadRowForgets(t) ==
  /\ pc[t] = "read"
  /\ IF Present(on[t])
       THEN Goto(t, "create") /\ UNCHANGED <<on, rem, sent>>
       ELSE SyncReturns(t)
  /\ UNCHANGED <<storeVars, todo, hide, seen, netVars>>

(* The row is read back; without a remote id a draft is asked for.  The     *)
(* StateError of a deleted row leaves the attempt without a further write.  *)
ReadRow(t) ==
  /\ pc[t] = "read"
  /\ IF Present(on[t])
       THEN /\ Goto(t, IF remote[on[t]] = Nil THEN "create" ELSE "upload")
            /\ rem' = [rem EXCEPT ![t] = remote[on[t]]]
            /\ UNCHANGED <<on, sent>>
       ELSE SyncReturns(t)
  /\ UNCHANGED <<storeVars, todo, hide, seen, netVars>>

DraftCreated(t) ==
  /\ pc[t] = "create"
  /\ \E r \in Remote :
       /\ CreateSession(on[t], r)
       /\ rem' = [rem EXCEPT ![t] = r]
  /\ Goto(t, "bind")
  /\ UNCHANGED <<rowVars, tomb, cache, on, sent, todo, hide, seen, netVars>>

BindDraft(t) ==
  /\ pc[t] = "bind"
  /\ BindRemote(on[t], rem[t])
  /\ Goto(t, "upload")
  /\ UNCHANGED <<tomb, cache, serverVars, on, rem, sent, todo, hide, seen, netVars>>

Uploading(t) == pc[t] = "upload" /\ sent[t] < Batches[on[t]]

BatchStored(t) ==
  /\ Uploading(t)
  /\ AcceptsUpload(rem[t])
  /\ StoreBatch(rem[t], sent[t] + 1)
  /\ sent' = [sent EXCEPT ![t] = @ + 1]
  /\ UNCHANGED <<rowVars, tomb, cache, pc, on, rem, todo, hide, seen, netVars>>

(* Mutant: a refused batch starts the attempt over.                         *)
BatchRefusedRetries(t) ==
  /\ Uploading(t)
  /\ ~AcceptsUpload(rem[t])
  /\ Goto(t, "begin")
  /\ sent' = [sent EXCEPT ![t] = 0]
  /\ UNCHANGED <<storeVars, on, rem, todo, hide, seen, netVars>>

(* 409 once the session is completed, 404 once it is deleted.               *)
BatchRefused(t) ==
  /\ Uploading(t)
  /\ ~AcceptsUpload(rem[t])
  /\ Goto(t, "failed")
  /\ UNCHANGED <<storeVars, on, rem, sent, todo, hide, seen, netVars>>

(* Mutant: the completion does not wait for the uploads.                    *)
ReadSummaryEarly(t) ==
  /\ pc[t] = "upload"
  /\ Goto(t, "complete")
  /\ UNCHANGED <<storeVars, on, rem, sent, todo, hide, seen, netVars>>

(* _completeSessionSync reads the row again for its summary.                *)
ReadSummary(t) ==
  /\ pc[t] = "upload" /\ ~(sent[t] < Batches[on[t]])
  /\ IF Present(on[t])
       THEN Goto(t, "complete") /\ UNCHANGED <<on, rem, sent>>
       ELSE SyncReturns(t)
  /\ UNCHANGED <<storeVars, todo, hide, seen, netVars>>

SessionCompleted(t) ==
  /\ pc[t] = "complete"
  /\ status[rem[t]] = "draft"
  /\ CompleteSession(rem[t])
  /\ Goto(t, "mark")
  /\ UNCHANGED <<rowVars, tomb, cache, on, rem, sent, todo, hide, seen, netVars>>

CompleteRefused(t) ==
  /\ pc[t] = "complete"
  /\ status[rem[t]] # "draft"
  /\ Goto(t, "failed")
  /\ UNCHANGED <<storeVars, on, rem, sent, todo, hide, seen, netVars>>

MarkSynced(t) ==
  /\ pc[t] = "mark"
  /\ SetState(on[t], "synced")
  /\ SyncReturns(t)
  /\ UNCHANGED <<remote, tomb, cache, serverVars, todo, hide, seen, netVars>>

MarkFailed(t) ==
  /\ pc[t] = "failed"
  /\ SetState(on[t], "syncFailed")
  /\ SyncReturns(t)
  /\ UNCHANGED <<remote, tomb, cache, serverVars, todo, hide, seen, netVars>>

-----------------------------------------------------------------------------
(* listLocalAndRemoteSessionHistory: what is cached and has no row yet gets  *)
(* one, and a refresh follows.  The row and cache reads are one step.       *)
ReadHidden(t) ==
  /\ pc[t] = "list"
  /\ hide' = [hide EXCEPT ![t] = HiddenByTombstone]
  /\ Goto(t, "look")
  /\ UNCHANGED <<storeVars, on, rem, sent, todo, seen, netVars>>

LookAtCache(t) ==
  LET cached     == cache \ hide[t]
      unhydrated == {r \in cached : RowsOf(r) = {}}
  IN  /\ pc[t] = "look"
      /\ seen' = [seen EXCEPT ![t] = IF unhydrated = {} THEN {} ELSE cached]
      /\ hide' = [hide EXCEPT ![t] = {}]
      /\ Goto(t, IF unhydrated = {} THEN "join" ELSE "rehydrate")
      /\ UNCHANGED <<storeVars, on, rem, sent, todo, netVars>>

(* refreshRemoteSessionHistoryCache, await by await.  It joins the pending-  *)
(* delete reconciliation first, which has no work here (see RideBook).      *)
JoinReconciliation(t) ==
  /\ pc[t] = "join"
  /\ Goto(t, "hide")
  /\ UNCHANGED <<storeVars, on, rem, sent, todo, hide, seen, netVars>>

ReadTombstones(t) ==
  /\ pc[t] = "hide"
  /\ hide' = [hide EXCEPT ![t] = HiddenByTombstone]
  /\ Goto(t, "fetch")
  /\ UNCHANGED <<storeVars, on, rem, sent, todo, seen, netVars>>

HistoryListed(t) ==
  /\ pc[t] = "fetch"
  /\ seen' = [seen EXCEPT ![t] = ListedAsHistory \ hide[t]]
  /\ hide' = [hide EXCEPT ![t] = {}]
  /\ Goto(t, "store")
  /\ UNCHANGED <<storeVars, on, rem, sent, todo, netVars>>

ReplaceCache(t) ==
  /\ pc[t] = "store"
  /\ cache' = seen[t]
  /\ Goto(t, IF seen[t] = {} THEN "idle" ELSE "hydrate")
  /\ UNCHANGED <<rowVars, tomb, serverVars, on, rem, sent, todo, hide, seen, netVars>>

(* _hydrateRemoteSessionSummaries: one upsert per listed session.           *)
HydrateRow(t, from, next) ==
  /\ pc[t] = from
  /\ \E r \in seen[t] :
       /\ UpsertSummary(r)
       /\ seen' = [seen EXCEPT ![t] = @ \ {r}]
       /\ Goto(t, IF seen[t] = {r} THEN next ELSE from)
  /\ UNCHANGED <<tomb, cache, serverVars, on, rem, sent, todo, hide, netVars>>

-----------------------------------------------------------------------------
(* The network and the process.                                             *)

(* What the requests of the tasks T leave behind when nobody waits for them.*)
Abandon(T) ==
  /\ lateCreate' = lateCreate \cup {on[t] : t \in {u \in T : pc[u] = "create"}}
  /\ lateUpload' = lateUpload \cup {<<rem[t], sent[t] + 1>> : t \in {u \in T : Uploading(u)}}
  /\ lateComplete' = lateComplete \cup {rem[t] : t \in {u \in T : pc[u] = "complete"}}
  /\ faults < MaxFaults
  /\ faults' = faults + 1

(* Mutant: a completion without an answer counts as done.                   *)
RequestLostIgnored(t) ==
  /\ pc[t] = "complete"
  /\ Abandon({t})
  /\ Goto(t, "mark")
  /\ UNCHANGED <<storeVars, on, rem, sent, todo, hide, seen>>

(* The client sees a DioException; a refresh ends there, quietly.           *)
RequestLost(t) ==
  /\ pc[t] \in {"create", "complete", "fetch"} \/ Uploading(t)
  /\ Abandon({t})
  /\ Goto(t, IF pc[t] = "fetch" THEN "idle" ELSE "failed")
  /\ hide' = [hide EXCEPT ![t] = {}]
  /\ UNCHANGED <<storeVars, on, rem, sent, todo, seen>>

(* The process is killed: only the database and the network remain.         *)
Crash ==
  /\ \E t \in Task : pc[t] # "idle"
  /\ Abandon(Task)
  /\ pc' = [t \in Task |-> "idle"]
  /\ on' = [t \in Task |-> Nil]
  /\ rem' = [t \in Task |-> Nil]
  /\ sent' = [t \in Task |-> 0]
  /\ todo' = {}
  /\ hide' = [t \in Task |-> {}]
  /\ seen' = [t \in Task |-> {}]
  /\ UNCHANGED storeVars

LateDraft(x) ==
  /\ x \in lateCreate
  /\ \E r \in Remote : CreateSession(x, r)
  /\ lateCreate' = lateCreate \ {x}
  /\ UNCHANGED <<rowVars, tomb, cache, taskVars, lateUpload, lateComplete, faults>>

LateBatch(m) ==
  /\ m \in lateUpload
  /\ AcceptsUpload(m[1])
  /\ StoreBatch(m[1], m[2])
  /\ lateUpload' = lateUpload \ {m}
  /\ UNCHANGED <<rowVars, tomb, cache, taskVars, lateCreate, lateComplete, faults>>

LateCompletion(r) ==
  /\ r \in lateComplete
  /\ status[r] = "draft"
  /\ CompleteSession(r)
  /\ lateComplete' = lateComplete \ {r}
  /\ UNCHANGED <<rowVars, tomb, cache, taskVars, lateCreate, lateUpload, faults>>

-----------------------------------------------------------------------------
PassStarts == PassBegin \/ PassTakesRide \/ PassTurnsToRefresh

SyncStep(t) ==
  \/ BeginAttempt(t) \/ ReadRow(t) \/ DraftCreated(t) \/ BindDraft(t)
  \/ BatchStored(t) \/ BatchRefused(t) \/ ReadSummary(t)
  \/ SessionCompleted(t) \/ CompleteRefused(t) \/ MarkSynced(t) \/ MarkFailed(t)

RefreshStep(t) ==
  \/ LookAtCache(t) \/ HydrateRow(t, "rehydrate", "join")
  \/ HistoryListed(t) \/ ReplaceCache(t) \/ HydrateRow(t, "hydrate", "idle")

(* The steps of a refresh that meet the reconciliation of pending deletes.  *)
MeetsReconciliation(t) == ReadHidden(t) \/ JoinReconciliation(t) \/ ReadTombstones(t)

UserStep ==
  \/ \E x \in Ride : StartRide(x) \/ PauseRide(x) \/ ResumeRide(x) \/ FinishRide(x)
  \/ \E t \in Buttons, x \in Ride : ButtonPressed(t, x)
  \/ \E t \in Screens : ScreenOpens(t)

LateStep ==
  \/ \E x \in lateCreate : LateDraft(x)
  \/ \E m \in lateUpload : LateBatch(m)
  \/ \E r \in lateComplete : LateCompletion(r)

Next ==
  \/ UserStep
  \/ PassStarts
  \/ \E t \in Task : SyncStep(t) \/ RefreshStep(t) \/ MeetsReconciliation(t) \/ RequestLost(t)
  \/ LateStep
  \/ Crash

(* The two-minute timer keeps starting passes, and a future that can run    *)
(* runs; users owe nothing, and a late request need never be executed.      *)
Fairness ==
  /\ WF_vars(PassStarts)
  /\ \A t \in Task : WF_vars(SyncStep(t) \/ RefreshStep(t) \/ MeetsReconciliation(t))

Spec     == Init /\ [][Next]_vars
FairSpec == Spec /\ Fairness
-----------------------------------------------------------------------------
(* Properties. *)

(* A session the server reports as completed holds every batch of the ride  *)
(* it was made for: whatever was retried, lost, or executed late, no ride   *)
(* is closed with points missing (syncSession uploads before it completes). *)
CompletedIsWhole == \A r \in Remote : status[r] = "completed" => Whole(r)

Saved(x) == \E r \in Remote : madeFor[r] = x /\ status[r] = "completed"

(* The phone calls a ride synced only when the server has it, completed: a  *)
(* ride that leaves the pending list is never only on the phone.            *)
SyncedIsSaved == \A x \in Ride : state[x] = "synced" => Saved(x)

(* A row points only at a session that was created for that very ride, and  *)
(* no two rows share one: hydration and binding never mix rides up.         *)
RowsPointAtOwnSession ==
  /\ \A x \in Ride : remote[x] # Nil => madeFor[remote[x]] = x
  /\ \A x, y \in Row : remote[x] = remote[y] /\ remote[x] # Nil => x = y

(* With one task per ride the server ends up with one copy of it: retries,  *)
(* lost answers and late requests leave at most drafts behind.              *)
NoDuplicateRide ==
  \A q, r \in Remote :
    status[q] = "completed" /\ status[r] = "completed" /\ madeFor[q] = madeFor[r] => q = r

(* The sync tasks keep the promise made to the rider (RideVault): no ride   *)
(* is called synced ahead of the server, and none is closed without upload. *)
ClaimOf(s) ==
  CASE s \in Absent     -> "none"
    [] s \in InProgress -> "open"
    [] s \in Unsynced   -> "owed"
    [] OTHER            -> "settled"

Vault == INSTANCE RideVault WITH
           claim <- [x \in Ride |-> ClaimOf(state[x])],
           vault <- {x \in Ride : Saved(x)}

KeepsThePromise == Vault!Spec

(* Once nobody records, every finished ride reaches the server, and the     *)
(* phone ends up saying so: a lost answer to a completion makes every later *)
(* attempt fail (409), and it is the history refresh that settles the row.  *)
FinishedRidesAreSaved ==
  <>[](Recording = {}) => \A x \in Ride : state[x] \in Unsynced ~> Saved(x)

FinishedRidesSettle ==
  <>[](Recording = {}) => \A x \in Ride : state[x] \in Unsynced ~> state[x] = "synced"

(* A pass never waits forever, so the single-flight flag is always released.*)
PassesEnd == pc[Pass] # "idle" ~> pc[Pass] = "idle"
-----------------------------------------------------------------------------
(* The inductive invariant behind CompletedIsWhole, SyncedIsSaved and       *)
(* RowsPointAtOwnSession (proved in RideSyncProofs).                        *)

Bound == {"bind", "upload", "complete", "mark"}

(* An attempt has a ride, and past the draft a session.                     *)
TasksHoldSomething ==
  \A t \in Task :
    /\ pc[t] \in SyncPC => on[t] \in Ride
    /\ pc[t] \in Bound => rem[t] \in Remote

(* Every task in an attempt has a ride, and past the draft a session of it. *)
TasksHoldOwnSession ==
  \A t \in Task :
    /\ pc[t] \in SyncPC => on[t] \in Ride
    /\ pc[t] \in Bound => rem[t] \in Remote /\ madeFor[rem[t]] = on[t]

(* sent counts what the server really holds, and completion needs it all.   *)
ProgressIsStored ==
  \A t \in Task :
    /\ pc[t] \notin {"upload", "complete", "mark", "failed"} => sent[t] = 0
    /\ pc[t] = "upload" => sent[t] <= Batches[on[t]] /\ 1 .. sent[t] \subseteq stored[rem[t]]
    /\ pc[t] \in {"complete", "mark"} => Whole(rem[t])
    /\ pc[t] = "mark" => status[rem[t]] = "completed"

(* Until it is bound, a draft is known to the task that asked for it alone. *)
UnboundIsPrivate ==
  \A t \in Task : pc[t] = "bind" =>
    /\ status[rem[t]] = "draft"
    /\ rem[t] \notin lateComplete
    /\ \A u \in Task \ {t} : pc[u] \in Bound => rem[u] # rem[t]
    /\ \A x \in Row : remote[x] # rem[t]

ServerIsSound ==
  /\ \A r \in Remote : status[r] = "absent" => madeFor[r] = Nil
  /\ \A r \in lateComplete : Whole(r)
  /\ CompletedIsWhole

PhoneIsSound ==
  /\ RowsPointAtOwnSession
  /\ \A r \in Remote : remote[r] # Nil => remote[r] = r /\ status[r] = "completed"
  /\ \A r \in cache : status[r] = "completed"
  /\ \A t \in Task : \A r \in seen[t] : status[r] = "completed"
  /\ SyncedIsSaved

(* Whatever reaches for the server is about a ride that was finished.       *)
Closed == {x \in Ride : state[x] \in Unsynced \cup {"synced"}}

OnlyClosedIsSent ==
  /\ todo \subseteq Closed
  /\ lateCreate \subseteq Closed
  /\ \A t \in Task : on[t] # Nil => on[t] \in Closed
  /\ \A r \in Remote : madeFor[r] # Nil => madeFor[r] \in Closed

(* A write of "synced", a completion and a binding are each prepared steps  *)
(* earlier by another statement; these are the facts that hold in between.  *)
IInv ==
  /\ TypeOK
  /\ TasksHoldOwnSession
  /\ ProgressIsStored
  /\ UnboundIsPrivate
  /\ ServerIsSound
  /\ PhoneIsSound
  /\ OnlyClosedIsSent
=============================================================================
