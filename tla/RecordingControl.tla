-------------------------- MODULE RecordingControl --------------------------
(***************************************************************************)
(* RecordingController: the buttons of the record screen, the location     *)
(* stream with its restarts and watchdog, permission checks and the row of *)
(* the ride, all on one Dart isolate.                                      *)
(*                                                                         *)
(* An action is what runs from an event (a tap, a timer, an answer of the  *)
(* platform, a sample) to the next await of the platform.  The database    *)
(* runs on the same isolate (NativeDatabase), so its statements are done   *)
(* in the microtasks of that event.  A future that stopped the stream goes *)
(* on in the same turn: "stopped" is taken before any other event.         *)
(*                                                                         *)
(* An epoch is only ever compared with the current one and never comes     *)
(* back, so the counter is modelled by who still holds the current epoch.  *)
(***************************************************************************)
EXTENDS Naturals, Sequences, FiniteSets

CONSTANTS
  Ride,       \* rows the recorder may create
  Stream,     \* names of location stream subscriptions
  Checks,     \* futures of refreshPermissionState
  Restarts,   \* futures of _queueLocationStreamRestart
  Op,         \* the future that holds _phaseTransitionInFlight
  Boots,      \* futures of bootstrap
  Nil,
  Retries,    \* RETRY PERMISSION, and the GPS monitor's reading that offers it
  MaxFaults,  \* bound on stream faults and failed writes
  MaxKills    \* bound on killed processes

Future == {Op} \cup Boots \cup Checks \cup Restarts

ASSUME RecorderAssumption ==
  /\ Nil \notin Ride \cup Stream \cup Future
  /\ Stream \cap Future = {}
  /\ Op \notin Boots \cup Checks \cup Restarts
  /\ Boots \cap Checks = {} /\ Boots \cap Restarts = {} /\ Checks \cap Restarts = {}
  /\ Retries \in BOOLEAN /\ MaxFaults \in Nat /\ MaxKills \in Nat

VARIABLES
  phase, session, candidate, auto,   \* RecordingViewState
  shown, told,            \* the permission on the screen, and the last one the GPS monitor read
  current,    \* futures and streams that captured the current epoch
  rideOf,     \* the session a future or a stream captured
  queued,     \* _locationStreamRestartQueued
  resync,     \* _needsPersistedProgressResync
  ahead,      \* the live progress counts a sample that is not stored
  sub,        \* _locationSubscription
  stopping,   \* _locationStreamStopping
  watch,      \* the watchdog timer is armed
  fresh,      \* the last sample's age against the watchdog's threshold
  started,    \* _currentStreamStartedAtUtc is set
  live,       \* subscriptions that still deliver
  waits,      \* waits[s]: futures that await the cancellation of s, in order
  pc, job,    \* what a future awaits, and which operation Op is
  prev,       \* previousPhase of the permission request
  row,        \* the state of the ride's row
  granted,    \* the permission the platform would answer
  faults, kills

rideVars   == <<session, candidate, auto>>
askVars    == <<shown, told>>
viewVars   == <<phase, rideVars, askVars>>
epochVars  == <<current, rideOf>>
fieldVars  == <<queued, resync, ahead, sub, stopping, watch, fresh, started>>
streamVars == <<live, waits>>
taskVars   == <<pc, job, prev>>
boundVars  == <<faults, kills>>
worldVars  == <<row, granted, boundVars>>
vars == <<viewVars, epochVars, fieldVars, streamVars, taskVars, worldVars>>

InProgress == {"recording", "paused"}
StartJobs  == {"start", "resume", "recover"}

ViewTypeOK ==
  /\ phase \in {"preRecord", "requestingPermissions", "ready", "recording", "paused", "finishing"}
  /\ session \in Ride \cup {Nil} /\ auto \in BOOLEAN
  /\ candidate \in Ride \cup {Nil}
  /\ shown \in BOOLEAN /\ told \in BOOLEAN
  /\ row \in [Ride -> {"none", "recording", "paused", "syncPending"}]
  /\ granted \in BOOLEAN
  /\ faults \in 0 .. MaxFaults /\ kills \in 0 .. MaxKills

FutureTypeOK ==
  /\ current \in SUBSET (Future \cup Stream)
  /\ rideOf \in [Future \cup Stream -> Ride \cup {Nil}]
  /\ pc \in [Future -> {"idle", "ask", "ready", "cancel", "stopped", "mode", "delay", "gps"}]
  /\ job \in StartJobs \cup {"none", "pause", "autoPause", "finish", "request"}
  /\ prev \in {"preRecord", "ready", "recording", "paused"}

StreamTypeOK ==
  /\ queued \in BOOLEAN /\ resync \in BOOLEAN /\ ahead \in BOOLEAN
  /\ sub \in Stream \cup {Nil} /\ stopping \in BOOLEAN
  /\ watch \in BOOLEAN /\ started \in BOOLEAN
  /\ fresh \in {"none", "recent", "stale"}
  /\ live \in SUBSET Stream
  /\ waits \in [Stream -> Seq(Future)]

RecTypeOK == ViewTypeOK /\ FutureTypeOK /\ StreamTypeOK

(* A process that has just started.                                         *)
ProcessStarts ==
  /\ phase = "preRecord" /\ session = Nil /\ candidate = Nil /\ auto = FALSE
  /\ shown = FALSE /\ told = granted
  /\ current = {} /\ rideOf = [f \in Future \cup Stream |-> Nil]
  /\ queued = FALSE /\ resync = FALSE /\ ahead = FALSE
  /\ sub = Nil /\ stopping = FALSE /\ watch = FALSE /\ fresh = "none" /\ started = FALSE
  /\ live = {} /\ waits = [s \in Stream |-> <<>>]
  /\ pc = [f \in Future |-> "idle"] /\ job = "none" /\ prev = "ready"

Init ==
  /\ granted \in BOOLEAN
  /\ ProcessStarts
  /\ row = [x \in Ride |-> "none"]
  /\ faults = 0 /\ kills = 0

-----------------------------------------------------------------------------
(* Helpers.                                                                 *)

(* Nothing is in the middle of a turn: the next event may be taken.         *)
Quiet == \A f \in Future : pc[f] # "stopped"

Active(f) == f \in current /\ phase = "recording" /\ session = rideOf[f]

Fault == faults < MaxFaults /\ faults' = faults + 1

Goto(f, l) == pc' = [pc EXCEPT ![f] = l]

(* The future returns; what it captured is gone, and Op lets the next       *)
(* operation in.                                                            *)
End(f) ==
  /\ Goto(f, "idle")
  /\ job' = IF f = Op THEN "none" ELSE job
  /\ rideOf' = [rideOf EXCEPT ![f] = Nil]

(* Mutant: the counter is not raised.                                       *)
NewEpochShared(holders) ==
  current' = current \cup holders /\ queued' = FALSE /\ resync' = FALSE

(* _beginNewRecordingEpoch and _invalidateRecordingEpoch; holders are those *)
(* who capture the new epoch in the same turn.                              *)
NewEpoch(holders) == current' = holders /\ queued' = FALSE /\ resync' = FALSE

(* _stopLocationStream up to its await.                                     *)
Stop(f) ==
  /\ watch' = FALSE /\ started' = FALSE
  /\ IF sub = Nil
       THEN Goto(f, "stopped") /\ UNCHANGED <<live, stopping, waits>>
       ELSE /\ live' = live \ {sub}
            /\ stopping' = TRUE
            /\ waits' = [waits EXCEPT ![sub] = Append(@, f)]
            /\ Goto(f, "cancel")

(* The cancellation is confirmed or has timed out.  The futures that wait   *)
(* for the same subscription are resumed in the order they asked.           *)
CancelEnds(f) ==
  /\ Quiet
  /\ \E s \in Stream :
       /\ waits[s] # <<>> /\ f = Head(waits[s])
       /\ waits' = [waits EXCEPT ![s] = Tail(@)]
       /\ rideOf' = [rideOf EXCEPT ![s] = Nil] /\ current' = current \ {s}
  /\ sub' = Nil /\ stopping' = FALSE
  /\ Goto(f, "stopped")
  /\ UNCHANGED <<viewVars, queued, resync, ahead, watch, fresh, started, live, job, prev, worldVars>>

-----------------------------------------------------------------------------
(* The buttons.  One operation at a time: Op is _phaseTransitionInFlight.   *)

Tap(j) == Quiet /\ pc[Op] = "idle" /\ job' = j

(* The screen exists, and the recovery prompt does not cover it.            *)
OnScreen == phase # "preRecord" /\ candidate = Nil

StartRecording ==
  /\ Tap("start") /\ OnScreen
  /\ phase \in {"preRecord", "ready"}
  /\ Goto(Op, "ask")
  /\ UNCHANGED <<viewVars, epochVars, fieldVars, streamVars, prev, worldVars>>

Resume ==
  /\ Tap("resume") /\ OnScreen
  /\ phase = "paused" /\ session # Nil
  /\ rideOf' = [rideOf EXCEPT ![Op] = session]
  /\ Goto(Op, "ask")
  /\ UNCHANGED <<viewVars, current, fieldVars, streamVars, prev, worldVars>>

ResumeRecovered ==
  /\ Tap("recover")
  /\ candidate # Nil
  /\ rideOf' = [rideOf EXCEPT ![Op] = candidate]
  /\ Goto(Op, "ask")
  /\ UNCHANGED <<viewVars, current, fieldVars, streamVars, prev, worldVars>>

DiscardRecovery ==
  /\ Quiet
  /\ candidate # Nil /\ candidate' = Nil
  /\ UNCHANGED <<phase, session, auto, askVars, epochVars, fieldVars, streamVars, taskVars, worldVars>>

(* Mutant: a request may be made during a request.                          *)
RequestPermissionsAnytime ==
  /\ Retries /\ Tap("request") /\ OnScreen
  /\ ~shown
  /\ prev' = phase
  /\ phase' = "requestingPermissions"
  /\ Goto(Op, "ask")
  /\ UNCHANGED <<session, candidate, auto, askVars, epochVars, fieldVars, streamVars, worldVars>>

(* The banner's RETRY PERMISSION.                                           *)
RequestPermissions ==
  /\ Retries /\ Tap("request") /\ OnScreen
  /\ ~shown
  /\ phase \notin {"requestingPermissions", "finishing"}
  /\ prev' = phase
  /\ phase' = "requestingPermissions"
  /\ Goto(Op, "ask")
  /\ UNCHANGED <<session, candidate, auto, askVars, epochVars, fieldVars, streamVars, worldVars>>

Pause ==
  /\ Tap("pause") /\ OnScreen
  /\ phase = "recording"
  /\ NewEpoch({})
  /\ rideOf' = [rideOf EXCEPT ![Op] = session]
  /\ Stop(Op)
  /\ UNCHANGED <<viewVars, ahead, sub, fresh, prev, worldVars>>

Finish ==
  /\ Tap("finish") /\ OnScreen
  /\ phase \in {"recording", "paused"} /\ session # Nil
  /\ phase' = "finishing"
  /\ NewEpoch({})
  /\ rideOf' = [rideOf EXCEPT ![Op] = session]
  /\ Stop(Op)
  /\ UNCHANGED <<session, candidate, auto, askVars, ahead, sub, fresh, prev, worldVars>>

-----------------------------------------------------------------------------
(* What the operations do with the platform's answers.                      *)

AskedFor(j) == Quiet /\ pc[Op] = "ask" /\ job = j

(* startRecording, resume: nothing is written between the answer on the     *)
(* permission and the answer on readiness, which are taken as one.          *)
NotReady ==
  /\ AskedFor("start") \/ AskedFor("resume")
  /\ shown' = (shown /\ granted)
  /\ End(Op)
  /\ UNCHANGED <<told, phase, session, candidate, auto, current, fieldVars, streamVars, prev, worldVars>>

(* A permission lost while recording goes to _pauseRecordingForPermission-  *)
(* Loss, which finds the phase the request itself has set.                  *)
RequestAnswered ==
  /\ AskedFor("request")
  /\ shown' = granted
  /\ phase' = IF prev = "recording" /\ ~granted THEN phase
              ELSE IF prev = "preRecord" THEN "ready" ELSE prev
  /\ Goto(Op, "gps")
  /\ prev' = "ready"
  /\ UNCHANGED <<told, session, candidate, auto, epochVars, fieldVars, streamVars, job, worldVars>>

(* The request ends with refreshGpsSignal.                                  *)
RequestEnds ==
  /\ Quiet /\ pc[Op] = "gps"
  /\ End(Op)
  /\ UNCHANGED <<viewVars, current, fieldVars, streamVars, prev, worldVars>>

(* The candidate is still as bootstrap found it: the prompt covers the       *)
(* screen until it is answered.  Without the permission the ride is paused. *)
RecoveryAnswered ==
  /\ AskedFor("recover")
  /\ LET x == rideOf[Op]
         state == IF granted THEN row[x] ELSE "paused" IN
       /\ row' = [row EXCEPT ![x] = state]
       /\ session' = x /\ candidate' = Nil /\ shown' = granted
       /\ phase' = state
       /\ IF state = "recording"
            THEN Goto(Op, "ready") /\ UNCHANGED <<job, rideOf>>
            ELSE End(Op)
  /\ NewEpoch({})
  /\ ahead' = FALSE /\ fresh' = "none"
  /\ UNCHANGED <<told, auto, sub, stopping, watch, started, streamVars, prev, granted, boundVars>>

StartReady ==
  /\ AskedFor("start") /\ granted
  /\ \E x \in Ride :
       /\ IF session # Nil
            THEN x = session /\ UNCHANGED <<row, ahead>>
            ELSE row[x] = "none" /\ row' = [row EXCEPT ![x] = "recording"] /\ ahead' = FALSE
       /\ session' = x
       /\ rideOf' = [rideOf EXCEPT ![Op] = x]
  /\ phase' = "recording" /\ shown' = TRUE /\ fresh' = "none"
  /\ NewEpoch({Op})
  /\ Stop(Op)
  /\ UNCHANGED <<told, candidate, auto, sub, job, prev, granted, boundVars>>

(* The epoch begins before the row is written; a row that is not paused     *)
(* makes resumeLocalSession throw.                                          *)
ResumeReady ==
  /\ AskedFor("resume") /\ granted
  /\ fresh' = "none"
  /\ LET x == rideOf[Op] IN
       IF row[x] = "paused"
         THEN /\ NewEpoch({Op})
              /\ row' = [row EXCEPT ![x] = "recording"]
              /\ session' = x /\ phase' = "recording" /\ auto' = FALSE /\ shown' = TRUE
              /\ Stop(Op)
              /\ UNCHANGED <<job, rideOf>>
         ELSE /\ NewEpoch({})
              /\ End(Op)
              /\ UNCHANGED <<row, session, phase, auto, shown, watch, started, stopping, streamVars>>
  /\ UNCHANGED <<told, candidate, ahead, sub, prev, granted, boundVars>>

RecoveryReady ==
  /\ Quiet /\ pc[Op] = "ready" /\ job = "recover"
  /\ current' = current \cup {Op}
  /\ rideOf' = [rideOf EXCEPT ![Op] = session]
  /\ Stop(Op)
  /\ UNCHANGED <<viewVars, queued, resync, ahead, sub, fresh, job, prev, worldVars>>

RecoveryNotReady ==
  /\ Quiet /\ pc[Op] = "ready" /\ job = "recover"
  /\ NewEpoch({})
  /\ LET x == rideOf[Op] IN
       IF row[x] = "recording"
         THEN row' = [row EXCEPT ![x] = "paused"] /\ session' = x /\ phase' = "paused"
         ELSE UNCHANGED <<row, session, phase>>
  /\ End(Op)
  /\ UNCHANGED <<candidate, auto, askVars, ahead, sub, stopping, watch, fresh, started, streamVars, prev, granted, boundVars>>

-----------------------------------------------------------------------------
(* What follows a stopped stream, in the same turn.                         *)

(* Mutant: no finally, a pause that throws keeps the transition flag.       *)
PauseStoppedOnce ==
  /\ pc[Op] = "stopped" /\ job \in {"pause", "autoPause"}
  /\ LET x == rideOf[Op] IN
       IF row[x] = "recording"
         THEN /\ row' = [row EXCEPT ![x] = "paused"]
              /\ session' = x /\ phase' = "paused" /\ auto' = (job = "autoPause")
              /\ End(Op)
         ELSE /\ Goto(Op, "ask")
              /\ UNCHANGED <<row, session, phase, auto, rideOf, job>>
  /\ UNCHANGED <<candidate, askVars, current, fieldVars, streamVars, prev, granted, boundVars>>

(* pauseLocalSession throws for a row that is not recording; the operation  *)
(* then ends without a further write.                                       *)
PauseStopped ==
  /\ pc[Op] = "stopped" /\ job \in {"pause", "autoPause"}
  /\ LET x == rideOf[Op] IN
       IF row[x] = "recording"
         THEN /\ row' = [row EXCEPT ![x] = "paused"]
              /\ session' = x /\ phase' = "paused" /\ auto' = (job = "autoPause")
         ELSE UNCHANGED <<row, session, phase, auto>>
  /\ End(Op)
  /\ UNCHANGED <<candidate, askVars, current, fieldVars, streamVars, prev, granted, boundVars>>

(* Mutant: _resetSession is forgotten.                                      *)
FinishStoppedKeeps ==
  /\ pc[Op] = "stopped" /\ job = "finish"
  /\ row[rideOf[Op]] \in InProgress
  /\ row' = [row EXCEPT ![rideOf[Op]] = "syncPending"]
  /\ phase' = "ready"
  /\ NewEpoch({})
  /\ fresh' = "none" /\ watch' = FALSE /\ started' = FALSE
  /\ End(Op)
  /\ UNCHANGED <<session, candidate, auto, askVars, ahead, sub, stopping, streamVars, prev, granted, boundVars>>

FinishStopped ==
  /\ pc[Op] = "stopped" /\ job = "finish"
  /\ row[rideOf[Op]] \in InProgress
  /\ row' = [row EXCEPT ![rideOf[Op]] = "syncPending"]
  /\ phase' = "ready" /\ session' = Nil
  /\ NewEpoch({})
  /\ fresh' = "none" /\ watch' = FALSE /\ started' = FALSE
  /\ End(Op)
  /\ UNCHANGED <<candidate, auto, askVars, ahead, sub, stopping, streamVars, prev, granted, boundVars>>

(* finishLocalSession threw: a refused transition or a failed write.        *)
FinishFailed ==
  /\ pc[Op] = "stopped" /\ job = "finish"
  /\ IF row[rideOf[Op]] \in InProgress THEN Fault ELSE UNCHANGED faults
  /\ phase' = "paused"
  /\ End(Op)
  /\ UNCHANGED <<session, candidate, auto, askVars, current, fieldVars, streamVars, prev, row, granted, kills>>

(* Mutant: the row is paused without asking the state machine.              *)
LossStoppedUnchecked(c) ==
  /\ pc[c] = "stopped"
  /\ row' = [row EXCEPT ![rideOf[c]] = "paused"]
  /\ session' = rideOf[c] /\ phase' = "paused" /\ shown' = FALSE
  /\ End(c)
  /\ UNCHANGED <<told, candidate, auto, current, fieldVars, streamVars, prev, granted, boundVars>>

(* Mutant: the screen is left as it was.                                    *)
LossStoppedQuietly(c) ==
  /\ pc[c] = "stopped"
  /\ LET x == rideOf[c] IN
       row' = IF row[x] = "recording" THEN [row EXCEPT ![x] = "paused"] ELSE row
  /\ End(c)
  /\ UNCHANGED <<viewVars, current, fieldVars, streamVars, prev, granted, boundVars>>

LossStopped(c) ==
  /\ pc[c] = "stopped"
  /\ LET x == rideOf[c] IN
       IF row[x] = "recording"
         THEN /\ row' = [row EXCEPT ![x] = "paused"]
              /\ session' = x /\ phase' = "paused" /\ shown' = FALSE
              /\ End(c)
         ELSE End(c) /\ UNCHANGED <<row, session, phase, shown>>
  /\ UNCHANGED <<told, candidate, auto, current, fieldVars, streamVars, prev, granted, boundVars>>

(* _startLocationStream after its stop.                                     *)
Starter(f) == f \in Restarts \/ (f = Op /\ job \in StartJobs)

StartGoesOn(f) ==
  /\ pc[f] = "stopped" /\ Starter(f)
  /\ IF Active(f)
       THEN Goto(f, "mode") /\ queued' = FALSE /\ stopping' = FALSE /\ UNCHANGED <<job, rideOf>>
       ELSE /\ End(f)
            /\ queued' = (queued /\ f \notin Restarts)
            /\ UNCHANGED stopping
  /\ current' = IF Active(f) THEN current ELSE current \ {f}
  /\ UNCHANGED <<viewVars, resync, ahead, sub, watch, fresh, started, streamVars, prev, worldVars>>

StreamStarts(f) ==
  /\ Quiet /\ pc[f] = "mode"
  /\ Active(f)
  /\ \E s \in Stream :
       /\ s \notin live /\ s # sub /\ waits[s] = <<>>
       /\ sub' = s /\ live' = live \cup {s}
       /\ current' = (current \ {f}) \cup {s}
       /\ rideOf' = [rideOf EXCEPT ![s] = rideOf[f], ![f] = Nil]
  /\ started' = TRUE /\ watch' = TRUE
  /\ queued' = (queued /\ f \notin Restarts)
  /\ Goto(f, "idle")
  /\ job' = IF f = Op THEN "none" ELSE job
  /\ UNCHANGED <<viewVars, resync, ahead, stopping, fresh, waits, prev, worldVars>>

StartIsLate(f) ==
  /\ Quiet /\ pc[f] = "mode"
  /\ ~Active(f)
  /\ queued' = (queued /\ f \notin Restarts)
  /\ End(f) /\ current' = current \ {f}
  /\ UNCHANGED <<viewVars, resync, ahead, sub, stopping, watch, fresh, started, streamVars, prev, worldVars>>

(* setTrackingMode threw: a restart is queued.  One that a restart queues   *)
(* loses its flag when that restart returns.                                *)
StartFails(f) ==
  /\ Quiet /\ pc[f] = "mode"
  /\ Active(f)
  /\ Fault
  /\ \E r \in Restarts :
       /\ IF f \in Restarts THEN r = f ELSE pc[r] = "idle"
       /\ pc' = [pc EXCEPT ![f] = "idle", ![r] = "delay"]
       /\ current' = (current \ {f}) \cup {r}
       /\ rideOf' = [rideOf EXCEPT ![f] = Nil, ![r] = rideOf[f]]
  /\ queued' = (f \notin Restarts)
  /\ job' = IF f = Op THEN "none" ELSE job
  /\ UNCHANGED <<viewVars, resync, ahead, sub, stopping, watch, fresh, started, streamVars, prev, row, granted, kills>>

-----------------------------------------------------------------------------
(* Samples, stream faults, restarts and the watchdog.                       *)

(* _onLocation of an active stream: the progress counts the sample, then    *)
(* the point is stored if the row is recording.  A resync rebuilds the      *)
(* progress from what is stored first.                                      *)
SampleArrives(s) ==
  /\ Quiet /\ s \in live /\ Active(s)
  /\ fresh' = "recent" /\ watch' = TRUE
  /\ \/ /\ ahead' = ((ahead /\ ~resync) \/ row[session] # "recording")
        /\ resync' = FALSE
        /\ UNCHANGED faults
     \/ Fault /\ ahead' = TRUE /\ resync' = TRUE
  /\ UNCHANGED <<viewVars, epochVars, queued, sub, stopping, started, streamVars, taskVars, row, granted, kills>>

(* A stored sample closes the stillness window: _onLocation calls pause().  *)
AutoPause(s) ==
  /\ Tap("autoPause")
  /\ s \in live /\ Active(s)
  /\ ahead' = ((ahead /\ ~resync) \/ row[session] # "recording")
  /\ fresh' = "recent"
  /\ NewEpoch({})
  /\ rideOf' = [rideOf EXCEPT ![Op] = session]
  /\ Stop(Op)
  /\ UNCHANGED <<viewVars, sub, prev, worldVars>>

(* _queueLocationStreamRestart up to its delay; asked by someone active.    *)
QueueRestart ==
  IF queued
    THEN UNCHANGED <<queued, pc, rideOf>> /\ current' = current \cap (Future \cup live')
    ELSE \E r \in Restarts :
           /\ pc[r] = "idle" /\ Goto(r, "delay")
           /\ rideOf' = [rideOf EXCEPT ![r] = session]
           /\ current' = (current \cap (Future \cup live')) \cup {r}
           /\ queued' = TRUE

(* onDone, and onError of a stream that goes on.                            *)
StreamBreaks(s) ==
  /\ Quiet /\ s \in live
  /\ Fault
  /\ live' \in {live, live \ {s}}
  /\ IF Active(s) /\ (s \in live' \/ ~stopping)
       THEN QueueRestart
       ELSE UNCHANGED <<queued, pc, rideOf>> /\ current' = current \cap (Future \cup live')
  /\ stopping' = (stopping /\ s \in live')
  /\ UNCHANGED <<viewVars, resync, ahead, sub, watch, fresh, started, waits, job, prev, row, granted, kills>>

(* Mutant: a restart that is not needed any more leaves its flag.           *)
DelayEndsQueued(r) ==
  /\ Quiet /\ pc[r] = "delay"
  /\ IF Active(r) /\ fresh # "recent"
       THEN Stop(r) /\ UNCHANGED <<job, rideOf, current>>
       ELSE /\ End(r)
            /\ current' = current \ {r}
            /\ UNCHANGED <<watch, started, stopping, streamVars>>
  /\ UNCHANGED <<viewVars, queued, resync, ahead, sub, fresh, prev, worldVars>>

DelayEnds(r) ==
  /\ Quiet /\ pc[r] = "delay"
  /\ IF Active(r) /\ fresh # "recent"
       THEN Stop(r) /\ UNCHANGED <<queued, job, rideOf, current>>
       ELSE /\ End(r)
            /\ queued' = FALSE /\ current' = current \ {r}
            /\ UNCHANGED <<watch, started, stopping, streamVars>>
  /\ UNCHANGED <<viewVars, resync, ahead, sub, fresh, prev, worldVars>>

SampleAges ==
  /\ fresh = "recent" /\ fresh' = "stale"
  /\ UNCHANGED <<viewVars, epochVars, queued, resync, ahead, sub, stopping, watch, started, streamVars, taskVars, worldVars>>

(* The timer is armed again only by a started stream or a sample.  Waiting  *)
(* for the first sample and the cool-down only make it fire later.          *)
WatchdogFires ==
  /\ Quiet /\ watch
  /\ fresh = "stale" \/ (fresh = "none" /\ started)
  /\ watch' = FALSE
  /\ live' = live
  /\ IF phase = "recording"
       THEN QueueRestart
       ELSE UNCHANGED <<queued, pc, epochVars>>
  /\ UNCHANGED <<viewVars, resync, ahead, sub, stopping, fresh, started, waits, job, prev, worldVars>>

-----------------------------------------------------------------------------
(* Permission checks, the GPS indicator, the record screen, the process.    *)

AppResumed(c) ==
  /\ Quiet /\ pc[c] = "idle"
  /\ Goto(c, "ask")
  /\ UNCHANGED <<viewVars, epochVars, fieldVars, streamVars, job, prev, worldVars>>

(* The check is over, or turns into _pauseRecordingForPermissionLoss.       *)
CheckAnswered(c) ==
  /\ Quiet /\ pc[c] = "ask"
  /\ IF phase = "recording" /\ ~granted
       THEN /\ NewEpoch({})
            /\ rideOf' = [rideOf EXCEPT ![c] = session]
            /\ Stop(c)
            /\ UNCHANGED <<shown, job>>
       ELSE /\ shown' = granted
            /\ End(c)
            /\ UNCHANGED <<current, queued, resync, watch, started, stopping, streamVars>>
  /\ UNCHANGED <<told, phase, session, candidate, auto, ahead, sub, fresh, prev, worldVars>>

(* refreshGpsSignal writes the permission that it read before it waited for *)
(* a fix.  Checks, operations and the screen's ticker keep asking for one.  *)
GpsAsks ==
  /\ Retries /\ Quiet
  /\ told # granted /\ told' = granted
  /\ UNCHANGED <<phase, rideVars, shown, epochVars, fieldVars, streamVars, taskVars, worldVars>>

GpsShown ==
  /\ Quiet
  /\ shown # told /\ shown' = told
  /\ UNCHANGED <<phase, rideVars, told, epochVars, fieldVars, streamVars, taskVars, worldVars>>

(* The record screen is created: when it is first opened, and again when    *)
(* someone signs in again, which outlasts whatever was in flight, the       *)
(* prompt included.  With a ride in progress it only asks for permission.   *)
Bootstrap(b) ==
  /\ Quiet /\ pc[b] = "idle"
  /\ phase = "preRecord" \/ (OnScreen /\ \A f \in Future : pc[f] = "idle")
  /\ Goto(b, "ask")
  /\ IF session # Nil
       THEN rideOf' = [rideOf EXCEPT ![b] = session] /\ UNCHANGED phase
       ELSE phase' = "requestingPermissions" /\ UNCHANGED rideOf
  /\ UNCHANGED <<session, candidate, auto, askVars, current, fieldVars, streamVars, job, prev, worldVars>>

BootAnswered(b) ==
  /\ Quiet /\ pc[b] = "ask"
  /\ shown' = granted
  /\ IF rideOf[b] # Nil
       THEN UNCHANGED <<phase, candidate>>
       ELSE \/ /\ \A x \in Ride : row[x] \notin InProgress
               /\ phase' = "ready" /\ UNCHANGED candidate
            \/ \E x \in Ride :
                 /\ row[x] \in InProgress
                 /\ candidate' = x
                 /\ phase' = IF row[x] = "paused" THEN "paused" ELSE "ready"
  /\ End(b)
  /\ UNCHANGED <<told, session, auto, current, fieldVars, streamVars, prev, worldVars>>

PermissionChanges ==
  /\ granted' = ~granted
  /\ UNCHANGED <<viewVars, epochVars, fieldVars, streamVars, taskVars, row, boundVars>>

Killed ==
  /\ kills < MaxKills /\ kills' = kills + 1
  /\ phase # "preRecord"
  /\ phase' = "preRecord" /\ session' = Nil /\ candidate' = Nil /\ auto' = FALSE
  /\ shown' = FALSE /\ told' = granted
  /\ current' = {} /\ rideOf' = [f \in Future \cup Stream |-> Nil]
  /\ queued' = FALSE /\ resync' = FALSE /\ ahead' = FALSE
  /\ sub' = Nil /\ stopping' = FALSE /\ watch' = FALSE /\ fresh' = "none" /\ started' = FALSE
  /\ live' = {} /\ waits' = [s \in Stream |-> <<>>]
  /\ pc' = [f \in Future |-> "idle"] /\ job' = "none" /\ prev' = "ready"
  /\ UNCHANGED <<row, granted, faults>>

-----------------------------------------------------------------------------
Buttons ==
  \/ StartRecording \/ Resume \/ ResumeRecovered \/ DiscardRecovery
  \/ RequestPermissions \/ Pause \/ Finish

OpSteps ==
  \/ NotReady \/ StartReady \/ ResumeReady
  \/ RecoveryAnswered \/ RecoveryReady \/ RecoveryNotReady
  \/ RequestAnswered \/ RequestEnds
  \/ PauseStopped \/ FinishStopped

StreamSteps(f) == CancelEnds(f) \/ StartGoesOn(f) \/ StreamStarts(f) \/ StartIsLate(f)

CheckSteps(c) == CheckAnswered(c) \/ LossStopped(c)

Environment ==
  \/ \E s \in Stream : SampleArrives(s) \/ AutoPause(s) \/ StreamBreaks(s)
  \/ \E f \in {Op} \cup Restarts : StartFails(f)
  \/ \E c \in Checks : AppResumed(c)
  \/ \E b \in Boots : Bootstrap(b)
  \/ FinishFailed \/ SampleAges \/ GpsAsks \/ GpsShown \/ PermissionChanges \/ Killed

Next ==
  \/ Buttons
  \/ OpSteps
  \/ \E f \in Future : StreamSteps(f)
  \/ \E c \in Checks : CheckSteps(c)
  \/ \E b \in Boots : BootAnswered(b)
  \/ \E r \in Restarts : DelayEnds(r)
  \/ WatchdogFires
  \/ Environment

Spec == Init /\ [][Next]_vars

(* Weak fairness: the platform answers or is given up after 4 s, a delay is *)
(* 2 s, the timers fire, a resumed future runs.  A stream that is alive and *)
(* active may deliver for ever, so samples age only when there is none.     *)
(* Nobody must tap, nothing must fail, and the permission need not change.  *)
Fairness ==
  /\ WF_vars(OpSteps \/ StreamSteps(Op))
  /\ \A c \in Checks : WF_vars(CheckSteps(c) \/ StreamSteps(c))
  /\ \A r \in Restarts : WF_vars(DelayEnds(r) \/ StreamSteps(r))
  /\ \A b \in Boots : WF_vars(BootAnswered(b))
  /\ WF_vars(WatchdogFires) /\ WF_vars(SampleAges /\ \A s \in live : ~Active(s))

FairSpec == Spec /\ Fairness

-----------------------------------------------------------------------------
(* Properties. *)

(* finish, a permission loss and an auto-pause each wait for the stream and *)
(* then write the row: whoever comes last, a finished ride stays finished.  *)
FinishedStaysFinished ==
  [][\A x \in Ride : row[x] = "syncPending" => row'[x] = "syncPending"]_vars

(* The epoch check is enough: whoever passes it, a sample, a restart or an  *)
(* error of a stream, was started for the ride that is being recorded.      *)
EpochKeepsRide == \A f \in current : phase = "recording" => rideOf[f] = session

(* The controller never holds on to a ride that is over, across recoveries, *)
(* discarded prompts, failed finishes and killed processes.                 *)
ShownRideIsInProgress == session # Nil => row[session] \in InProgress

(* Without RETRY PERMISSION the screen and the row agree, also while a pause, *)
(* a loss or a finish waits for the stream: a screen that says "recording"   *)
(* stores points, and one that is ready has let go of its ride.              *)
RowFollowsScreen ==
  /\ phase = "recording" => session # Nil /\ row[session] = "recording"
  /\ phase = "ready" => session = Nil

(* Whatever breaks, errors, failed starts, silence or a restart that loses  *)
(* its turn, a ride that goes on being recorded has an active stream again. *)
RecordingIsServed ==
  phase = "recording" ~> phase # "recording" \/ \E s \in live : Active(s)

(* _phaseTransitionInFlight is given back: no answer, refused transition or *)
(* late restart leaves the buttons dead.                                    *)
OperationsEnd == pc[Op] # "idle" ~> pc[Op] = "idle"

-----------------------------------------------------------------------------
(* The inductive invariant behind the safety properties. *)

(* A future waits for one cancellation, and does nothing else meanwhile. *)
WaitersWait ==
  \A s \in Stream : \A i \in 1..Len(waits[s]) :
    /\ pc[waits[s][i]] = "cancel"
    /\ \A t \in Stream : \A j \in 1..Len(waits[t]) :
         waits[s][i] = waits[t][j] => s = t /\ i = j

(* The futures that write a row, or start a stream for it, have captured one. *)
CapturesOwnRide ==
  /\ \A f \in Future : pc[f] \in {"cancel", "stopped", "mode", "delay", "ready"} => rideOf[f] \in Ride
  /\ pc[Op] = "ask" /\ job \in {"resume", "recover"} => rideOf[Op] \in Ride
  /\ pc[Op] = "ready" => session # Nil

IdleHoldNothing == \A f \in Future : pc[f] = "idle" => rideOf[f] = Nil

PlacesOfFutures ==
  /\ \A b \in Boots : pc[b] \in {"idle", "ask"}
  /\ \A c \in Checks : pc[c] \in {"idle", "ask", "cancel", "stopped"}

Recovering == pc[Op] = "ask" /\ job = "recover"
Requesting == pc[Op] = "ask" /\ job = "request" /\ prev = "recording"

(* What a future captured is the ride of the screen, or finished: a ride
   leaves the screen only by finish. *)
CapturedOrFinished ==
  \A f \in Future \cup Stream :
    rideOf[f] # Nil => rideOf[f] = session \/ row[rideOf[f]] = "syncPending" \/ (f = Op /\ Recovering)

(* A new process, and then a bootstrap that looks for a ride to recover, is
   alone with the checks. *)
BootsAlone ==
  /\ phase = "preRecord" =>
       session = Nil /\ candidate = Nil /\ pc[Op] = "idle" /\ \A c \in Checks : pc[c] \in {"idle", "ask"}
  /\ \A b \in Boots : pc[b] = "ask" /\ rideOf[b] = Nil =>
       /\ phase = "requestingPermissions" /\ session = Nil /\ candidate = Nil /\ pc[Op] = "idle"
       /\ \A c \in Checks : pc[c] \in {"idle", "ask"}
       /\ \A d \in Boots : pc[d] = "ask" /\ rideOf[d] = Nil => b = d

(* While a ride is offered for recovery nothing else runs, and it is not over. *)
CandidateIsInProgress ==
  /\ candidate # Nil => /\ row[candidate] \in InProgress /\ session = Nil
                        /\ pc[Op] # "idle" => job = "recover" /\ pc[Op] = "ask"
                        /\ \A c \in Checks : pc[c] \in {"idle", "ask"}
  /\ Recovering => /\ row[rideOf[Op]] \in InProgress /\ session = Nil /\ phase # "recording"
                   /\ \A c \in Checks : pc[c] \in {"idle", "ask"}

(* Only operations that start a stream, restarts and streams hold an epoch. *)
HoldersStart ==
  \A f \in current \cap Future :
    \/ f = Op /\ job \in StartJobs /\ pc[Op] \in {"cancel", "stopped", "mode"}
    \/ f \in Restarts /\ pc[f] # "idle"

(* The epoch is the ride's, also while a request hides that it is recorded. *)
EpochOfRide ==
  phase = "recording" \/ Requesting =>
    session # Nil /\ \A f \in current : rideOf[f] = session

RideInv ==
  /\ CapturesOwnRide /\ IdleHoldNothing /\ CapturedOrFinished /\ BootsAlone
  /\ CandidateIsInProgress /\ HoldersStart /\ EpochOfRide /\ ShownRideIsInProgress

RecInv == RecTypeOK /\ WaitersWait /\ PlacesOfFutures /\ RideInv

(* What RowFollowsScreen needs beyond RecInv: no request is under way, and a
   start that waits for the platform was asked for without a ride. *)
ScreenInv ==
  /\ RowFollowsScreen
  /\ job # "request"
  /\ phase = "preRecord" \/ (pc[Op] = "ask" /\ job = "start") => session = Nil

-----------------------------------------------------------------------------
(* What a test, a text on the screen and a comment say and the code does    *)
(* not keep (README, section 4): TLC finds each of them violated.           *)

(* "pauses recording cleanly when permission is downgraded mid-session":    *)
(* a request for the permission ends in a phase the screen can leave.       *)
RequestsEnd == phase = "requestingPermissions" ~> phase # "requestingPermissions"

(* "Paused while stopped": the banner of an auto-pause is not on the screen *)
(* of a ride that is being recorded.                                        *)
AutoPausedIsPaused == auto => phase # "recording"

(* "Forces the next location callback to rebuild live progress from durable *)
(* storage after a point write fails": live progress that counts a sample   *)
(* which is not stored is going to be rebuilt.                              *)
LiveMatchesStored == phase = "recording" /\ ahead => resync
=============================================================================
