------------------------ MODULE RecordingControlProofs ------------------------
(***************************************************************************)
(* Proofs about RecordingControl: RecInv is inductive, and with it the     *)
(* epoch check keeps a ride's samples and restarts to that ride, the       *)
(* screen only holds rides in progress, and a finished row stays finished. *)
(*                                                                         *)
(* RecInv is proved in three lemmas, each with one step per action:        *)
(* TypeStep, WaitersStep (who waits for which cancellation) and RideStep   *)
(* (everything about rides).  What stopping a stream does to the waiting   *)
(* futures is stated once, in StopOK and CancelOK.                         *)
(***************************************************************************)
EXTENDS RecordingControl, TLAPS

USE DEF vars, viewVars, rideVars, askVars, epochVars, fieldVars, streamVars, taskVars,
        worldVars, boundVars

Place == {"idle", "ask", "ready", "cancel", "stopped", "mode", "delay", "gps"}

(* Waits for a cancellation are only disturbed by futures that wait. *)
LEMMA WaitersStay ==
  ASSUME RecTypeOK, WaitersWait, waits' = waits,
         \A f \in Future : pc[f] = "cancel" => pc'[f] = "cancel"
  PROVE  WaitersWait'
<1> SUFFICES ASSUME NEW s \in Stream, NEW i \in 1 .. Len(waits[s])
             PROVE  /\ pc'[waits[s][i]] = "cancel"
                    /\ \A t \in Stream : \A j \in 1 .. Len(waits[t]) :
                         waits[s][i] = waits[t][j] => s = t /\ i = j
  BY DEF WaitersWait
<1>1. waits[s][i] \in Future
  BY DEF RecTypeOK, ViewTypeOK, FutureTypeOK, StreamTypeOK
<1> QED
  BY <1>1 DEF WaitersWait

(* One future moves; boots and checks only go where their code goes. *)
LEMMA PlacesStay ==
  ASSUME FutureTypeOK, PlacesOfFutures, NEW f \in Future, NEW l, Goto(f, l),
         f \in Boots => l \in {"idle", "ask"},
         f \in Checks => l \in {"idle", "ask", "cancel", "stopped"}
  PROVE  PlacesOfFutures'
<1>1. \A g \in Boots \cup Checks : pc'[g] = IF g = f THEN l ELSE pc[g]
  BY DEF FutureTypeOK, Future, Goto
<1> QED
  BY <1>1 DEF PlacesOfFutures

LEMMA MoveOK ==
  ASSUME RecTypeOK, WaitersWait, PlacesOfFutures,
         NEW f \in Future, NEW l, Goto(f, l), pc[f] # "cancel", waits' = waits,
         f \in Boots => l \in {"idle", "ask"},
         f \in Checks => l \in {"idle", "ask", "cancel", "stopped"}
  PROVE  WaitersWait' /\ PlacesOfFutures'
<1>1. PlacesOfFutures'
  BY PlacesStay DEF RecTypeOK
<1>2. \A g \in Future : pc[g] = "cancel" => pc'[g] = "cancel"
  BY DEF Goto, RecTypeOK, FutureTypeOK
<1> QED
  BY <1>1, <1>2, WaitersStay

-----------------------------------------------------------------------------
(* Stopping a stream, and the end of its cancellation. *)

LEMMA AppendAt ==
  ASSUME NEW S, NEW q \in Seq(S), NEW e \in S, NEW i \in 1 .. Len(Append(q, e))
  PROVE  \/ i = Len(q) + 1 /\ Append(q, e)[i] = e
         \/ i \in 1 .. Len(q) /\ Append(q, e)[i] = q[i]
  OBVIOUS

LEMMA TailAt ==
  ASSUME NEW S, NEW q \in Seq(S), q # <<>>, NEW i \in 1 .. Len(Tail(q))
  PROVE  i + 1 \in 1 .. Len(q) /\ Tail(q)[i] = q[i + 1]
  OBVIOUS

(* What Stop leaves behind. *)
Stopping(f) ==
  /\ live' \in SUBSET Stream /\ stopping' \in BOOLEAN
  /\ watch' \in BOOLEAN /\ started' \in BOOLEAN
  /\ waits' \in [Stream -> Seq(Future)] /\ WaitersWait' /\ PlacesOfFutures'
  /\ pc' \in [Future -> Place] /\ \E l \in {"cancel", "stopped"} : Goto(f, l)

LEMMA StopOK ==
  ASSUME RecTypeOK, WaitersWait, PlacesOfFutures,
         NEW f \in Future \ Boots, pc[f] # "cancel", Stop(f)
  PROVE  Stopping(f)
<1> USE DEF Stopping, Place
<1>3. \E l \in {"cancel", "stopped"} : Goto(f, l)
  BY DEF Stop
<1>4. PlacesOfFutures'
  BY <1>3, PlacesStay DEF RecTypeOK
<1>5. pc' \in [Future -> Place]
  BY <1>3 DEF Goto, RecTypeOK, FutureTypeOK
<1>1. CASE sub = Nil
  <2>1. waits' = waits /\ Goto(f, "stopped")
    BY <1>1 DEF Stop
  <2>2. WaitersWait'
    BY <2>1, MoveOK
  <2> QED
    BY <1>1, <1>3, <1>4, <1>5, <2>1, <2>2 DEF Stop, RecTypeOK, StreamTypeOK
<1>2. CASE sub # Nil
  <2>1. sub \in Stream /\ waits[sub] \in Seq(Future)
    BY <1>2 DEF RecTypeOK, ViewTypeOK, FutureTypeOK, StreamTypeOK
  <2>2. /\ waits' = [waits EXCEPT ![sub] = Append(waits[sub], f)]
        /\ pc' = [pc EXCEPT ![f] = "cancel"]
    BY <1>2 DEF Stop, Goto
  <2>3. \A s \in Stream : waits'[s] = IF s = sub THEN Append(waits[sub], f) ELSE waits[s]
    BY <2>1, <2>2 DEF RecTypeOK, ViewTypeOK, FutureTypeOK, StreamTypeOK
  <2>4. ASSUME NEW s \in Stream, NEW i \in 1 .. Len(waits[s])
        PROVE  waits[s][i] \in Future /\ waits[s][i] # f /\ pc[waits[s][i]] = "cancel"
    <3>1. pc[waits[s][i]] = "cancel"
      BY DEF WaitersWait
    <3>2. waits[s] \in Seq(Future)
      BY DEF RecTypeOK, ViewTypeOK, FutureTypeOK, StreamTypeOK
    <3> QED
      BY <3>1, <3>2
  <2>5. ASSUME NEW s \in Stream, NEW i \in 1 .. Len(waits'[s])
        PROVE  \/ s = sub /\ i = Len(waits[sub]) + 1 /\ waits'[s][i] = f
               \/ i \in 1 .. Len(waits[s]) /\ waits'[s][i] = waits[s][i]
    <3>1. CASE s = sub
      <4>1. waits'[s] = Append(waits[sub], f)
        BY <2>3, <3>1
      <4>2. i \in 1 .. Len(Append(waits[sub], f))
        BY <4>1
      <4>3. \/ i = Len(waits[sub]) + 1 /\ Append(waits[sub], f)[i] = f
            \/ i \in 1 .. Len(waits[sub]) /\ Append(waits[sub], f)[i] = waits[sub][i]
        BY <2>1, <4>2, AppendAt
      <4> QED
        BY <3>1, <4>1, <4>3
    <3>2. CASE s # sub
      BY <2>3, <3>2
    <3> QED
      BY <3>1, <3>2
  <2>6. WaitersWait'
    <3> SUFFICES ASSUME NEW s \in Stream, NEW i \in 1 .. Len(waits'[s])
                 PROVE  /\ pc'[waits'[s][i]] = "cancel"
                        /\ \A t \in Stream : \A j \in 1 .. Len(waits'[t]) :
                             waits'[s][i] = waits'[t][j] => s = t /\ i = j
      BY DEF WaitersWait
    <3>1. pc'[waits'[s][i]] = "cancel"
      BY <2>2, <2>4, <2>5 DEF RecTypeOK, ViewTypeOK, FutureTypeOK, StreamTypeOK
    <3>2. ASSUME NEW t \in Stream, NEW j \in 1 .. Len(waits'[t]), waits'[s][i] = waits'[t][j]
          PROVE  s = t /\ i = j
      BY <2>4, <2>5, <3>2 DEF WaitersWait
    <3> QED
      BY <3>1, <3>2
  <2>7. waits' \in [Stream -> Seq(Future)]
    BY <2>1, <2>2 DEF RecTypeOK, ViewTypeOK, FutureTypeOK, StreamTypeOK
  <2> QED
    BY <1>2, <1>3, <1>4, <1>5, <2>6, <2>7 DEF Stop, RecTypeOK, StreamTypeOK
<1> QED
  BY <1>1, <1>2

(* The first waiter goes on, the others keep waiting. *)
LEMMA CancelOK ==
  ASSUME RecTypeOK, WaitersWait, PlacesOfFutures, NEW f \in Future, CancelEnds(f)
  PROVE  /\ waits' \in [Stream -> Seq(Future)]
         /\ WaitersWait' /\ PlacesOfFutures'
         /\ pc[f] = "cancel" /\ Goto(f, "stopped")
<1>1. PICK s \in Stream : /\ waits[s] # <<>> /\ f = Head(waits[s])
                          /\ waits' = [waits EXCEPT ![s] = Tail(@)]
  BY DEF CancelEnds
<1>2. pc' = [pc EXCEPT ![f] = "stopped"]
  BY DEF CancelEnds, Goto
<1>3. waits[s] \in Seq(Future) /\ Len(waits[s]) \in Nat \ {0} /\ f = waits[s][1]
  BY <1>1 DEF RecTypeOK, ViewTypeOK, FutureTypeOK, StreamTypeOK
<1>4. waits' \in [Stream -> Seq(Future)]
  BY <1>1, <1>3 DEF RecTypeOK, ViewTypeOK, FutureTypeOK, StreamTypeOK
<1>5. \A t \in Stream : waits'[t] = IF t = s THEN Tail(waits[s]) ELSE waits[t]
  BY <1>1 DEF RecTypeOK, ViewTypeOK, FutureTypeOK, StreamTypeOK
<1>6. ASSUME NEW t \in Stream, NEW i \in 1 .. Len(waits'[t])
      PROVE  IF t = s THEN i + 1 \in 1 .. Len(waits[s]) /\ waits'[t][i] = waits[s][i + 1]
             ELSE i \in 1 .. Len(waits[t]) /\ waits'[t][i] = waits[t][i]
  <2>1. CASE t = s
    <3>1. waits'[t] = Tail(waits[s])
      BY <1>5, <2>1
    <3>2. i \in 1 .. Len(Tail(waits[s]))
      BY <3>1
    <3>3. i + 1 \in 1 .. Len(waits[s]) /\ Tail(waits[s])[i] = waits[s][i + 1]
      BY <1>1, <1>3, <3>2, TailAt
    <3> QED
      BY <2>1, <3>1, <3>3
  <2>2. CASE t # s
    BY <1>5, <2>2
  <2> QED
    BY <2>1, <2>2
<1>7. 1 \in 1 .. Len(waits[s]) /\ pc[f] = "cancel"
  BY <1>3 DEF WaitersWait
<1>8. ASSUME NEW t \in Stream, NEW i \in 1 .. Len(waits'[t])
      PROVE  waits'[t][i] \in Future /\ waits'[t][i] # f /\ pc[waits'[t][i]] = "cancel"
  <2>1. waits'[t][i] \in Future
    BY <1>4
  <2>2. waits'[t][i] # f /\ pc[waits'[t][i]] = "cancel"
    BY <1>3, <1>6, <1>7 DEF WaitersWait
  <2> QED
    BY <2>1, <2>2
<1>9. WaitersWait'
  <2> SUFFICES ASSUME NEW t \in Stream, NEW i \in 1 .. Len(waits'[t])
               PROVE  /\ pc'[waits'[t][i]] = "cancel"
                      /\ \A u \in Stream : \A j \in 1 .. Len(waits'[u]) :
                           waits'[t][i] = waits'[u][j] => t = u /\ i = j
    BY DEF WaitersWait
  <2>1. pc'[waits'[t][i]] = "cancel"
    BY <1>2, <1>8 DEF RecTypeOK, ViewTypeOK, FutureTypeOK, StreamTypeOK
  <2>2. ASSUME NEW u \in Stream, NEW j \in 1 .. Len(waits'[u]), waits'[t][i] = waits'[u][j]
        PROVE  t = u /\ i = j
    BY <1>6, <2>2 DEF WaitersWait
  <2> QED
    BY <2>1, <2>2
<1>10. PlacesOfFutures'
  <2>1. f \notin Boots
    BY <1>7 DEF PlacesOfFutures
  <2> QED
    BY <1>2, <2>1, PlacesStay DEF Goto, RecTypeOK
<1> QED
  BY <1>2, <1>4, <1>7, <1>9, <1>10 DEF Goto

(* The futures are of four kinds. *)
LEMMA KindsApart ==
  /\ Op \in Future \ (Boots \cup Checks)
  /\ Restarts \subseteq Future \ (Boots \cup Checks)
  /\ Checks \subseteq Future \ Boots
  /\ Boots \subseteq Future \ Checks
BY RecorderAssumption DEF Future

(* No step touches a finished row. *)
FinishedStays == \A x \in Ride : row[x] = "syncPending" => row'[x] = "syncPending"

-----------------------------------------------------------------------------
(* The steps. *)

LEMMA WaitersStep == RecInv /\ [Next]_vars => (WaitersWait /\ PlacesOfFutures)'
<1> SUFFICES ASSUME RecInv, [Next]_vars
             PROVE  (WaitersWait /\ PlacesOfFutures)'
  OBVIOUS
<1> USE DEF RecInv, Future, End, AskedFor, Tap
<1>1. CASE UNCHANGED vars
  BY <1>1 DEF WaitersWait, PlacesOfFutures
<1>2. CASE StartRecording
  BY <1>2, KindsApart, MoveOK DEF StartRecording
<1>3. CASE Resume
  BY <1>3, KindsApart, MoveOK DEF Resume
<1>4. CASE ResumeRecovered
  BY <1>4, KindsApart, MoveOK DEF ResumeRecovered
<1>5. CASE DiscardRecovery
  BY <1>5 DEF DiscardRecovery, WaitersWait, PlacesOfFutures
<1>6. CASE RequestPermissions
  BY <1>6, KindsApart, MoveOK DEF RequestPermissions
<1>7. CASE Pause
  <2>1. Stop(Op) /\ pc[Op] # "cancel"
    BY <1>7 DEF Pause
  <2> QED
    BY <2>1, StopOK, KindsApart DEF Stopping
<1>8. CASE Finish
  <2>1. Stop(Op) /\ pc[Op] # "cancel"
    BY <1>8 DEF Finish
  <2> QED
    BY <2>1, StopOK, KindsApart DEF Stopping
<1>9. CASE NotReady
  BY <1>9, KindsApart, MoveOK DEF NotReady
<1>10. CASE StartReady
  <2>1. Stop(Op) /\ pc[Op] # "cancel"
    BY <1>10 DEF StartReady
  <2> QED
    BY <2>1, StopOK, KindsApart DEF Stopping
<1>11. CASE ResumeReady
  <2>1. Op \in Future \ Boots /\ pc[Op] # "cancel"
    BY <1>11, KindsApart DEF ResumeReady
  <2>2. CASE Stop(Op)
    BY <2>1, <2>2, StopOK DEF Stopping
  <2>3. CASE ~Stop(Op)
    <3>1. waits' = waits /\ Goto(Op, "idle")
      BY <1>11, <2>3 DEF ResumeReady
    <3> QED
      BY <2>1, <3>1, MoveOK
  <2> QED
    BY <2>2, <2>3
<1>12. CASE RecoveryAnswered
  BY <1>12, KindsApart, MoveOK DEF RecoveryAnswered
<1>13. CASE RecoveryReady
  <2>1. Stop(Op) /\ pc[Op] # "cancel"
    BY <1>13 DEF RecoveryReady
  <2> QED
    BY <2>1, StopOK, KindsApart DEF Stopping
<1>14. CASE RecoveryNotReady
  BY <1>14, KindsApart, MoveOK DEF RecoveryNotReady
<1>15. CASE RequestAnswered
  BY <1>15, KindsApart, MoveOK DEF RequestAnswered
<1>16. CASE RequestEnds
  BY <1>16, KindsApart, MoveOK DEF RequestEnds
<1>17. CASE PauseStopped
  BY <1>17, KindsApart, MoveOK DEF PauseStopped
<1>18. CASE FinishStopped
  BY <1>18, KindsApart, MoveOK DEF FinishStopped
<1>19. ASSUME NEW f \in Future, CancelEnds(f)
      PROVE  (WaitersWait /\ PlacesOfFutures)'
  BY <1>19, CancelOK
<1>20. ASSUME NEW f \in Future, StartGoesOn(f)
      PROVE  (WaitersWait /\ PlacesOfFutures)'
  BY <1>20, KindsApart, MoveOK DEF StartGoesOn, Starter
<1>21. ASSUME NEW f \in Future, StreamStarts(f)
      PROVE  (WaitersWait /\ PlacesOfFutures)'
  BY <1>21, KindsApart, MoveOK DEF StreamStarts
<1>22. ASSUME NEW f \in Future, StartIsLate(f)
      PROVE  (WaitersWait /\ PlacesOfFutures)'
  BY <1>22, KindsApart, MoveOK DEF StartIsLate
<1>23. ASSUME NEW c \in Checks, CheckAnswered(c)
      PROVE  (WaitersWait /\ PlacesOfFutures)'
  <2>1. c \in Future \ Boots /\ pc[c] # "cancel"
    BY <1>23, KindsApart DEF CheckAnswered
  <2>2. CASE Stop(c)
    BY <2>1, <2>2, StopOK DEF Stopping
  <2>3. CASE ~Stop(c)
    <3>1. waits' = waits /\ Goto(c, "idle")
      BY <1>23, <2>3 DEF CheckAnswered
    <3> QED
      BY <2>1, <3>1, MoveOK
  <2> QED
    BY <2>2, <2>3
<1>24. ASSUME NEW c \in Checks, LossStopped(c)
      PROVE  (WaitersWait /\ PlacesOfFutures)'
  BY <1>24, KindsApart, MoveOK DEF LossStopped
<1>25. ASSUME NEW b \in Boots, BootAnswered(b)
      PROVE  (WaitersWait /\ PlacesOfFutures)'
  BY <1>25, KindsApart, MoveOK DEF BootAnswered
<1>26. ASSUME NEW r \in Restarts, DelayEnds(r)
      PROVE  (WaitersWait /\ PlacesOfFutures)'
  <2>1. r \in Future \ Boots /\ pc[r] # "cancel"
    BY <1>26, KindsApart DEF DelayEnds
  <2>2. CASE Stop(r)
    BY <2>1, <2>2, StopOK DEF Stopping
  <2>3. CASE ~Stop(r)
    <3>1. waits' = waits /\ Goto(r, "idle")
      BY <1>26, <2>3 DEF DelayEnds
    <3> QED
      BY <2>1, <3>1, MoveOK
  <2> QED
    BY <2>2, <2>3
<1>27. CASE WatchdogFires
  BY <1>27, KindsApart, MoveOK DEF WatchdogFires, QueueRestart, WaitersWait, PlacesOfFutures
<1>28. ASSUME NEW s \in Stream, SampleArrives(s)
      PROVE  (WaitersWait /\ PlacesOfFutures)'
  BY <1>28 DEF SampleArrives, WaitersWait, PlacesOfFutures
<1>29. ASSUME NEW s \in Stream, AutoPause(s)
      PROVE  (WaitersWait /\ PlacesOfFutures)'
  <2>1. Stop(Op) /\ pc[Op] # "cancel"
    BY <1>29 DEF AutoPause
  <2> QED
    BY <2>1, StopOK, KindsApart DEF Stopping
<1>30. ASSUME NEW s \in Stream, StreamBreaks(s)
      PROVE  (WaitersWait /\ PlacesOfFutures)'
  BY <1>30, KindsApart, MoveOK DEF StreamBreaks, QueueRestart, WaitersWait, PlacesOfFutures
<1>31. ASSUME NEW f \in {Op} \cup Restarts, StartFails(f)
      PROVE  (WaitersWait /\ PlacesOfFutures)'
  <2>1. PICK r \in Restarts : /\ pc' = [pc EXCEPT ![f] = "idle", ![r] = "delay"]
                              /\ r = f \/ pc[r] = "idle"
    BY <1>31 DEF StartFails
  <2>2. f \in Future \ (Boots \cup Checks) /\ pc[f] = "mode" /\ waits' = waits
    BY <1>31, KindsApart DEF StartFails
  <2>3. \A g \in Future : pc'[g] = IF g = r THEN "delay" ELSE IF g = f THEN "idle" ELSE pc[g]
    BY <2>1, <2>2 DEF RecTypeOK, FutureTypeOK
  <2>4. WaitersWait'
    BY <2>1, <2>2, <2>3, WaitersStay
  <2>5. PlacesOfFutures'
    BY <2>2, <2>3, KindsApart DEF PlacesOfFutures
  <2> QED
    BY <2>4, <2>5
<1>32. ASSUME NEW c \in Checks, AppResumed(c)
      PROVE  (WaitersWait /\ PlacesOfFutures)'
  BY <1>32, KindsApart, MoveOK DEF AppResumed
<1>33. ASSUME NEW b \in Boots, Bootstrap(b)
      PROVE  (WaitersWait /\ PlacesOfFutures)'
  BY <1>33, KindsApart, MoveOK DEF Bootstrap
<1>34. CASE FinishFailed
  BY <1>34, KindsApart, MoveOK DEF FinishFailed
<1>35. CASE SampleAges
  BY <1>35 DEF SampleAges, WaitersWait, PlacesOfFutures
<1>36. CASE GpsAsks
  BY <1>36 DEF GpsAsks, WaitersWait, PlacesOfFutures
<1>37. CASE GpsShown
  BY <1>37 DEF GpsShown, WaitersWait, PlacesOfFutures
<1>38. CASE PermissionChanges
  BY <1>38 DEF PermissionChanges, WaitersWait, PlacesOfFutures
<1>39. CASE Killed
  <2>1. waits' = [s \in Stream |-> <<>>] /\ pc' = [f \in Future |-> "idle"]
    BY <1>39 DEF Killed
  <2>2. WaitersWait'
    BY <2>1 DEF WaitersWait
  <2>3. PlacesOfFutures'
    BY <2>1, KindsApart DEF PlacesOfFutures
  <2> QED
    BY <2>2, <2>3
<1> QED
  BY <1>1, <1>2, <1>3, <1>4, <1>5, <1>6, <1>7, <1>8, <1>9, <1>10, <1>11, <1>12, <1>13, <1>14,
     <1>15, <1>16, <1>17, <1>18, <1>19, <1>20, <1>21, <1>22, <1>23, <1>24, <1>25, <1>26, <1>27,
     <1>28, <1>29, <1>30, <1>31, <1>32, <1>33, <1>34, <1>35, <1>36, <1>37, <1>38, <1>39
  DEF Next,
     Buttons, OpSteps, StreamSteps, CheckSteps, Environment

LEMMA TypeStep == RecInv /\ [Next]_vars => RecTypeOK'
<1> SUFFICES ASSUME RecInv, [Next]_vars
             PROVE  RecTypeOK'
  OBVIOUS
<1> USE RecorderAssumption DEF RecInv, RecTypeOK, ViewTypeOK, FutureTypeOK, StreamTypeOK, Place,
   RideInv, CapturesOwnRide, CandidateIsInProgress, InProgress, StartJobs, Future, Goto, End,
   NewEpoch, Fault, Tap, AskedFor, QueueRestart, Active, Recovering, Starter
<1>1. CASE UNCHANGED vars
  BY <1>1
<1>2. CASE StartRecording
  BY <1>2 DEF StartRecording
<1>3. CASE Resume
  BY <1>3 DEF Resume
<1>4. CASE ResumeRecovered
  BY <1>4 DEF ResumeRecovered
<1>5. CASE DiscardRecovery
  BY <1>5 DEF DiscardRecovery
<1>6. CASE RequestPermissions
  BY <1>6 DEF RequestPermissions
<1>7. CASE Pause
  <2>1. Stop(Op) /\ pc[Op] # "cancel"
    BY <1>7 DEF Pause
  <2>2. Stopping(Op)
    BY <2>1, StopOK, KindsApart
  <2>3. ViewTypeOK'
    BY <1>7, <2>2 DEF Pause, Stopping
  <2>4. FutureTypeOK'
    BY <1>7, <2>2 DEF Pause, Stopping
  <2>5. StreamTypeOK'
    BY <1>7, <2>2 DEF Pause, Stopping
  <2> QED
    BY <2>3, <2>4, <2>5 DEF RecTypeOK
<1>8. CASE Finish
  <2>1. Stop(Op) /\ pc[Op] # "cancel"
    BY <1>8 DEF Finish
  <2>2. Stopping(Op)
    BY <2>1, StopOK, KindsApart
  <2>3. ViewTypeOK'
    BY <1>8, <2>2 DEF Finish, Stopping
  <2>4. FutureTypeOK'
    BY <1>8, <2>2 DEF Finish, Stopping
  <2>5. StreamTypeOK'
    BY <1>8, <2>2 DEF Finish, Stopping
  <2> QED
    BY <2>3, <2>4, <2>5 DEF RecTypeOK
<1>9. CASE NotReady
  BY <1>9 DEF NotReady
<1>10. CASE StartReady
  <2>1. Stop(Op) /\ pc[Op] # "cancel"
    BY <1>10 DEF StartReady
  <2>2. Stopping(Op)
    BY <2>1, StopOK, KindsApart
  <2>3. ViewTypeOK'
    <3>1. row' \in [Ride -> {"none", "recording", "paused", "syncPending"}]
      BY <1>10 DEF StartReady
    <3> QED
      BY <1>10, <3>1 DEF StartReady
  <2>4. FutureTypeOK'
    BY <1>10, <2>2 DEF StartReady, Stopping
  <2>5. StreamTypeOK'
    BY <1>10, <2>2 DEF StartReady, Stopping
  <2> QED
    BY <2>3, <2>4, <2>5 DEF RecTypeOK
<1>11. CASE ResumeReady
  <2>1. ASSUME row[rideOf[Op]] = "paused"
        PROVE  RecTypeOK'
    <3>1. Stop(Op) /\ pc[Op] # "cancel"
      BY <1>11, <2>1 DEF ResumeReady
    <3>2. Stopping(Op)
      BY <3>1, StopOK, KindsApart
    <3>3. ViewTypeOK'
      <4>1. rideOf[Op] \in Ride
        BY <1>11 DEF ResumeReady
      <4>2. row' \in [Ride -> {"none", "recording", "paused", "syncPending"}]
        BY <1>11, <2>1, <4>1 DEF ResumeReady
      <4> QED
        BY <1>11, <2>1, <4>1, <4>2 DEF ResumeReady
    <3>4. FutureTypeOK'
      BY <1>11, <2>1, <3>2 DEF ResumeReady, Stopping
    <3>5. StreamTypeOK'
      BY <1>11, <2>1, <3>2 DEF ResumeReady, Stopping
    <3> QED
      BY <3>3, <3>4, <3>5 DEF RecTypeOK
  <2>2. ASSUME ~(row[rideOf[Op]] = "paused")
        PROVE  RecTypeOK'
    <3>1. ViewTypeOK'
      BY <1>11, <2>2 DEF ResumeReady
    <3>2. FutureTypeOK'
      BY <1>11, <2>2 DEF ResumeReady
    <3>3. StreamTypeOK'
      BY <1>11, <2>2 DEF ResumeReady
    <3> QED
      BY <3>1, <3>2, <3>3 DEF RecTypeOK
  <2> QED
    BY <2>1, <2>2
<1>12. CASE RecoveryAnswered
  <2>1. ViewTypeOK'
    BY <1>12 DEF RecoveryAnswered
  <2>2. FutureTypeOK'
    BY <1>12 DEF RecoveryAnswered
  <2>3. StreamTypeOK'
    BY <1>12 DEF RecoveryAnswered
  <2> QED
    BY <2>1, <2>2, <2>3 DEF RecTypeOK
<1>13. CASE RecoveryReady
  <2>1. Stop(Op) /\ pc[Op] # "cancel"
    BY <1>13 DEF RecoveryReady
  <2>2. Stopping(Op)
    BY <2>1, StopOK, KindsApart
  <2>3. ViewTypeOK'
    BY <1>13, <2>2 DEF RecoveryReady, Stopping
  <2>4. FutureTypeOK'
    BY <1>13, <2>2 DEF RecoveryReady, Stopping
  <2>5. StreamTypeOK'
    BY <1>13, <2>2 DEF RecoveryReady, Stopping
  <2> QED
    BY <2>3, <2>4, <2>5 DEF RecTypeOK
<1>14. CASE RecoveryNotReady
  <2>1. ViewTypeOK'
    <3>1. rideOf[Op] \in Ride
      BY <1>14 DEF RecoveryNotReady
    <3>2. row' \in [Ride -> {"none", "recording", "paused", "syncPending"}]
      BY <1>14, <3>1 DEF RecoveryNotReady
    <3> QED
      BY <1>14, <3>1, <3>2 DEF RecoveryNotReady
  <2>2. FutureTypeOK'
    BY <1>14 DEF RecoveryNotReady
  <2>3. StreamTypeOK'
    BY <1>14 DEF RecoveryNotReady
  <2> QED
    BY <2>1, <2>2, <2>3 DEF RecTypeOK
<1>15. CASE RequestAnswered
  BY <1>15 DEF RequestAnswered
<1>16. CASE RequestEnds
  BY <1>16 DEF RequestEnds
<1>17. CASE PauseStopped
  <2>1. ViewTypeOK'
    <3>1. rideOf[Op] \in Ride
      BY <1>17 DEF PauseStopped
    <3>2. row' \in [Ride -> {"none", "recording", "paused", "syncPending"}]
      BY <1>17, <3>1 DEF PauseStopped
    <3>3. auto' \in BOOLEAN
      BY <1>17 DEF PauseStopped
    <3> QED
      BY <1>17, <3>1, <3>2, <3>3 DEF PauseStopped
  <2>2. FutureTypeOK'
    BY <1>17 DEF PauseStopped
  <2>3. StreamTypeOK'
    BY <1>17 DEF PauseStopped
  <2> QED
    BY <2>1, <2>2, <2>3 DEF RecTypeOK
<1>18. CASE FinishStopped
  BY <1>18 DEF FinishStopped
<1>19. ASSUME NEW f \in Future, CancelEnds(f)
      PROVE  RecTypeOK'
  <2>1. waits' \in [Stream -> Seq(Future)] /\ Goto(f, "stopped")
    BY <1>19, CancelOK
  <2>2. ViewTypeOK'
    BY <1>19, <2>1 DEF CancelEnds
  <2>3. FutureTypeOK'
    BY <1>19, <2>1 DEF CancelEnds
  <2>4. StreamTypeOK'
    BY <1>19, <2>1 DEF CancelEnds
  <2> QED
    BY <2>2, <2>3, <2>4 DEF RecTypeOK
<1>20. ASSUME NEW f \in Future, StartGoesOn(f)
      PROVE  RecTypeOK'
  <2>1. ViewTypeOK'
    BY <1>20 DEF StartGoesOn
  <2>2. FutureTypeOK'
    BY <1>20 DEF StartGoesOn
  <2>3. StreamTypeOK'
    BY <1>20 DEF StartGoesOn
  <2> QED
    BY <2>1, <2>2, <2>3 DEF RecTypeOK
<1>21. ASSUME NEW f \in Future, StreamStarts(f)
      PROVE  RecTypeOK'
  BY <1>21 DEF StreamStarts
<1>22. ASSUME NEW f \in Future, StartIsLate(f)
      PROVE  RecTypeOK'
  BY <1>22 DEF StartIsLate
<1>23. ASSUME NEW c \in Checks, CheckAnswered(c)
      PROVE  RecTypeOK'
  <2>1. ASSUME phase = "recording" /\ ~granted
        PROVE  RecTypeOK'
    <3>1. Stop(c) /\ pc[c] # "cancel"
      BY <1>23, <2>1 DEF CheckAnswered
    <3>2. Stopping(c)
      BY <3>1, StopOK, KindsApart
    <3>3. ViewTypeOK'
      BY <1>23, <2>1, <3>2 DEF CheckAnswered, Stopping
    <3>4. FutureTypeOK'
      <4>1. rideOf' \in [Future \cup Stream -> Ride \cup {Nil}]
        BY <1>23, <2>1 DEF CheckAnswered
      <4> QED
        BY <1>23, <2>1, <3>2, <4>1 DEF CheckAnswered, Stopping
    <3>5. StreamTypeOK'
      BY <1>23, <2>1, <3>2 DEF CheckAnswered, Stopping
    <3> QED
      BY <3>3, <3>4, <3>5 DEF RecTypeOK
  <2>2. ASSUME ~(phase = "recording" /\ ~granted)
        PROVE  RecTypeOK'
    <3>1. ViewTypeOK'
      BY <1>23, <2>2 DEF CheckAnswered
    <3>2. FutureTypeOK'
      BY <1>23, <2>2 DEF CheckAnswered
    <3>3. StreamTypeOK'
      BY <1>23, <2>2 DEF CheckAnswered
    <3> QED
      BY <3>1, <3>2, <3>3 DEF RecTypeOK
  <2> QED
    BY <2>1, <2>2
<1>24. ASSUME NEW c \in Checks, LossStopped(c)
      PROVE  RecTypeOK'
  <2>1. ViewTypeOK'
    <3>1. rideOf[c] \in Ride
      BY <1>24 DEF LossStopped
    <3>2. row' \in [Ride -> {"none", "recording", "paused", "syncPending"}]
      BY <1>24, <3>1 DEF LossStopped
    <3> QED
      BY <1>24, <3>1, <3>2 DEF LossStopped
  <2>2. FutureTypeOK'
    <3>1. Goto(c, "idle") /\ rideOf' = [rideOf EXCEPT ![c] = Nil] /\ job' \in {job, "none"}
      BY <1>24 DEF LossStopped
    <3>2. UNCHANGED <<current, prev>>
      BY <1>24 DEF LossStopped
    <3> QED
      BY <3>1, <3>2
  <2>3. StreamTypeOK'
    BY <1>24 DEF LossStopped
  <2> QED
    BY <2>1, <2>2, <2>3 DEF RecTypeOK
<1>25. ASSUME NEW b \in Boots, BootAnswered(b)
      PROVE  RecTypeOK'
  BY <1>25 DEF BootAnswered
<1>26. ASSUME NEW r \in Restarts, DelayEnds(r)
      PROVE  RecTypeOK'
  <2>1. ASSUME Active(r) /\ fresh # "recent"
        PROVE  RecTypeOK'
    <3>1. Stop(r) /\ pc[r] # "cancel"
      BY <1>26, <2>1 DEF DelayEnds
    <3>2. Stopping(r)
      BY <3>1, StopOK, KindsApart
    <3>3. ViewTypeOK'
      BY <1>26, <2>1, <3>2 DEF DelayEnds, Stopping
    <3>4. FutureTypeOK'
      BY <1>26, <2>1, <3>2 DEF DelayEnds, Stopping
    <3>5. StreamTypeOK'
      BY <1>26, <2>1, <3>2 DEF DelayEnds, Stopping
    <3> QED
      BY <3>3, <3>4, <3>5 DEF RecTypeOK
  <2>2. ASSUME ~(Active(r) /\ fresh # "recent")
        PROVE  RecTypeOK'
    <3>1. ViewTypeOK'
      BY <1>26, <2>2 DEF DelayEnds
    <3>2. FutureTypeOK'
      BY <1>26, <2>2 DEF DelayEnds
    <3>3. StreamTypeOK'
      BY <1>26, <2>2 DEF DelayEnds
    <3> QED
      BY <3>1, <3>2, <3>3 DEF RecTypeOK
  <2> QED
    BY <2>1, <2>2
<1>27. CASE WatchdogFires
  <2>1. ViewTypeOK'
    BY <1>27 DEF WatchdogFires
  <2>2. FutureTypeOK'
    BY <1>27 DEF WatchdogFires
  <2>3. StreamTypeOK'
    BY <1>27 DEF WatchdogFires
  <2> QED
    BY <2>1, <2>2, <2>3 DEF RecTypeOK
<1>28. ASSUME NEW s \in Stream, SampleArrives(s)
      PROVE  RecTypeOK'
  <2>1. ViewTypeOK'
    BY <1>28 DEF SampleArrives
  <2>2. FutureTypeOK'
    BY <1>28 DEF SampleArrives
  <2>3. StreamTypeOK'
    BY <1>28 DEF SampleArrives
  <2> QED
    BY <2>1, <2>2, <2>3 DEF RecTypeOK
<1>29. ASSUME NEW s \in Stream, AutoPause(s)
      PROVE  RecTypeOK'
  <2>1. Stop(Op) /\ pc[Op] # "cancel"
    BY <1>29 DEF AutoPause
  <2>2. Stopping(Op)
    BY <2>1, StopOK, KindsApart
  <2>3. ViewTypeOK'
    BY <1>29, <2>2 DEF AutoPause, Stopping
  <2>4. FutureTypeOK'
    BY <1>29, <2>2 DEF AutoPause, Stopping
  <2>5. StreamTypeOK'
    BY <1>29, <2>2 DEF AutoPause, Stopping
  <2> QED
    BY <2>3, <2>4, <2>5 DEF RecTypeOK
<1>30. ASSUME NEW s \in Stream, StreamBreaks(s)
      PROVE  RecTypeOK'
  <2>1. ViewTypeOK'
    BY <1>30 DEF StreamBreaks
  <2>2. FutureTypeOK'
    <3>1. \/ UNCHANGED <<queued, pc, rideOf>> /\ current' = current \cap (Future \cup live')
          \/ QueueRestart
      BY <1>30 DEF StreamBreaks
    <3>2. pc' \in [Future -> Place] /\ rideOf' \in [Future \cup Stream -> Ride \cup {Nil}]
      <4>1. CASE UNCHANGED <<pc, rideOf>>
        BY <4>1
      <4>2. CASE \E r \in Restarts : Goto(r, "delay") /\ rideOf' = [rideOf EXCEPT ![r] = session]
        BY <4>2
      <4> QED
        BY <3>1, <4>1, <4>2
    <3>3. current' \in SUBSET (Future \cup Stream)
      BY <3>1
    <3> QED
      BY <1>30, <3>2, <3>3 DEF StreamBreaks
  <2>3. StreamTypeOK'
    BY <1>30 DEF StreamBreaks
  <2> QED
    BY <2>1, <2>2, <2>3 DEF RecTypeOK
<1>31. ASSUME NEW f \in {Op} \cup Restarts, StartFails(f)
      PROVE  RecTypeOK'
  BY <1>31 DEF StartFails
<1>32. ASSUME NEW c \in Checks, AppResumed(c)
      PROVE  RecTypeOK'
  BY <1>32 DEF AppResumed
<1>33. ASSUME NEW b \in Boots, Bootstrap(b)
      PROVE  RecTypeOK'
  BY <1>33 DEF Bootstrap
<1>34. CASE FinishFailed
  BY <1>34 DEF FinishFailed
<1>35. CASE SampleAges
  BY <1>35 DEF SampleAges
<1>36. CASE GpsAsks
  BY <1>36 DEF GpsAsks
<1>37. CASE GpsShown
  BY <1>37 DEF GpsShown
<1>38. CASE PermissionChanges
  BY <1>38 DEF PermissionChanges
<1>39. CASE Killed
  <2>1. ViewTypeOK'
    <3>1. kills' \in 0 .. MaxKills
      BY <1>39 DEF Killed
    <3>2. told' \in BOOLEAN
      BY <1>39 DEF Killed
    <3> QED
      BY <1>39, <3>1, <3>2 DEF Killed
  <2>2. FutureTypeOK'
    BY <1>39 DEF Killed
  <2>3. StreamTypeOK'
    <3>1. waits' \in [Stream -> Seq(Future)]
      BY <1>39 DEF Killed
    <3> QED
      BY <1>39, <3>1 DEF Killed
  <2> QED
    BY <2>1, <2>2, <2>3 DEF RecTypeOK
<1> QED
  BY <1>1, <1>2, <1>3, <1>4, <1>5, <1>6, <1>7, <1>8, <1>9, <1>10, <1>11, <1>12, <1>13, <1>14,
     <1>15, <1>16, <1>17, <1>18, <1>19, <1>20, <1>21, <1>22, <1>23, <1>24, <1>25, <1>26, <1>27,
     <1>28, <1>29, <1>30, <1>31, <1>32, <1>33, <1>34, <1>35, <1>36, <1>37, <1>38, <1>39
  DEF Next,
     Buttons, OpSteps, StreamSteps, CheckSteps, Environment

LEMMA RideStep == RecInv /\ [Next]_vars => RideInv'
<1> SUFFICES ASSUME RecInv, [Next]_vars
             PROVE  RideInv'
  OBVIOUS
<1> USE RecorderAssumption DEF RecInv, RideInv, PlacesOfFutures, RecTypeOK, ViewTypeOK,
   FutureTypeOK, StreamTypeOK,
            CapturesOwnRide, IdleHoldNothing, CapturedOrFinished, BootsAlone,
            CandidateIsInProgress, HoldersStart, EpochOfRide, ShownRideIsInProgress,
            InProgress, StartJobs, Future, Goto, End, NewEpoch, Fault, Tap, AskedFor,
            QueueRestart, OnScreen, Active, Quiet, Recovering, Requesting, Starter
<1>1. CASE UNCHANGED vars
  BY <1>1
<1>2. CASE StartRecording
  BY <1>2 DEF StartRecording
<1>3. CASE Resume
  BY <1>3 DEF Resume
<1>4. CASE ResumeRecovered
  BY <1>4 DEF ResumeRecovered
<1>5. CASE DiscardRecovery
  BY <1>5 DEF DiscardRecovery
<1>6. CASE RequestPermissions
  BY <1>6 DEF RequestPermissions
<1>7. CASE Pause
  <2>1. Stop(Op) /\ pc[Op] # "cancel"
    BY <1>7 DEF Pause
  <2>2. Stopping(Op)
    BY <2>1, StopOK, KindsApart
  <2> QED
    BY <1>7, <2>2 DEF Pause, Stopping
<1>8. CASE Finish
  <2>1. Stop(Op) /\ pc[Op] # "cancel"
    BY <1>8 DEF Finish
  <2>2. Stopping(Op)
    BY <2>1, StopOK, KindsApart
  <2> QED
    BY <1>8, <2>2 DEF Finish, Stopping
<1>9. CASE NotReady
  BY <1>9 DEF NotReady
<1>10. CASE StartReady
  <2>1. Stop(Op) /\ pc[Op] # "cancel"
    BY <1>10 DEF StartReady
  <2>2. Stopping(Op)
    BY <2>1, StopOK, KindsApart
  <2> QED
    BY <1>10, <2>2 DEF StartReady, Stopping
<1>11. CASE ResumeReady
  <2>1. ASSUME row[rideOf[Op]] = "paused"
        PROVE  RideInv'
    <3>1. Stop(Op) /\ pc[Op] # "cancel"
      BY <1>11, <2>1 DEF ResumeReady
    <3>2. Stopping(Op)
      BY <3>1, StopOK, KindsApart
    <3>3. CapturesOwnRide'
      BY <1>11, <2>1, <3>2 DEF ResumeReady, Stopping
    <3>4. IdleHoldNothing'
      BY <1>11, <2>1, <3>2 DEF ResumeReady, Stopping
    <3>5. CapturedOrFinished'
      BY <1>11, <2>1, <3>2 DEF ResumeReady, Stopping
    <3>6. BootsAlone'
      BY <1>11, <2>1, <3>2 DEF ResumeReady, Stopping
    <3>7. CandidateIsInProgress'
      BY <1>11, <2>1, <3>2 DEF ResumeReady, Stopping
    <3>8. HoldersStart'
      BY <1>11, <2>1, <3>2 DEF ResumeReady, Stopping
    <3>9. EpochOfRide'
      BY <1>11, <2>1, <3>2 DEF ResumeReady, Stopping
    <3>10. ShownRideIsInProgress'
      BY <1>11, <2>1, <3>2 DEF ResumeReady, Stopping
    <3> QED
      BY <3>3, <3>4, <3>5, <3>6, <3>7, <3>8, <3>9, <3>10 DEF RideInv
  <2>2. ASSUME ~(row[rideOf[Op]] = "paused")
        PROVE  RideInv'
    <3>1. CapturesOwnRide'
      BY <1>11, <2>2 DEF ResumeReady
    <3>2. IdleHoldNothing'
      BY <1>11, <2>2 DEF ResumeReady
    <3>3. CapturedOrFinished'
      BY <1>11, <2>2 DEF ResumeReady
    <3>4. BootsAlone'
      BY <1>11, <2>2 DEF ResumeReady
    <3>5. CandidateIsInProgress'
      BY <1>11, <2>2 DEF ResumeReady
    <3>6. HoldersStart'
      BY <1>11, <2>2 DEF ResumeReady
    <3>7. EpochOfRide'
      BY <1>11, <2>2 DEF ResumeReady
    <3>8. ShownRideIsInProgress'
      BY <1>11, <2>2 DEF ResumeReady
    <3> QED
      BY <3>1, <3>2, <3>3, <3>4, <3>5, <3>6, <3>7, <3>8 DEF RideInv
  <2> QED
    BY <2>1, <2>2
<1>12. CASE RecoveryAnswered
  <2>1. CapturesOwnRide'
    BY <1>12 DEF RecoveryAnswered
  <2>2. IdleHoldNothing'
    BY <1>12 DEF RecoveryAnswered
  <2>3. CapturedOrFinished'
    BY <1>12 DEF RecoveryAnswered
  <2>4. BootsAlone'
    BY <1>12 DEF RecoveryAnswered
  <2>5. CandidateIsInProgress'
    BY <1>12 DEF RecoveryAnswered
  <2>6. HoldersStart'
    BY <1>12 DEF RecoveryAnswered
  <2>7. EpochOfRide'
    BY <1>12 DEF RecoveryAnswered
  <2>8. ShownRideIsInProgress'
    BY <1>12 DEF RecoveryAnswered
  <2> QED
    BY <2>1, <2>2, <2>3, <2>4, <2>5, <2>6, <2>7, <2>8 DEF RideInv
<1>13. CASE RecoveryReady
  <2>1. Stop(Op) /\ pc[Op] # "cancel"
    BY <1>13 DEF RecoveryReady
  <2>2. Stopping(Op)
    BY <2>1, StopOK, KindsApart
  <2> QED
    BY <1>13, <2>2 DEF RecoveryReady, Stopping
<1>14. CASE RecoveryNotReady
  BY <1>14 DEF RecoveryNotReady
<1>15. CASE RequestAnswered
  BY <1>15 DEF RequestAnswered
<1>16. CASE RequestEnds
  BY <1>16 DEF RequestEnds
<1>17. CASE PauseStopped
  BY <1>17 DEF PauseStopped
<1>18. CASE FinishStopped
  BY <1>18 DEF FinishStopped
<1>19. ASSUME NEW f \in Future, CancelEnds(f)
      PROVE  RideInv'
  <2>1. pc[f] = "cancel" /\ Goto(f, "stopped")
    BY <1>19, CancelOK
  <2>2. CapturesOwnRide'
    BY <1>19, <2>1 DEF CancelEnds
  <2>3. IdleHoldNothing'
    BY <1>19, <2>1 DEF CancelEnds
  <2>4. CapturedOrFinished'
    BY <1>19, <2>1 DEF CancelEnds
  <2>5. BootsAlone'
    BY <1>19, <2>1 DEF CancelEnds
  <2>6. CandidateIsInProgress'
    BY <1>19, <2>1 DEF CancelEnds
  <2>7. HoldersStart'
    BY <1>19, <2>1 DEF CancelEnds
  <2>8. EpochOfRide'
    BY <1>19, <2>1 DEF CancelEnds
  <2>9. ShownRideIsInProgress'
    BY <1>19, <2>1 DEF CancelEnds
  <2> QED
    BY <2>2, <2>3, <2>4, <2>5, <2>6, <2>7, <2>8, <2>9 DEF RideInv
<1>20. ASSUME NEW f \in Future, StartGoesOn(f)
      PROVE  RideInv'
  <2>1. ASSUME Active(f)
        PROVE  RideInv'
    <3>1. CapturesOwnRide'
      BY <1>20, <2>1 DEF StartGoesOn
    <3>2. IdleHoldNothing'
      BY <1>20, <2>1 DEF StartGoesOn
    <3>3. CapturedOrFinished'
      BY <1>20, <2>1 DEF StartGoesOn
    <3>4. BootsAlone'
      BY <1>20, <2>1 DEF StartGoesOn
    <3>5. CandidateIsInProgress'
      BY <1>20, <2>1 DEF StartGoesOn
    <3>6. HoldersStart'
      BY <1>20, <2>1 DEF StartGoesOn
    <3>7. EpochOfRide'
      BY <1>20, <2>1 DEF StartGoesOn
    <3>8. ShownRideIsInProgress'
      BY <1>20, <2>1 DEF StartGoesOn
    <3> QED
      BY <3>1, <3>2, <3>3, <3>4, <3>5, <3>6, <3>7, <3>8 DEF RideInv
  <2>2. ASSUME ~(Active(f))
        PROVE  RideInv'
    <3>1. CapturesOwnRide'
      BY <1>20, <2>2 DEF StartGoesOn
    <3>2. IdleHoldNothing'
      BY <1>20, <2>2 DEF StartGoesOn
    <3>3. CapturedOrFinished'
      BY <1>20, <2>2 DEF StartGoesOn
    <3>4. BootsAlone'
      <4>1. /\ pc[f] = "stopped" /\ f \in {Op} \cup Restarts /\ End(f)
            /\ UNCHANGED <<phase, session, candidate>>
        BY <1>20, <2>2 DEF StartGoesOn
      <4>2. \A g \in Boots \cup Checks : pc'[g] = pc[g] /\ rideOf'[g] = rideOf[g]
        BY <4>1, KindsApart
      <4>3. pc[Op] = "idle" => pc'[Op] = "idle"
        BY <4>1
      <4> QED
        BY <4>1, <4>2, <4>3
    <3>5. CandidateIsInProgress'
      BY <1>20, <2>2 DEF StartGoesOn
    <3>6. HoldersStart'
      BY <1>20, <2>2 DEF StartGoesOn
    <3>7. EpochOfRide'
      BY <1>20, <2>2 DEF StartGoesOn
    <3>8. ShownRideIsInProgress'
      BY <1>20, <2>2 DEF StartGoesOn
    <3> QED
      BY <3>1, <3>2, <3>3, <3>4, <3>5, <3>6, <3>7, <3>8 DEF RideInv
  <2> QED
    BY <2>1, <2>2
<1>21. ASSUME NEW f \in Future, StreamStarts(f)
      PROVE  RideInv'
  <2>1. CapturesOwnRide'
    BY <1>21 DEF StreamStarts
  <2>2. IdleHoldNothing'
    BY <1>21 DEF StreamStarts
  <2>3. CapturedOrFinished'
    BY <1>21 DEF StreamStarts
  <2>4. BootsAlone'
    BY <1>21 DEF StreamStarts
  <2>5. CandidateIsInProgress'
    BY <1>21 DEF StreamStarts
  <2>6. HoldersStart'
    BY <1>21 DEF StreamStarts
  <2>7. EpochOfRide'
    BY <1>21 DEF StreamStarts
  <2>8. ShownRideIsInProgress'
    BY <1>21 DEF StreamStarts
  <2> QED
    BY <2>1, <2>2, <2>3, <2>4, <2>5, <2>6, <2>7, <2>8 DEF RideInv
<1>22. ASSUME NEW f \in Future, StartIsLate(f)
      PROVE  RideInv'
  BY <1>22 DEF StartIsLate
<1>23. ASSUME NEW c \in Checks, CheckAnswered(c)
      PROVE  RideInv'
  <2>1. ASSUME phase = "recording" /\ ~granted
        PROVE  RideInv'
    <3>1. Stop(c) /\ pc[c] # "cancel"
      BY <1>23, <2>1 DEF CheckAnswered
    <3>2. Stopping(c)
      BY <3>1, StopOK, KindsApart
    <3>3. CapturesOwnRide'
      BY <1>23, <2>1, <3>2 DEF CheckAnswered, Stopping
    <3>4. IdleHoldNothing'
      BY <1>23, <2>1, <3>2 DEF CheckAnswered, Stopping
    <3>5. CapturedOrFinished'
      <4>1. /\ rideOf' = [rideOf EXCEPT ![c] = session]
            /\ UNCHANGED <<row, session, job>> /\ pc'[Op] = pc[Op]
        BY <1>23, <2>1, <3>2, KindsApart DEF CheckAnswered, Stopping
      <4> QED
        BY <4>1
    <3>6. BootsAlone'
      BY <1>23, <2>1, <3>2 DEF CheckAnswered, Stopping
    <3>7. CandidateIsInProgress'
      BY <1>23, <2>1, <3>2 DEF CheckAnswered, Stopping
    <3>8. HoldersStart'
      BY <1>23, <2>1, <3>2 DEF CheckAnswered, Stopping
    <3>9. EpochOfRide'
      BY <1>23, <2>1, <3>2 DEF CheckAnswered, Stopping
    <3>10. ShownRideIsInProgress'
      BY <1>23, <2>1, <3>2 DEF CheckAnswered, Stopping
    <3> QED
      BY <3>3, <3>4, <3>5, <3>6, <3>7, <3>8, <3>9, <3>10 DEF RideInv
  <2>2. ASSUME ~(phase = "recording" /\ ~granted)
        PROVE  RideInv'
    <3>1. CapturesOwnRide'
      BY <1>23, <2>2 DEF CheckAnswered
    <3>2. IdleHoldNothing'
      BY <1>23, <2>2 DEF CheckAnswered
    <3>3. CapturedOrFinished'
      BY <1>23, <2>2 DEF CheckAnswered
    <3>4. BootsAlone'
      <4>1. End(c) /\ UNCHANGED <<phase, session, candidate>>
        BY <1>23, <2>2 DEF CheckAnswered
      <4>2. \A g \in Future : g # c => pc'[g] = pc[g] /\ rideOf'[g] = rideOf[g]
        BY <4>1
      <4>3. pc'[c] = "idle" /\ pc'[Op] = pc[Op]
        BY <4>1, KindsApart
      <4> QED
        BY <4>1, <4>2, <4>3, KindsApart
    <3>5. CandidateIsInProgress'
      BY <1>23, <2>2 DEF CheckAnswered
    <3>6. HoldersStart'
      BY <1>23, <2>2 DEF CheckAnswered
    <3>7. EpochOfRide'
      BY <1>23, <2>2 DEF CheckAnswered
    <3>8. ShownRideIsInProgress'
      BY <1>23, <2>2 DEF CheckAnswered
    <3> QED
      BY <3>1, <3>2, <3>3, <3>4, <3>5, <3>6, <3>7, <3>8 DEF RideInv
  <2> QED
    BY <2>1, <2>2
<1>24. ASSUME NEW c \in Checks, LossStopped(c)
      PROVE  RideInv'
  <2>1. CapturesOwnRide'
    <3>1. Goto(c, "idle") /\ rideOf' = [rideOf EXCEPT ![c] = Nil] /\ c # Op /\ UNCHANGED job
      BY <1>24, KindsApart DEF LossStopped
    <3>2. session # Nil => session' # Nil
      BY <1>24 DEF LossStopped
    <3> QED
      BY <3>1, <3>2
  <2>2. IdleHoldNothing'
    BY <1>24 DEF LossStopped
  <2>3. CapturedOrFinished'
    BY <1>24 DEF LossStopped
  <2>4. BootsAlone'
    BY <1>24 DEF LossStopped
  <2>5. CandidateIsInProgress'
    BY <1>24 DEF LossStopped
  <2>6. HoldersStart'
    BY <1>24 DEF LossStopped
  <2>7. EpochOfRide'
    BY <1>24 DEF LossStopped
  <2>8. ShownRideIsInProgress'
    BY <1>24 DEF LossStopped
  <2> QED
    BY <2>1, <2>2, <2>3, <2>4, <2>5, <2>6, <2>7, <2>8 DEF RideInv
<1>25. ASSUME NEW b \in Boots, BootAnswered(b)
      PROVE  RideInv'
  BY <1>25 DEF BootAnswered
<1>26. ASSUME NEW r \in Restarts, DelayEnds(r)
      PROVE  RideInv'
  <2>1. ASSUME Active(r) /\ fresh # "recent"
        PROVE  RideInv'
    <3>1. Stop(r) /\ pc[r] # "cancel"
      BY <1>26, <2>1 DEF DelayEnds
    <3>2. Stopping(r)
      BY <3>1, StopOK, KindsApart
    <3>3. CapturesOwnRide'
      BY <1>26, <2>1, <3>2 DEF DelayEnds, Stopping
    <3>4. IdleHoldNothing'
      BY <1>26, <2>1, <3>2 DEF DelayEnds, Stopping
    <3>5. CapturedOrFinished'
      BY <1>26, <2>1, <3>2 DEF DelayEnds, Stopping
    <3>6. BootsAlone'
      BY <1>26, <2>1, <3>2 DEF DelayEnds, Stopping
    <3>7. CandidateIsInProgress'
      BY <1>26, <2>1, <3>2 DEF DelayEnds, Stopping
    <3>8. HoldersStart'
      BY <1>26, <2>1, <3>2 DEF DelayEnds, Stopping
    <3>9. EpochOfRide'
      BY <1>26, <2>1, <3>2 DEF DelayEnds, Stopping
    <3>10. ShownRideIsInProgress'
      BY <1>26, <2>1, <3>2 DEF DelayEnds, Stopping
    <3> QED
      BY <3>3, <3>4, <3>5, <3>6, <3>7, <3>8, <3>9, <3>10 DEF RideInv
  <2>2. ASSUME ~(Active(r) /\ fresh # "recent")
        PROVE  RideInv'
    <3>1. CapturesOwnRide'
      BY <1>26, <2>2 DEF DelayEnds
    <3>2. IdleHoldNothing'
      BY <1>26, <2>2 DEF DelayEnds
    <3>3. CapturedOrFinished'
      BY <1>26, <2>2 DEF DelayEnds
    <3>4. BootsAlone'
      BY <1>26, <2>2 DEF DelayEnds
    <3>5. CandidateIsInProgress'
      BY <1>26, <2>2 DEF DelayEnds
    <3>6. HoldersStart'
      BY <1>26, <2>2 DEF DelayEnds
    <3>7. EpochOfRide'
      BY <1>26, <2>2 DEF DelayEnds
    <3>8. ShownRideIsInProgress'
      BY <1>26, <2>2 DEF DelayEnds
    <3> QED
      BY <3>1, <3>2, <3>3, <3>4, <3>5, <3>6, <3>7, <3>8 DEF RideInv
  <2> QED
    BY <2>1, <2>2
<1>27. CASE WatchdogFires
  <2>1. CapturesOwnRide'
    BY <1>27 DEF WatchdogFires
  <2>2. IdleHoldNothing'
    BY <1>27 DEF WatchdogFires
  <2>3. CapturedOrFinished'
    BY <1>27 DEF WatchdogFires
  <2>4. BootsAlone'
    BY <1>27 DEF WatchdogFires
  <2>5. CandidateIsInProgress'
    BY <1>27 DEF WatchdogFires
  <2>6. HoldersStart'
    BY <1>27 DEF WatchdogFires
  <2>7. EpochOfRide'
    BY <1>27 DEF WatchdogFires
  <2>8. ShownRideIsInProgress'
    BY <1>27 DEF WatchdogFires
  <2> QED
    BY <2>1, <2>2, <2>3, <2>4, <2>5, <2>6, <2>7, <2>8 DEF RideInv
<1>28. ASSUME NEW s \in Stream, SampleArrives(s)
      PROVE  RideInv'
  BY <1>28 DEF SampleArrives
<1>29. ASSUME NEW s \in Stream, AutoPause(s)
      PROVE  RideInv'
  <2>1. Stop(Op) /\ pc[Op] # "cancel"
    BY <1>29 DEF AutoPause
  <2>2. Stopping(Op)
    BY <2>1, StopOK, KindsApart
  <2> QED
    BY <1>29, <2>2 DEF AutoPause, Stopping
<1>30. ASSUME NEW s \in Stream, StreamBreaks(s)
      PROVE  RideInv'
  <2>1. ASSUME Active(s) /\ (s \in live' \/ ~stopping)
        PROVE  RideInv'
    <3>1. CapturesOwnRide'
      BY <1>30, <2>1 DEF StreamBreaks
    <3>2. IdleHoldNothing'
      BY <1>30, <2>1 DEF StreamBreaks
    <3>3. CapturedOrFinished'
      <4>1. rideOf' = rideOf \/ \E r \in Restarts : rideOf' = [rideOf EXCEPT ![r] = session]
        BY <1>30, <2>1 DEF StreamBreaks
      <4>2. UNCHANGED <<row, session, job>> /\ pc'[Op] = pc[Op]
        BY <1>30, <2>1, KindsApart DEF StreamBreaks
      <4> QED
        BY <4>1, <4>2
    <3>4. BootsAlone'
      BY <1>30, <2>1 DEF StreamBreaks
    <3>5. CandidateIsInProgress'
      BY <1>30, <2>1 DEF StreamBreaks
    <3>6. HoldersStart'
      BY <1>30, <2>1 DEF StreamBreaks
    <3>7. EpochOfRide'
      BY <1>30, <2>1 DEF StreamBreaks
    <3>8. ShownRideIsInProgress'
      BY <1>30, <2>1 DEF StreamBreaks
    <3> QED
      BY <3>1, <3>2, <3>3, <3>4, <3>5, <3>6, <3>7, <3>8 DEF RideInv
  <2>2. ASSUME ~(Active(s) /\ (s \in live' \/ ~stopping))
        PROVE  RideInv'
    <3>1. CapturesOwnRide'
      BY <1>30, <2>2 DEF StreamBreaks
    <3>2. IdleHoldNothing'
      BY <1>30, <2>2 DEF StreamBreaks
    <3>3. CapturedOrFinished'
      BY <1>30, <2>2 DEF StreamBreaks
    <3>4. BootsAlone'
      BY <1>30, <2>2 DEF StreamBreaks
    <3>5. CandidateIsInProgress'
      BY <1>30, <2>2 DEF StreamBreaks
    <3>6. HoldersStart'
      BY <1>30, <2>2 DEF StreamBreaks
    <3>7. EpochOfRide'
      BY <1>30, <2>2 DEF StreamBreaks
    <3>8. ShownRideIsInProgress'
      BY <1>30, <2>2 DEF StreamBreaks
    <3> QED
      BY <3>1, <3>2, <3>3, <3>4, <3>5, <3>6, <3>7, <3>8 DEF RideInv
  <2> QED
    BY <2>1, <2>2
<1>31. ASSUME NEW f \in {Op} \cup Restarts, StartFails(f)
      PROVE  RideInv'
  <2>1. CapturesOwnRide'
    BY <1>31 DEF StartFails
  <2>2. IdleHoldNothing'
    BY <1>31 DEF StartFails
  <2>3. CapturedOrFinished'
    BY <1>31 DEF StartFails
  <2>4. BootsAlone'
    BY <1>31 DEF StartFails
  <2>5. CandidateIsInProgress'
    BY <1>31 DEF StartFails
  <2>6. HoldersStart'
    BY <1>31 DEF StartFails
  <2>7. EpochOfRide'
    BY <1>31 DEF StartFails
  <2>8. ShownRideIsInProgress'
    BY <1>31 DEF StartFails
  <2> QED
    BY <2>1, <2>2, <2>3, <2>4, <2>5, <2>6, <2>7, <2>8 DEF RideInv
<1>32. ASSUME NEW c \in Checks, AppResumed(c)
      PROVE  RideInv'
  BY <1>32 DEF AppResumed
<1>33. ASSUME NEW b \in Boots, Bootstrap(b)
      PROVE  RideInv'
  BY <1>33 DEF Bootstrap
<1>34. CASE FinishFailed
  BY <1>34 DEF FinishFailed
<1>35. CASE SampleAges
  BY <1>35 DEF SampleAges
<1>36. CASE GpsAsks
  BY <1>36 DEF GpsAsks
<1>37. CASE GpsShown
  BY <1>37 DEF GpsShown
<1>38. CASE PermissionChanges
  BY <1>38 DEF PermissionChanges
<1>39. CASE Killed
  BY <1>39 DEF Killed
<1> QED
  BY <1>1, <1>2, <1>3, <1>4, <1>5, <1>6, <1>7, <1>8, <1>9, <1>10, <1>11, <1>12, <1>13, <1>14,
     <1>15, <1>16, <1>17, <1>18, <1>19, <1>20, <1>21, <1>22, <1>23, <1>24, <1>25, <1>26, <1>27,
     <1>28, <1>29, <1>30, <1>31, <1>32, <1>33, <1>34, <1>35, <1>36, <1>37, <1>38, <1>39
  DEF Next,
     Buttons, OpSteps, StreamSteps, CheckSteps, Environment

LEMMA FinishedStep == RecInv /\ [Next]_vars => FinishedStays
<1> SUFFICES ASSUME RecInv, [Next]_vars
             PROVE  FinishedStays
  OBVIOUS
<1> USE RecorderAssumption DEF RecInv, RecTypeOK, ViewTypeOK, FutureTypeOK, StreamTypeOK,
   FinishedStays, RideInv, CapturesOwnRide,
            CandidateIsInProgress, InProgress, StartJobs, Future, Goto, End,
            Tap, AskedFor, Recovering, QueueRestart
<1>1. CASE UNCHANGED vars
  BY <1>1
<1>2. CASE StartRecording
  BY <1>2 DEF StartRecording
<1>3. CASE Resume
  BY <1>3 DEF Resume
<1>4. CASE ResumeRecovered
  BY <1>4 DEF ResumeRecovered
<1>5. CASE DiscardRecovery
  BY <1>5 DEF DiscardRecovery
<1>6. CASE RequestPermissions
  BY <1>6 DEF RequestPermissions
<1>7. CASE Pause
  BY <1>7 DEF Pause
<1>8. CASE Finish
  BY <1>8 DEF Finish
<1>9. CASE NotReady
  BY <1>9 DEF NotReady
<1>10. CASE StartReady
  <2>1. row' = row \/ \E x \in Ride : row[x] = "none" /\ row' = [row EXCEPT ![x] = "recording"]
    BY <1>10 DEF StartReady
  <2> QED
    BY <2>1
<1>11. CASE ResumeReady
  BY <1>11 DEF ResumeReady
<1>12. CASE RecoveryAnswered
  BY <1>12 DEF RecoveryAnswered
<1>13. CASE RecoveryReady
  BY <1>13 DEF RecoveryReady
<1>14. CASE RecoveryNotReady
  BY <1>14 DEF RecoveryNotReady
<1>15. CASE RequestAnswered
  BY <1>15 DEF RequestAnswered
<1>16. CASE RequestEnds
  BY <1>16 DEF RequestEnds
<1>17. CASE PauseStopped
  BY <1>17 DEF PauseStopped
<1>18. CASE FinishStopped
  BY <1>18 DEF FinishStopped
<1>19. ASSUME NEW f \in Future, CancelEnds(f)
      PROVE  FinishedStays
  BY <1>19 DEF CancelEnds
<1>20. ASSUME NEW f \in Future, StartGoesOn(f)
      PROVE  FinishedStays
  BY <1>20 DEF StartGoesOn
<1>21. ASSUME NEW f \in Future, StreamStarts(f)
      PROVE  FinishedStays
  BY <1>21 DEF StreamStarts
<1>22. ASSUME NEW f \in Future, StartIsLate(f)
      PROVE  FinishedStays
  BY <1>22 DEF StartIsLate
<1>23. ASSUME NEW c \in Checks, CheckAnswered(c)
      PROVE  FinishedStays
  BY <1>23 DEF CheckAnswered
<1>24. ASSUME NEW c \in Checks, LossStopped(c)
      PROVE  FinishedStays
  BY <1>24 DEF LossStopped
<1>25. ASSUME NEW b \in Boots, BootAnswered(b)
      PROVE  FinishedStays
  BY <1>25 DEF BootAnswered
<1>26. ASSUME NEW r \in Restarts, DelayEnds(r)
      PROVE  FinishedStays
  BY <1>26 DEF DelayEnds
<1>27. CASE WatchdogFires
  BY <1>27 DEF WatchdogFires
<1>28. ASSUME NEW s \in Stream, SampleArrives(s)
      PROVE  FinishedStays
  BY <1>28 DEF SampleArrives
<1>29. ASSUME NEW s \in Stream, AutoPause(s)
      PROVE  FinishedStays
  BY <1>29 DEF AutoPause
<1>30. ASSUME NEW s \in Stream, StreamBreaks(s)
      PROVE  FinishedStays
  BY <1>30 DEF StreamBreaks
<1>31. ASSUME NEW f \in {Op} \cup Restarts, StartFails(f)
      PROVE  FinishedStays
  BY <1>31 DEF StartFails
<1>32. ASSUME NEW c \in Checks, AppResumed(c)
      PROVE  FinishedStays
  BY <1>32 DEF AppResumed
<1>33. ASSUME NEW b \in Boots, Bootstrap(b)
      PROVE  FinishedStays
  BY <1>33 DEF Bootstrap
<1>34. CASE FinishFailed
  BY <1>34 DEF FinishFailed
<1>35. CASE SampleAges
  BY <1>35 DEF SampleAges
<1>36. CASE GpsAsks
  BY <1>36 DEF GpsAsks
<1>37. CASE GpsShown
  BY <1>37 DEF GpsShown
<1>38. CASE PermissionChanges
  BY <1>38 DEF PermissionChanges
<1>39. CASE Killed
  BY <1>39 DEF Killed
<1> QED
  BY <1>1, <1>2, <1>3, <1>4, <1>5, <1>6, <1>7, <1>8, <1>9, <1>10, <1>11, <1>12, <1>13, <1>14,
     <1>15, <1>16, <1>17, <1>18, <1>19, <1>20, <1>21, <1>22, <1>23, <1>24, <1>25, <1>26, <1>27,
     <1>28, <1>29, <1>30, <1>31, <1>32, <1>33, <1>34, <1>35, <1>36, <1>37, <1>38, <1>39
  DEF Next,
     Buttons, OpSteps, StreamSteps, CheckSteps, Environment

LEMMA ScreenStep ==
  ASSUME Retries = FALSE, RecInv, ScreenInv, [Next]_vars
  PROVE  ScreenInv'
<1> USE RecorderAssumption DEF RecInv, RecTypeOK, ViewTypeOK, FutureTypeOK, StreamTypeOK,
   ScreenInv, RowFollowsScreen, RideInv, CapturesOwnRide, CapturedOrFinished,
            BootsAlone, ShownRideIsInProgress, CandidateIsInProgress, InProgress, StartJobs, Future, Goto, End,
            Tap, AskedFor, Recovering, QueueRestart
<1>1. CASE UNCHANGED vars
  BY <1>1
<1>2. CASE StartRecording
  BY <1>2 DEF StartRecording
<1>3. CASE Resume
  BY <1>3 DEF Resume
<1>4. CASE ResumeRecovered
  BY <1>4 DEF ResumeRecovered
<1>5. CASE DiscardRecovery
  BY <1>5 DEF DiscardRecovery
<1>6. CASE RequestPermissions
  BY <1>6 DEF RequestPermissions
<1>7. CASE Pause
  BY <1>7 DEF Pause
<1>8. CASE Finish
  BY <1>8 DEF Finish
<1>9. CASE NotReady
  BY <1>9 DEF NotReady
<1>10. CASE StartReady
  <2>1. /\ session = Nil /\ phase' = "recording" /\ job = "start" /\ job' = job
        /\ pc'[Op] \in {"stopped", "cancel"}
    BY <1>10 DEF StartReady, Stop
  <2>2. PICK x \in Ride : session' = x /\ row' = [row EXCEPT ![x] = "recording"]
    BY <1>10, <2>1 DEF StartReady
  <2> QED
    BY <2>1, <2>2
<1>11. CASE ResumeReady
  BY <1>11 DEF ResumeReady
<1>12. CASE RecoveryAnswered
  BY <1>12 DEF RecoveryAnswered
<1>13. CASE RecoveryReady
  BY <1>13 DEF RecoveryReady
<1>14. CASE RecoveryNotReady
  BY <1>14 DEF RecoveryNotReady
<1>15. CASE RequestAnswered
  BY <1>15 DEF RequestAnswered
<1>16. CASE RequestEnds
  BY <1>16 DEF RequestEnds
<1>17. CASE PauseStopped
  BY <1>17 DEF PauseStopped
<1>18. CASE FinishStopped
  BY <1>18 DEF FinishStopped
<1>19. ASSUME NEW f \in Future, CancelEnds(f)
      PROVE  ScreenInv'
  BY <1>19 DEF CancelEnds
<1>20. ASSUME NEW f \in Future, StartGoesOn(f)
      PROVE  ScreenInv'
  BY <1>20 DEF StartGoesOn
<1>21. ASSUME NEW f \in Future, StreamStarts(f)
      PROVE  ScreenInv'
  BY <1>21 DEF StreamStarts
<1>22. ASSUME NEW f \in Future, StartIsLate(f)
      PROVE  ScreenInv'
  BY <1>22 DEF StartIsLate
<1>23. ASSUME NEW c \in Checks, CheckAnswered(c)
      PROVE  ScreenInv'
  BY <1>23, KindsApart DEF CheckAnswered, Stop
<1>24. ASSUME NEW c \in Checks, LossStopped(c)
      PROVE  ScreenInv'
  BY <1>24 DEF LossStopped
<1>25. ASSUME NEW b \in Boots, BootAnswered(b)
      PROVE  ScreenInv'
  BY <1>25 DEF BootAnswered
<1>26. ASSUME NEW r \in Restarts, DelayEnds(r)
      PROVE  ScreenInv'
  BY <1>26, KindsApart DEF DelayEnds, Stop
<1>27. CASE WatchdogFires
  BY <1>27 DEF WatchdogFires
<1>28. ASSUME NEW s \in Stream, SampleArrives(s)
      PROVE  ScreenInv'
  BY <1>28 DEF SampleArrives
<1>29. ASSUME NEW s \in Stream, AutoPause(s)
      PROVE  ScreenInv'
  BY <1>29 DEF AutoPause
<1>30. ASSUME NEW s \in Stream, StreamBreaks(s)
      PROVE  ScreenInv'
  BY <1>30 DEF StreamBreaks
<1>31. ASSUME NEW f \in {Op} \cup Restarts, StartFails(f)
      PROVE  ScreenInv'
  BY <1>31 DEF StartFails
<1>32. ASSUME NEW c \in Checks, AppResumed(c)
      PROVE  ScreenInv'
  BY <1>32 DEF AppResumed
<1>33. ASSUME NEW b \in Boots, Bootstrap(b)
      PROVE  ScreenInv'
  BY <1>33 DEF Bootstrap
<1>34. CASE FinishFailed
  BY <1>34 DEF FinishFailed
<1>35. CASE SampleAges
  BY <1>35 DEF SampleAges
<1>36. CASE GpsAsks
  BY <1>36 DEF GpsAsks
<1>37. CASE GpsShown
  BY <1>37 DEF GpsShown
<1>38. CASE PermissionChanges
  BY <1>38 DEF PermissionChanges
<1>39. CASE Killed
  BY <1>39 DEF Killed
<1> QED
  BY <1>1, <1>2, <1>3, <1>4, <1>5, <1>6, <1>7, <1>8, <1>9, <1>10, <1>11, <1>12, <1>13, <1>14,
     <1>15, <1>16, <1>17, <1>18, <1>19, <1>20, <1>21, <1>22, <1>23, <1>24, <1>25, <1>26, <1>27,
     <1>28, <1>29, <1>30, <1>31, <1>32, <1>33, <1>34, <1>35, <1>36, <1>37, <1>38, <1>39
  DEF Next,
     Buttons, OpSteps, StreamSteps, CheckSteps, Environment

-----------------------------------------------------------------------------
(* The theorems. *)

LEMMA RecInitOK == Init => RecInv
<1> SUFFICES ASSUME Init
             PROVE  RecInv
  OBVIOUS
<1> USE RecorderAssumption DEF Init, ProcessStarts
<1>1. RecTypeOK
  <2>1. ViewTypeOK
    <3>1. faults \in 0 .. MaxFaults /\ kills \in 0 .. MaxKills
      OBVIOUS
    <3>2. told \in BOOLEAN /\ granted \in BOOLEAN
      OBVIOUS
    <3> QED
      BY <3>1, <3>2 DEF ViewTypeOK
  <2>2. FutureTypeOK
    BY DEF FutureTypeOK, Future, StartJobs
  <2>3. StreamTypeOK
    <3>1. waits \in [Stream -> Seq(Future)]
      OBVIOUS
    <3> QED
      BY <3>1 DEF StreamTypeOK
  <2> QED
    BY <2>1, <2>2, <2>3 DEF RecTypeOK
<1>2. WaitersWait /\ PlacesOfFutures
  BY KindsApart DEF WaitersWait, PlacesOfFutures
<1>3. RideInv
  BY KindsApart
  DEF RideInv, CapturesOwnRide, IdleHoldNothing, CapturedOrFinished, BootsAlone, Recovering,
      CandidateIsInProgress, HoldersStart, EpochOfRide, Requesting, ShownRideIsInProgress
<1> QED
  BY <1>1, <1>2, <1>3 DEF RecInv

(* Whatever is tapped, answered, broken, delayed or killed, in any order and
   with any number of streams, checks and restarts: what a future awaits, the
   ride it captured, the epoch, the screen and the rows fit together. *)
THEOREM RecInvHolds == Spec => []RecInv
<1>1. RecInv /\ [Next]_vars => RecInv'
  BY TypeStep, WaitersStep, RideStep DEF RecInv
<1> QED
  BY <1>1, RecInitOK, PTL DEF Spec

(* Every variable keeps its type; in particular a future only waits in a list
   of a stream, and the phase a request restores is one it can come from. *)
THEOREM TypesHold == Spec => []RecTypeOK
<1>1. RecInv => RecTypeOK
  BY DEF RecInv
<1> QED
  BY <1>1, RecInvHolds, PTL

(* Whoever holds the current epoch while a ride is recorded captured that ride:
   a sample, a restart or an error of an earlier stream never reaches the next. *)
THEOREM EpochHolds == Spec => []EpochKeepsRide
<1>1. RecInv => EpochKeepsRide
  BY DEF RecInv, RideInv, EpochOfRide, EpochKeepsRide
<1> QED
  BY <1>1, RecInvHolds, PTL

(* The ride the controller holds is recording or paused. *)
THEOREM ShownRideHolds == Spec => []ShownRideIsInProgress
<1>1. RecInv => ShownRideIsInProgress
  BY DEF RecInv, RideInv
<1> QED
  BY <1>1, RecInvHolds, PTL

(* A ride that finish has closed is never written again by a pause, an
   auto-pause, a permission loss, a resume or a recovery that comes late. *)
THEOREM FinishedHolds == Spec => FinishedStaysFinished
<1>1. RecInv /\ [Next]_vars => [FinishedStays]_vars
  BY FinishedStep
<1> QED
  BY <1>1, RecInvHolds, PTL DEF Spec, FinishedStaysFinished, FinishedStays

(* With the permission banner left alone, the screen says "recording" only of a
   ride whose row takes points, and "ready" only without a ride: pauses, losses,
   finishes that fail and recoveries, in any order, keep the two together. *)
THEOREM ScreenHolds ==
  ASSUME Retries = FALSE
  PROVE  Spec => []RowFollowsScreen
<1>1. Init => ScreenInv
  BY DEF Init, ProcessStarts, ScreenInv, RowFollowsScreen
<1>2. RecInv /\ ScreenInv /\ [Next]_vars => ScreenInv'
  BY ScreenStep
<1>3. ScreenInv => RowFollowsScreen
  BY DEF ScreenInv
<1> QED
  BY <1>1, <1>2, <1>3, RecInvHolds, PTL DEF Spec
===============================================================================
