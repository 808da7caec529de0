---------------------------- MODULE RideBookProofs ----------------------------
(***************************************************************************)
(* Proofs about RideBook, for every set of rides, tasks and identifiers    *)
(* and any number of faults: the screen, the loop and the sync tasks never *)
(* make the phone forget a delete that the rider confirmed.                *)
(***************************************************************************)
EXTENDS RideBook, RideSyncProofs

USE DEF vars, storeVars, rowVars, serverVars, syncVars, taskVars, netVars, screenVars, loopVars, bookVars

(* What the sync tasks start, continue and lose stays about a ride and,     *)
(* past the draft, a session.                                               *)
LEMMA TasksHoldSomethingStep ==
  TypeOK /\ TasksHoldSomething /\ [Next]_vars => TasksHoldSomething'
<1> SUFFICES ASSUME TypeOK, TasksHoldSomething, [Next]_vars PROVE TasksHoldSomething'
    OBVIOUS
<1> USE RideAssumption, TaskAssumption DEF TypeOK, StoreTypeOK, TasksHoldSomething, Bound, SyncPC,
        RefreshPC, Row, Present, Absent
<1>1. ASSUME NEW x \in Ride, StartRide(x) \/ PauseRide(x) \/ ResumeRide(x) \/ FinishRide(x)
       PROVE  TasksHoldSomething'
  BY <1>1 DEF StartRide, PauseRide, ResumeRide, FinishRide
<1>2. ASSUME NEW t \in Buttons, NEW x \in Ride, ButtonPressed(t, x) PROVE TasksHoldSomething'
  BY <1>2 DEF ButtonPressed, Goto, Task
<1>3. ASSUME NEW t \in Screens, ScreenOpens(t) PROVE TasksHoldSomething'
  BY <1>3 DEF ScreenOpens, Goto, Task
<1>4. ASSUME PassStarts PROVE TasksHoldSomething'
  BY <1>4 DEF PassStarts, PassBegin, PassTakesRide, PassTurnsToRefresh, Goto, Task
<1>5. ASSUME NEW t \in Task, SyncStep(t) PROVE TasksHoldSomething'
  <2>1. CASE BeginAttempt(t)
    BY <2>1 DEF BeginAttempt, Goto
  <2>2. CASE ReadRow(t)
    BY <2>2 DEF ReadRow, SyncReturns, AfterSync, Goto
  <2>3. CASE DraftCreated(t)
    BY <2>3 DEF DraftCreated, CreateSession, Goto
  <2>4. CASE BindDraft(t)
    BY <2>4 DEF BindDraft, Goto
  <2>5. CASE BatchStored(t)
    BY <2>5 DEF BatchStored
  <2>6. CASE BatchRefused(t) \/ CompleteRefused(t)
    BY <2>6 DEF BatchRefused, CompleteRefused, Uploading, Goto
  <2>7. CASE ReadSummary(t)
    BY <2>7 DEF ReadSummary, SyncReturns, AfterSync, Goto
  <2>8. CASE SessionCompleted(t)
    BY <2>8 DEF SessionCompleted, Goto
  <2>9. CASE MarkSynced(t) \/ MarkFailed(t)
    BY <2>9 DEF MarkSynced, MarkFailed, SyncReturns, AfterSync, Goto
  <2> QED BY <1>5, <2>1, <2>2, <2>3, <2>4, <2>5, <2>6, <2>7, <2>8, <2>9 DEF SyncStep
<1>6. ASSUME NEW t \in Task, RefreshStep(t) \/ MeetsReconciliation(t) PROVE TasksHoldSomething'
  <2>1. PICK l \in {"look", "join", "rehydrate", "hide", "fetch", "store", "hydrate", "idle"} :
            pc' = [pc EXCEPT ![t] = l] /\ UNCHANGED <<on, rem>>
    BY <1>6 DEF RefreshStep, MeetsReconciliation, LookAtCache, HydrateRow, HistoryListed, ReplaceCache,
                ReadHidden, JoinReconciliation, ReadTombstones, Goto
  <2> QED BY <2>1
<1>7. ASSUME NEW t \in Task, RequestLost(t) PROVE TasksHoldSomething'
  BY <1>7 DEF RequestLost, Abandon, Uploading, Goto
<1>8. CASE Crash
  BY <1>8 DEF Crash
<1>9. CASE LateStep
  BY <1>9 DEF LateStep, LateDraft, LateBatch, LateCompletion
<1>10. CASE UNCHANGED vars
  BY <1>10
<1> HIDE DEF TypeOK, StoreTypeOK, TasksHoldSomething
<1> QED BY <1>1, <1>2, <1>3, <1>4, <1>5, <1>6, <1>7, <1>8, <1>9, <1>10 DEF Next, UserStep

(* A sync task writes no tombstone, and nothing brings back a session that  *)
(* the server has deleted: a draft is made where there was no session, and  *)
(* only a draft is completed.                                               *)
LEMMA DeletedStaysDeleted ==
  ASSUME TypeOK, [Next]_vars
  PROVE  tomb' = tomb /\ \A r \in Remote : status[r] = "deleted" => status'[r] = "deleted"
<1> USE DEF TypeOK, StoreTypeOK
<1>1. CASE UserStep
  BY <1>1 DEF UserStep, StartRide, PauseRide, ResumeRide, FinishRide, ButtonPressed, ScreenOpens
<1>2. CASE PassStarts
  BY <1>2 DEF PassStarts, PassBegin, PassTakesRide, PassTurnsToRefresh
<1>3. ASSUME NEW t \in Task, SyncStep(t)
      PROVE  tomb' = tomb /\ \A r \in Remote : status[r] = "deleted" => status'[r] = "deleted"
  <2>1. CASE DraftCreated(t)
    BY <2>1 DEF DraftCreated, CreateSession
  <2>2. CASE SessionCompleted(t)
    BY <2>2 DEF SessionCompleted, CompleteSession
  <2>3. CASE ~DraftCreated(t) /\ ~SessionCompleted(t)
    BY <1>3, <2>3 DEF SyncStep, BeginAttempt, ReadRow, BindDraft, BatchStored, StoreBatch, BatchRefused,
                      ReadSummary, CompleteRefused, MarkSynced, MarkFailed
  <2> QED BY <2>1, <2>2, <2>3
<1>4. ASSUME NEW t \in Task, RefreshStep(t) \/ MeetsReconciliation(t)
      PROVE  tomb' = tomb /\ status' = status
  BY <1>4 DEF RefreshStep, MeetsReconciliation, LookAtCache, HydrateRow, HistoryListed, ReplaceCache,
              ReadHidden, JoinReconciliation, ReadTombstones
<1>5. ASSUME NEW t \in Task, RequestLost(t) PROVE tomb' = tomb /\ status' = status
  BY <1>5 DEF RequestLost
<1>6. CASE Crash
  BY <1>6 DEF Crash
<1>7. CASE LateStep
  BY <1>7 DEF LateStep, LateDraft, CreateSession, LateBatch, StoreBatch, LateCompletion, CompleteSession
<1>8. CASE UNCHANGED vars
  BY <1>8
<1> QED BY <1>1, <1>2, <1>3, <1>4, <1>5, <1>6, <1>7, <1>8 DEF Next

(* A step is one of RideSync, which at most kicks the loop, or one of the   *)
(* screen, the loop, the network or the process.                            *)
LEMMA StepsOfTheBook ==
  ASSUME [BookNext]_allVars
  PROVE  \/ [Next]_vars /\ (UNCHANGED bookVars \/ \E T \in SUBSET Task : Kick(T))
         \/ (\E x \in Row : OpenDetail(x)) \/ CloseDetail \/ ConfirmDelete
         \/ DeleteStep \/ LoopStep \/ BookFault
         \/ \E r \in Remote : DueAgain(r) \/ LateDeletion(r)
         \/ BookCrash
<1>1. ASSUME NEW t \in Task, TaskStep(t)
      PROVE  Next /\ (UNCHANGED bookVars \/ \E T \in SUBSET Task : Kick(T))
  BY <1>1 DEF TaskStep, Next, MeetsReconciliation
<1> QED BY <1>1 DEF BookNext, allVars, Next

(* Types, and what the tasks hold.                                          *)
LEMMA BookTypeStep ==
  ASSUME BookInv, [BookNext]_allVars
  PROVE  BookTypeOK' /\ TasksHoldSomething'
<1> USE DEF BookInv
<1>1. ASSUME [Next]_vars, UNCHANGED bookVars \/ \E T \in SUBSET Task : Kick(T)
      PROVE  BookTypeOK' /\ TasksHoldSomething'
  <2>1. TypeOK' /\ TasksHoldSomething'
    BY <1>1, TypeStep, TasksHoldSomethingStep DEF BookTypeOK
  <2> HIDE DEF BookInv
  <2> QED BY <1>1, <2>1 DEF BookInv, BookTypeOK, Kick, TasksHoldSomething
<1> USE RideAssumption DEF BookTypeOK
<1>2. ASSUME NEW x \in Row, OpenDetail(x) PROVE BookTypeOK' /\ TasksHoldSomething'
  BY <1>2 DEF OpenDetail, TypeOK, StoreTypeOK, TasksHoldSomething
<1>3. CASE CloseDetail
  BY <1>3 DEF CloseDetail, TypeOK, StoreTypeOK, TasksHoldSomething
<1>4. CASE ConfirmDelete
  BY <1>4 DEF ConfirmDelete, SetTomb, TypeOK, StoreTypeOK, TasksHoldSomething
<1>5. CASE DeleteAnswered
  BY <1>5 DEF DeleteAnswered, DeleteSession, TypeOK, StoreTypeOK, TasksHoldSomething
<1>6. CASE ScreenClears \/ ScreenPostpones \/ ScreenFails
  BY <1>6 DEF ScreenClears, ScreenPostpones, ScreenFails, SetTomb, TypeOK, StoreTypeOK,
              TasksHoldSomething
<1>7. CASE RemoveRow
  BY <1>7 DEF RemoveRow, SetTomb, ScreenHoldsItsRide, TypeOK, StoreTypeOK, RowState, Absent,
              TasksHoldSomething
<1>8. CASE ListDue \/ TakeDue \/ RoundEnds
  <2>1. UNCHANGED vars => TypeOK' /\ TasksHoldSomething'
    BY DEF TypeOK, StoreTypeOK, TasksHoldSomething
  <2>2. CASE ListDue
    BY <2>1, <2>2 DEF ListDue
  <2>3. CASE TakeDue
    BY <2>1, <2>3 DEF TakeDue
  <2>4. CASE RoundEnds
    BY <2>1, <2>4 DEF RoundEnds
  <2> QED BY <1>8, <2>2, <2>3, <2>4
<1>9. CASE RetryAnswered
  BY <1>9 DEF RetryAnswered, DeleteSession, TypeOK, StoreTypeOK, TasksHoldSomething
<1>10. CASE RetryNoted
  BY <1>10 DEF RetryNoted, SetTomb, TypeOK, StoreTypeOK, TasksHoldSomething
<1>11. CASE BookFault
  BY <1>11, TaskAssumption DEF BookFault, DeleteLost, DeleteRefused, RetryLost, RetryRefused,
     loopVars, ScreenHoldsItsRide, LoopHoldsATombstone, TypeOK, StoreTypeOK, TasksHoldSomething
<1>12. ASSUME NEW r \in Remote, DueAgain(r) PROVE BookTypeOK' /\ TasksHoldSomething'
  BY <1>12 DEF DueAgain, SetTomb, TypeOK, StoreTypeOK, TasksHoldSomething
<1>13. ASSUME NEW r \in Remote, LateDeletion(r) PROVE BookTypeOK' /\ TasksHoldSomething'
  BY <1>13 DEF LateDeletion, DeleteSession, TypeOK, StoreTypeOK, TasksHoldSomething
<1>14. CASE BookCrash
  <2>1. TypeOK'
    BY <1>14, TaskAssumption DEF BookCrash, Abandon, Uploading, TypeOK, StoreTypeOK, TasksHoldSomething,
       Bound, SyncPC
  <2>2. TasksHoldSomething'
    BY <1>14 DEF BookCrash, TasksHoldSomething, Bound, SyncPC
  <2>3. /\ lateDelete' \in SUBSET Remote /\ asked' = asked
        /\ dpc' = "closed" /\ drow' = Nil /\ drem' = Nil /\ rpc' = "idle" /\ rtodo' = {}
        /\ rat' = Nil /\ again' = FALSE /\ joined' = {}
    BY <1>14 DEF BookCrash, ScreenHoldsItsRide, LoopHoldsATombstone
  <2> QED BY <2>1, <2>2, <2>3
<1> HIDE DEF BookInv, BookTypeOK
<1> QED
  BY <1>1, <1>2, <1>3, <1>4, <1>5, <1>6, <1>7, <1>8, <1>9, <1>10, <1>11, <1>12, <1>13, <1>14,
     StepsOfTheBook DEF DeleteStep, LoopStep

(* The tombstone of a confirmed delete is cleared only by who has heard the *)
(* server confirm it.                                                       *)
LEMMA DeleteStepOK ==
  ASSUME BookInv, BookTypeOK', [BookNext]_allVars
  PROVE  ScreenHoldsItsRide' /\ LoopHoldsATombstone' /\ DeleteIsNeverForgotten'
<1> DEFINE Kept == ScreenHoldsItsRide' /\ LoopHoldsATombstone' /\ DeleteIsNeverForgotten'
<1>1. ASSUME [Next]_vars, UNCHANGED bookVars \/ \E T \in SUBSET Task : Kick(T)
      PROVE  Kept
  <2>1. tomb' = tomb /\ \A r \in Remote : status[r] = "deleted" => status'[r] = "deleted"
    BY <1>1, DeletedStaysDeleted DEF BookInv, BookTypeOK
  <2>2. /\ UNCHANGED <<dpc, drow, drem, rat, asked>>
        /\ rpc' \in {rpc, "list"}
    BY <1>1 DEF Kick
  <2> QED BY <2>1, <2>2 DEF BookInv, BookTypeOK, ScreenHoldsItsRide, LoopHoldsATombstone,
                            DeleteIsNeverForgotten
<1> USE RideAssumption DEF BookInv, BookTypeOK, TypeOK, StoreTypeOK, ScreenHoldsItsRide, LoopHoldsATombstone,
        DeleteIsNeverForgotten
<1>2. ASSUME NEW x \in Row, OpenDetail(x) PROVE Kept
  BY <1>2 DEF OpenDetail
<1>3. CASE CloseDetail
  BY <1>3 DEF CloseDetail
<1>4. CASE ConfirmDelete
  BY <1>4 DEF ConfirmDelete, SetTomb
<1>5. CASE DeleteAnswered
  BY <1>5 DEF DeleteAnswered, DeleteSession
<1>6. CASE ScreenClears \/ ScreenPostpones \/ ScreenFails
  BY <1>6 DEF ScreenClears, ScreenPostpones, ScreenFails, SetTomb
<1>7. CASE RemoveRow
  BY <1>7 DEF RemoveRow, SetTomb
<1>8. CASE ListDue \/ TakeDue \/ RoundEnds
  BY <1>8 DEF ListDue, TakeDue, RoundEnds
<1>9. CASE RetryAnswered
  BY <1>9 DEF RetryAnswered, DeleteSession
<1>10. CASE RetryNoted
  BY <1>10 DEF RetryNoted, SetTomb
<1>11. CASE BookFault
  BY <1>11 DEF BookFault, DeleteLost, DeleteRefused, RetryLost, RetryRefused
<1>12. ASSUME NEW r \in Remote, DueAgain(r) PROVE Kept
  BY <1>12 DEF DueAgain, SetTomb
<1>13. ASSUME NEW r \in Remote, LateDeletion(r) PROVE Kept
  BY <1>13 DEF LateDeletion, DeleteSession
<1>14. CASE BookCrash
  BY <1>14 DEF BookCrash
<1> HIDE DEF BookInv, BookTypeOK, ScreenHoldsItsRide, LoopHoldsATombstone, DeleteIsNeverForgotten
<1> QED
  BY <1>1, <1>2, <1>3, <1>4, <1>5, <1>6, <1>7, <1>8, <1>9, <1>10, <1>11, <1>12, <1>13, <1>14,
     StepsOfTheBook DEF DeleteStep, LoopStep

LEMMA BookInitOK == BookInit => BookInv
<1>1. ASSUME BookInit PROVE TypeOK /\ TasksHoldSomething
  BY <1>1, InitIInv DEF BookInit, IInv, TasksHoldOwnSession, TasksHoldSomething
<1> QED BY <1>1 DEF BookInit, BookInv, BookTypeOK, ScreenHoldsItsRide, LoopHoldsATombstone, DeleteIsNeverForgotten

(* The inductive invariant of the book, for any number of lost, refused and *)
(* late requests and killed processes.                                      *)
THEOREM BookInvHolds == BookSpec => []BookInv
<1>1. BookInv /\ [BookNext]_allVars => BookInv'
  <2> SUFFICES ASSUME BookInv, [BookNext]_allVars PROVE BookInv'
      OBVIOUS
  <2>1. BookTypeOK' /\ TasksHoldSomething'
    BY BookTypeStep
  <2>2. ScreenHoldsItsRide' /\ LoopHoldsATombstone' /\ DeleteIsNeverForgotten'
    BY <2>1, DeleteStepOK
  <2> QED BY <2>1, <2>2 DEF BookInv
<1> QED BY <1>1, BookInitOK, PTL DEF BookSpec

(* A delete the rider confirmed is on the server or has a tombstone, in     *)
(* every state: deleteSession and the loop never forget one.                *)
THEOREM NeverForgotten == BookSpec => []DeleteIsNeverForgotten
<1>1. BookInv => DeleteIsNeverForgotten
  BY DEF BookInv
<1> QED BY <1>1, BookInvHolds, PTL

-----------------------------------------------------------------------------
(* Only what the rider asked for is deleted: every DELETE request comes     *)
(* from the screen, or from a tombstone the screen has written.             *)
DeletesWereAsked ==
  /\ \A r \in Remote : status[r] = "deleted" \/ tomb[r] # "none" => r \in asked
  /\ lateDelete \subseteq asked
  /\ rtodo \subseteq asked
  /\ dpc \in {"call", "clear", "postpone", "fail"} => drem \in asked
  /\ rpc \in {"call", "clear", "postpone", "fail"} => rat \in asked

(* A step of RideSync deletes nothing.                                      *)
LEMMA NoneDeleted ==
  ASSUME TypeOK, [Next]_vars
  PROVE  \A r \in Remote : status'[r] = "deleted" => status[r] = "deleted"
<1> USE DEF TypeOK, StoreTypeOK
<1>1. ASSUME NEW t \in Task, SyncStep(t)
      PROVE  \A r \in Remote : status'[r] = "deleted" => status[r] = "deleted"
  <2>1. CASE DraftCreated(t)
    BY <2>1 DEF DraftCreated, CreateSession
  <2>2. CASE SessionCompleted(t)
    BY <2>2 DEF SessionCompleted, CompleteSession
  <2>3. CASE ~DraftCreated(t) /\ ~SessionCompleted(t)
    BY <1>1, <2>3 DEF SyncStep, BeginAttempt, ReadRow, BindDraft, BatchStored, StoreBatch, BatchRefused,
                      ReadSummary, CompleteRefused, MarkSynced, MarkFailed
  <2> QED BY <2>1, <2>2, <2>3
<1>2. CASE LateStep
  BY <1>2 DEF LateStep, LateDraft, CreateSession, LateBatch, StoreBatch, LateCompletion, CompleteSession
<1>3. ASSUME ~LateStep, \A t \in Task : ~SyncStep(t) PROVE status' = status
  BY <1>3 DEF Next, UserStep, StartRide, PauseRide, ResumeRide, FinishRide, ButtonPressed, ScreenOpens,
     PassStarts, PassBegin, PassTakesRide, PassTurnsToRefresh, RefreshStep, MeetsReconciliation,
     LookAtCache, HydrateRow, HistoryListed, ReplaceCache, ReadHidden, JoinReconciliation, ReadTombstones,
     RequestLost, Crash
<1> QED BY <1>1, <1>2, <1>3

LEMMA AskedStep ==
  ASSUME BookInv, DeletesWereAsked, [BookNext]_allVars
  PROVE  DeletesWereAsked'
<1>1. ASSUME [Next]_vars, UNCHANGED bookVars \/ \E T \in SUBSET Task : Kick(T)
      PROVE  DeletesWereAsked'
  <2>1. tomb' = tomb /\ \A r \in Remote : status'[r] = "deleted" => status[r] = "deleted"
    BY <1>1, DeletedStaysDeleted, NoneDeleted DEF BookInv, BookTypeOK
  <2>2. /\ UNCHANGED <<dpc, drow, drem, rtodo, rat, lateDelete, asked>>
        /\ rpc' \in {rpc, "list"}
    BY <1>1 DEF Kick
  <2> QED BY <2>1, <2>2 DEF DeletesWereAsked
<1> USE RideAssumption DEF BookInv, BookTypeOK, TypeOK, StoreTypeOK, ScreenHoldsItsRide, LoopHoldsATombstone,
        DeletesWereAsked
<1>2. ASSUME NEW x \in Row, OpenDetail(x) PROVE DeletesWereAsked'
  BY <1>2 DEF OpenDetail
<1>3. CASE CloseDetail \/ ConfirmDelete
  BY <1>3 DEF CloseDetail, ConfirmDelete, SetTomb
<1>4. CASE DeleteStep
  BY <1>4 DEF DeleteStep, DeleteAnswered, DeleteSession, ScreenClears, ScreenPostpones, ScreenFails,
              RemoveRow, SetTomb
<1>5. CASE LoopStep
  BY <1>5 DEF LoopStep, ListDue, TakeDue, RoundEnds, RetryAnswered, RetryNoted, DeleteSession, SetTomb
<1>6. CASE BookFault
  BY <1>6 DEF BookFault, DeleteLost, DeleteRefused, RetryLost, RetryRefused
<1>7. ASSUME NEW r \in Remote, DueAgain(r) \/ LateDeletion(r) PROVE DeletesWereAsked'
  BY <1>7 DEF DueAgain, LateDeletion, DeleteSession, SetTomb
<1>8. CASE BookCrash
  BY <1>8 DEF BookCrash
<1> HIDE DEF BookInv, BookTypeOK, DeletesWereAsked
<1> QED BY <1>1, <1>2, <1>3, <1>4, <1>5, <1>6, <1>7, <1>8, StepsOfTheBook

-----------------------------------------------------------------------------
(* Where nothing but the pass syncs, what the phone calls synced, caches or *)
(* is about to write into its history has been completed, and at most       *)
(* deleted since; an attempt writes the row it has read, or none.           *)
Over == {"completed", "deleted"}

SettledIsOver ==
  /\ \A t \in Screens : pc[t] \notin SyncPC
  /\ on[Pass] # Nil => state[on[Pass]] # "none"
  /\ \A x \in Ride : ~Present(x) => remote[x] = Nil
  /\ pc[Pass] \in {"create", "bind"} => remote[on[Pass]] = Nil
  /\ pc[Pass] \in {"upload", "complete", "mark"} /\ Present(on[Pass]) => remote[on[Pass]] = rem[Pass]
  /\ pc[Pass] = "mark" => status[rem[Pass]] \in Over
  /\ \A r \in cache : status[r] \in Over
  /\ \A t \in Task : \A r \in seen[t] : status[r] \in Over
  /\ \A x \in Row : state[x] = "synced" => remote[x] # Nil /\ status[remote[x]] \in Over

(* What is over stays over.                                                 *)
LEMMA OverStays ==
  ASSUME TypeOK, [Next]_vars
  PROVE  \A r \in Remote : status[r] \in Over => status'[r] \in Over
<1> USE DEF TypeOK, StoreTypeOK, Over
<1>1. ASSUME NEW t \in Task, SyncStep(t)
      PROVE  \A r \in Remote : status[r] \in Over => status'[r] \in Over
  <2>1. CASE DraftCreated(t)
    BY <2>1 DEF DraftCreated, CreateSession
  <2>2. CASE SessionCompleted(t)
    BY <2>2 DEF SessionCompleted, CompleteSession
  <2>3. CASE ~DraftCreated(t) /\ ~SessionCompleted(t)
    BY <1>1, <2>3 DEF SyncStep, BeginAttempt, ReadRow, BindDraft, BatchStored, StoreBatch, BatchRefused,
                      ReadSummary, CompleteRefused, MarkSynced, MarkFailed
  <2> QED BY <2>1, <2>2, <2>3
<1>2. CASE LateStep
  BY <1>2 DEF LateStep, LateDraft, CreateSession, LateBatch, StoreBatch, LateCompletion, CompleteSession
<1>3. ASSUME ~LateStep, \A t \in Task : ~SyncStep(t) PROVE status' = status
  BY <1>3 DEF Next, UserStep, StartRide, PauseRide, ResumeRide, FinishRide, ButtonPressed, ScreenOpens,
     PassStarts, PassBegin, PassTakesRide, PassTurnsToRefresh, RefreshStep, MeetsReconciliation,
     LookAtCache, HydrateRow, HistoryListed, ReplaceCache, ReadHidden, JoinReconciliation, ReadTombstones,
     RequestLost, Crash
<1> QED BY <1>1, <1>2, <1>3

LEMMA SettledSyncStep ==
  ASSUME Buttons = {}, TypeOK, TypeOK', TasksHoldSomething, SettledIsOver, [Next]_vars
  PROVE  SettledIsOver'
<1>0. \A r \in Remote : status[r] \in Over => status'[r] \in Over
  BY OverStays
<1> USE RideAssumption, TaskAssumption, <1>0 DEF TypeOK, StoreTypeOK, TasksHoldSomething, Bound, SyncPC,
        RefreshPC, Row, Present, Absent, SettledIsOver, Task
<1>1. CASE UserStep
  <2>1. ASSUME NEW x \in Ride, StartRide(x) \/ PauseRide(x) \/ ResumeRide(x) \/ FinishRide(x)
        PROVE  SettledIsOver'
    <3>1. PICK s \in {"recording", "paused", "syncPending"} :
              /\ state' = [state EXCEPT ![x] = s]
              /\ UNCHANGED <<remote, cache, status, seen, pc, on, rem>>
      BY <2>1 DEF StartRide, PauseRide, ResumeRide, FinishRide, SetState, InProgress
    <3>2. \A y \in Row \ {x} : state'[y] = state[y]
      BY <3>1
    <3>3. state[x] \in {"none", "recording", "paused"}
      BY <2>1 DEF StartRide, PauseRide, ResumeRide, FinishRide, InProgress
    <3>4. on[Pass] # Nil /\ Present(on[Pass])' => Present(on[Pass])
      BY <3>1, <3>2, <3>3
    <3> QED BY <3>1, <3>2, <3>3, <3>4
  <2>2. ASSUME NEW t \in Screens, ScreenOpens(t) PROVE SettledIsOver'
    BY <2>2 DEF ScreenOpens, Goto
  <2> QED BY <1>1, <2>1, <2>2 DEF UserStep
<1>2. CASE PassStarts
  BY <1>2 DEF PassStarts, PassBegin, PassTakesRide, PassTurnsToRefresh, Goto
<1>3. ASSUME NEW t \in Task, SyncStep(t) PROVE SettledIsOver'
  <2>0. t = Pass
    BY <1>3 DEF SyncStep, BeginAttempt, ReadRow, DraftCreated, BindDraft, BatchStored, BatchRefused,
                ReadSummary, SessionCompleted, CompleteRefused, MarkSynced, MarkFailed, Uploading
  <2>1. CASE BeginAttempt(t)
    BY <2>0, <2>1 DEF BeginAttempt, SetState, Goto
  <2>2. CASE ReadRow(t)
    BY <2>0, <2>2 DEF ReadRow, SyncReturns, AfterSync, Goto
  <2>3. CASE DraftCreated(t)
    BY <2>0, <2>3 DEF DraftCreated, CreateSession, Goto
  <2>4. CASE BindDraft(t)
    BY <2>0, <2>4 DEF BindDraft, BindRemote, SetState, Goto
  <2>5. CASE BatchStored(t)
    BY <2>0, <2>5 DEF BatchStored, StoreBatch
  <2>6. CASE BatchRefused(t) \/ CompleteRefused(t)
    BY <2>0, <2>6 DEF BatchRefused, CompleteRefused, Goto
  <2>7. CASE ReadSummary(t)
    BY <2>0, <2>7 DEF ReadSummary, SyncReturns, AfterSync, Goto
  <2>8. CASE SessionCompleted(t)
    BY <2>0, <2>8 DEF SessionCompleted, CompleteSession, Goto, Over
  <2>9. CASE MarkSynced(t) \/ MarkFailed(t)
    BY <2>0, <2>9 DEF MarkSynced, MarkFailed, SyncReturns, AfterSync, SetState, Goto
  <2> HIDE DEF SettledIsOver
  <2> QED BY <1>3, <2>1, <2>2, <2>3, <2>4, <2>5, <2>6, <2>7, <2>8, <2>9 DEF SyncStep
<1>4. ASSUME NEW t \in Task, NEW from \in {"rehydrate", "hydrate"}, NEW next \in {"idle", "join"},
             HydrateRow(t, from, next)
      PROVE  SettledIsOver'
  <2>1. PICK r \in seen[t] : UpsertSummary(r) /\ seen' = [seen EXCEPT ![t] = @ \ {r}]
    BY <1>4 DEF HydrateRow
  <2>2. r \in Remote /\ status[r] \in Over
    BY <2>1
  <2>3. \A x \in Ride : /\ remote'[x] = remote[x] /\ (Present(x)' <=> Present(x))
                        /\ state[x] # "none" => state'[x] # "none"
    BY <2>1, <2>2 DEF UpsertSummary, RowsOf
  <2>4. \A x \in Row : state'[x] = "synced" => remote'[x] # Nil /\ status[remote'[x]] \in Over
    BY <2>1, <2>2 DEF UpsertSummary, RowsOf
  <2>5. UNCHANGED <<status, cache, on, rem>> /\ pc' \in {pc, [pc EXCEPT ![t] = from], [pc EXCEPT ![t] = next]}
        /\ pc[t] = from
    BY <1>4 DEF HydrateRow, Goto
  <2> QED BY <2>1, <2>3, <2>4, <2>5
<1>5. ASSUME NEW t \in Task,
             LookAtCache(t) \/ HistoryListed(t) \/ ReplaceCache(t) \/ MeetsReconciliation(t)
      PROVE  SettledIsOver'
  <2>1. PICK l \in {"look", "join", "rehydrate", "hide", "fetch", "store", "hydrate", "idle"} :
            /\ pc' = [pc EXCEPT ![t] = l] /\ pc[t] \in RefreshPC
            /\ UNCHANGED <<on, rem, remote, status, state>>
    BY <1>5 DEF MeetsReconciliation, LookAtCache, HistoryListed, ReplaceCache,
                ReadHidden, JoinReconciliation, ReadTombstones, Goto
  <2>2. /\ \A r \in cache' : status[r] \in Over
        /\ \A u \in Task : \A r \in seen'[u] : status[r] \in Over
    BY <1>5 DEF MeetsReconciliation, LookAtCache, HistoryListed, ListedAsHistory, ReplaceCache,
                ReadHidden, JoinReconciliation, ReadTombstones, Over
  <2> QED BY <2>1, <2>2
<1>6. ASSUME NEW t \in Task, RequestLost(t) PROVE SettledIsOver'
  BY <1>6 DEF RequestLost, Uploading, Goto
<1>7. CASE Crash
  BY <1>7 DEF Crash
<1>8. CASE LateStep
  BY <1>8 DEF LateStep, LateDraft, LateBatch, LateCompletion
<1>9. CASE UNCHANGED vars
  BY <1>9
<1> HIDE DEF SettledIsOver
<1> QED BY <1>1, <1>2, <1>3, <1>4, <1>5, <1>6, <1>7, <1>8, <1>9 DEF Next, RefreshStep

LEMMA SettledStep ==
  ASSUME Buttons = {}, BookInv, BookInv', SettledIsOver, [BookNext]_allVars
  PROVE  SettledIsOver'
<1>1. ASSUME [Next]_vars PROVE SettledIsOver'
  BY <1>1, SettledSyncStep DEF BookInv, BookTypeOK
<1> USE RideAssumption DEF BookInv, BookTypeOK, TypeOK, StoreTypeOK, ScreenHoldsItsRide, LoopHoldsATombstone,
        SettledIsOver, Over, Present, Absent, Row
<1>2. ASSUME NEW x \in Row, OpenDetail(x) PROVE SettledIsOver'
  BY <1>2 DEF OpenDetail
<1>3. CASE CloseDetail \/ ConfirmDelete
  BY <1>3 DEF CloseDetail, ConfirmDelete
<1>4. CASE DeleteAnswered
  BY <1>4 DEF DeleteAnswered, DeleteSession
<1>5. CASE ScreenClears \/ ScreenPostpones \/ ScreenFails
  BY <1>5 DEF ScreenClears, ScreenPostpones, ScreenFails
<1>6. CASE RemoveRow
  BY <1>6 DEF RemoveRow, TasksHoldSomething, Bound, SyncPC, Task
<1>7. CASE LoopStep
  <2>1. CASE RetryAnswered
    BY <2>1 DEF RetryAnswered, DeleteSession
  <2>2. CASE ListDue \/ TakeDue \/ RoundEnds \/ RetryNoted
    BY <2>2 DEF ListDue, TakeDue, RoundEnds, RetryNoted
  <2> QED BY <1>7, <2>1, <2>2 DEF LoopStep
<1>8. CASE BookFault
  BY <1>8 DEF BookFault, DeleteLost, DeleteRefused, RetryLost, RetryRefused
<1>9. ASSUME NEW r \in Remote, DueAgain(r) \/ LateDeletion(r) PROVE SettledIsOver'
  <2>1. CASE DueAgain(r)
    BY <2>1 DEF DueAgain
  <2>2. CASE LateDeletion(r)
    BY <2>2 DEF LateDeletion, DeleteSession
  <2> QED BY <1>9, <2>1, <2>2
<1>10. CASE BookCrash
  BY <1>10 DEF BookCrash, SyncPC, Task
<1> HIDE DEF BookInv, SettledIsOver
<1> QED BY <1>1, <1>2, <1>3, <1>4, <1>5, <1>6, <1>7, <1>8, <1>9, <1>10, StepsOfTheBook DEF DeleteStep

(* Where nothing but the pass syncs, what the phone calls synced is on the  *)
(* server or was deleted by the rider, whatever the deletions interleave    *)
(* with and whoever is killed.                                              *)
THEOREM SyncedIsNeverLost ==
  ASSUME Buttons = {}
  PROVE  BookSpec => []SyncedIsSavedOrDeleted
<1> DEFINE J == DeletesWereAsked /\ SettledIsOver
<1>1. BookInit => J
  BY RideAssumption DEF BookInit, Init, StoreInit, SyncInit, DeletesWereAsked, SettledIsOver, SyncPC, Task, Row
<1>2. BookInv /\ BookInv' /\ J /\ [BookNext]_allVars => J'
  BY AskedStep, SettledStep
<1>3. BookInv /\ J => SyncedIsSavedOrDeleted
  BY DEF BookInv, BookTypeOK, TypeOK, StoreTypeOK, DeletesWereAsked, SettledIsOver, Over, SyncedIsSavedOrDeleted
<1> HIDE DEF J
<1> QED BY <1>1, <1>2, <1>3, BookInvHolds, PTL DEF BookSpec
=============================================================================
