---------------------------- MODULE RideSyncProofs ----------------------------
(***************************************************************************)
(* Proofs about RideSync, for every set of rides, tasks and identifiers:   *)
(* the inductive invariant IInv, from it the safety properties, and that   *)
(* RideSync implements RideVault.                                          *)
(***************************************************************************)
EXTENDS RideSync, TLAPS

USE DEF vars, storeVars, rowVars, serverVars, syncVars, taskVars, netVars

(* Every action writes values of the declared types, given that a task in   *)
(* an attempt has its ride: what a lost request leaves behind names it.     *)
LEMMA TypeStep == TypeOK /\ TasksHoldSomething /\ [Next]_vars => TypeOK'
<1> SUFFICES ASSUME TypeOK, TasksHoldSomething, [Next]_vars PROVE TypeOK'
    OBVIOUS
<1> USE RideAssumption, TaskAssumption DEF TypeOK, StoreTypeOK, TasksHoldSomething, Row, RowState,
        Absent, InProgress, Unsynced, SyncPC, RefreshPC, Bound
<1>1. CASE UserStep
  <2>1. ASSUME NEW x \in Ride, StartRide(x) \/ PauseRide(x) \/ ResumeRide(x) \/ FinishRide(x)
        PROVE  TypeOK'
    BY <2>1 DEF StartRide, PauseRide, ResumeRide, FinishRide, SetState
  <2>2. ASSUME NEW t \in Buttons, NEW x \in Ride, ButtonPressed(t, x)
        PROVE  TypeOK'
    BY <2>2 DEF ButtonPressed, Goto, Task
  <2>3. ASSUME NEW t \in Screens, ScreenOpens(t)
        PROVE  TypeOK'
    BY <2>3 DEF ScreenOpens, Goto, Task
  <2> QED BY <1>1, <2>1, <2>2, <2>3 DEF UserStep
<1>2. CASE PassStarts
  BY <1>2 DEF PassStarts, PassBegin, PassTakesRide, PassTurnsToRefresh, Goto, Task
<1>3. ASSUME NEW t \in Task, SyncStep(t) PROVE TypeOK'
  <2> USE <1>3 DEF Goto, SetState, SyncReturns, AfterSync
  <2>1. CASE BeginAttempt(t)
    BY <2>1 DEF BeginAttempt
  <2>2. CASE ReadRow(t)
    <3>1. CASE Present(on[t])
      <4>1. /\ \E l \in {"create", "upload"} : pc' = [pc EXCEPT ![t] = l]
            /\ rem' = [rem EXCEPT ![t] = remote[on[t]]]
            /\ UNCHANGED <<storeVars, on, sent, todo, hide, seen, netVars>>
        BY <2>2, <3>1 DEF ReadRow
      <4>2. on[t] \in Row
        BY <2>2 DEF ReadRow
      <4> QED BY <4>1, <4>2
    <3>2. CASE ~Present(on[t])
      <4>1. /\ pc' = [pc EXCEPT ![t] = AfterSync(t)] /\ AfterSync(t) \in {"next", "idle"}
            /\ on' = [on EXCEPT ![t] = Nil] /\ rem' = [rem EXCEPT ![t] = Nil]
            /\ sent' = [sent EXCEPT ![t] = 0]
            /\ UNCHANGED <<storeVars, todo, hide, seen, netVars>>
        BY <2>2, <3>2 DEF ReadRow
      <4> QED BY <4>1
    <3> QED BY <3>1, <3>2
  <2>3. CASE DraftCreated(t)
    BY <2>3 DEF DraftCreated, CreateSession
  <2>4. CASE BindDraft(t)
    BY <2>4 DEF BindDraft, BindRemote
  <2>5. CASE BatchStored(t)
    BY <2>5 DEF BatchStored, Uploading, AcceptsUpload, StoreBatch
  <2>6. CASE BatchRefused(t)
    BY <2>6 DEF BatchRefused
  <2>7. CASE ReadSummary(t)
    <3>1. CASE Present(on[t])
      BY <2>7, <3>1 DEF ReadSummary
    <3>2. CASE ~Present(on[t])
      <4>1. /\ pc' = [pc EXCEPT ![t] = AfterSync(t)] /\ AfterSync(t) \in {"next", "idle"}
            /\ on' = [on EXCEPT ![t] = Nil] /\ rem' = [rem EXCEPT ![t] = Nil]
            /\ sent' = [sent EXCEPT ![t] = 0]
            /\ UNCHANGED <<storeVars, todo, hide, seen, netVars>>
        BY <2>7, <3>2 DEF ReadSummary
      <4> QED BY <4>1
    <3> QED BY <3>1, <3>2
  <2>8. CASE SessionCompleted(t)
    BY <2>8 DEF SessionCompleted, CompleteSession
  <2>9. CASE CompleteRefused(t)
    BY <2>9 DEF CompleteRefused
  <2>10. CASE MarkSynced(t)
    BY <2>10 DEF MarkSynced
  <2>11. CASE MarkFailed(t)
    BY <2>11 DEF MarkFailed
  <2> QED BY <2>1, <2>2, <2>3, <2>4, <2>5, <2>6, <2>7, <2>8, <2>9, <2>10, <2>11 DEF SyncStep
<1>4. ASSUME NEW t \in Task, RefreshStep(t) PROVE TypeOK'
  <2> USE <1>4 DEF Goto
  <2>1. CASE LookAtCache(t)
    BY <2>1 DEF LookAtCache
  <2>2. ASSUME NEW from, NEW next \in {"idle", "join"}, from \in {"rehydrate", "hydrate"}, HydrateRow(t, from, next)
        PROVE TypeOK'
    BY <2>2 DEF HydrateRow, UpsertSummary, RowsOf
  <2>3. CASE HistoryListed(t)
    BY <2>3 DEF HistoryListed, ListedAsHistory
  <2>4. CASE ReplaceCache(t)
    BY <2>4 DEF ReplaceCache
  <2> QED BY <2>1, <2>2, <2>3, <2>4 DEF RefreshStep
<1>5. ASSUME NEW t \in Task, MeetsReconciliation(t) PROVE TypeOK'
  <2>1. CASE ReadHidden(t)
    BY <2>1 DEF ReadHidden, HiddenByTombstone, Goto
  <2>2. CASE JoinReconciliation(t)
    BY <2>2 DEF JoinReconciliation, Goto
  <2>3. CASE ReadTombstones(t)
    BY <2>3 DEF ReadTombstones, HiddenByTombstone, Goto
  <2> QED BY <1>5, <2>1, <2>2, <2>3 DEF MeetsReconciliation
<1>6. ASSUME NEW t \in Task, RequestLost(t) PROVE TypeOK'
  BY <1>6 DEF RequestLost, Abandon, Uploading, Goto
<1>7. CASE Crash
  BY <1>7 DEF Crash, Abandon, Uploading
<1>8. CASE LateStep
  <2>1. ASSUME NEW x \in lateCreate, LateDraft(x) PROVE TypeOK'
    BY <2>1 DEF LateDraft, CreateSession
  <2>2. ASSUME NEW m \in lateUpload, LateBatch(m) PROVE TypeOK'
    BY <2>2 DEF LateBatch, StoreBatch
  <2>3. ASSUME NEW r \in lateComplete, LateCompletion(r) PROVE TypeOK'
    BY <2>3 DEF LateCompletion, CompleteSession
  <2> QED BY <1>8, <2>1, <2>2, <2>3 DEF LateStep
<1>9. CASE UNCHANGED vars
  BY <1>9
<1> QED BY <1>1, <1>2, <1>3, <1>4, <1>5, <1>6, <1>7, <1>8, <1>9 DEF Next

(* One more batch is the next number.                                       *)
LEMMA IntervalGrows == \A n \in Nat : 1 .. (n + 1) = (1 .. n) \cup {n + 1}
  OBVIOUS

(* A task keeps the ride and the session it started with; a new draft was   *)
(* absent and so belongs to nobody.                                         *)
LEMMA TasksHoldOwnSessionStep == IInv /\ TypeOK' /\ [Next]_vars => TasksHoldOwnSession'
<1> SUFFICES ASSUME IInv, TypeOK', [Next]_vars PROVE TasksHoldOwnSession'
    OBVIOUS
<1> USE RideAssumption, TaskAssumption DEF IInv, TypeOK, StoreTypeOK, TasksHoldOwnSession,
        ProgressIsStored, UnboundIsPrivate, ServerIsSound, PhoneIsSound, CompletedIsWhole,
        SyncedIsSaved, RowsPointAtOwnSession, Saved, Whole, AllBatches, Bound, SyncPC, RefreshPC,
        Row, Present, Absent, InProgress, Unsynced
<1>1. ASSUME NEW x \in Ride, StartRide(x) \/ PauseRide(x) \/ ResumeRide(x) \/ FinishRide(x)
       PROVE  TasksHoldOwnSession'
  BY <1>1 DEF StartRide, PauseRide, ResumeRide, FinishRide, SetState
<1>2. ASSUME NEW t \in Buttons, NEW x \in Ride, ButtonPressed(t, x) PROVE TasksHoldOwnSession'
  BY <1>2 DEF ButtonPressed, Goto, Task
<1>3. ASSUME NEW t \in Screens, ScreenOpens(t) PROVE TasksHoldOwnSession'
  BY <1>3 DEF ScreenOpens, Goto, Task
<1>4. ASSUME PassStarts PROVE TasksHoldOwnSession'
  BY <1>4 DEF PassStarts, PassBegin, PassTakesRide, PassTurnsToRefresh, Goto, Task
<1>5. ASSUME NEW t \in Task, BeginAttempt(t) PROVE TasksHoldOwnSession'
  BY <1>5 DEF BeginAttempt, SetState, Goto
<1>6. ASSUME NEW t \in Task, ReadRow(t) PROVE TasksHoldOwnSession'
  BY <1>6 DEF ReadRow, SyncReturns, AfterSync, Goto
<1>7. ASSUME NEW t \in Task, DraftCreated(t) PROVE TasksHoldOwnSession'
  BY <1>7 DEF DraftCreated, CreateSession, Goto
<1>8. ASSUME NEW t \in Task, BindDraft(t) PROVE TasksHoldOwnSession'
  BY <1>8 DEF BindDraft, BindRemote, SetState, Goto
<1>9. ASSUME NEW t \in Task, BatchStored(t) PROVE TasksHoldOwnSession'
  BY <1>9 DEF BatchStored, Uploading, AcceptsUpload, StoreBatch
<1>10. ASSUME NEW t \in Task, BatchRefused(t) \/ CompleteRefused(t) PROVE TasksHoldOwnSession'
  BY <1>10 DEF BatchRefused, CompleteRefused, Uploading, Goto
<1>11. ASSUME NEW t \in Task, ReadSummary(t) PROVE TasksHoldOwnSession'
  BY <1>11 DEF ReadSummary, SyncReturns, AfterSync, Goto
<1>12. ASSUME NEW t \in Task, SessionCompleted(t) PROVE TasksHoldOwnSession'
  BY <1>12 DEF SessionCompleted, CompleteSession, Goto
<1>13. ASSUME NEW t \in Task, MarkSynced(t) \/ MarkFailed(t) PROVE TasksHoldOwnSession'
  BY <1>13 DEF MarkSynced, MarkFailed, SetState, SyncReturns, AfterSync, Goto
<1>14. ASSUME NEW t \in Task,
              ReadHidden(t) \/ LookAtCache(t) \/ JoinReconciliation(t) \/ ReadTombstones(t)
       PROVE  TasksHoldOwnSession'
  BY <1>14 DEF ReadHidden, LookAtCache, JoinReconciliation, ReadTombstones, Goto
<1>15. ASSUME NEW t \in Task, HistoryListed(t) \/ ReplaceCache(t) PROVE TasksHoldOwnSession'
  BY <1>15 DEF HistoryListed, ListedAsHistory, ReplaceCache, Goto
<1>16. ASSUME NEW t \in Task, NEW from \in {"rehydrate", "hydrate"}, NEW next \in {"idle", "join"},
              HydrateRow(t, from, next)
       PROVE  TasksHoldOwnSession'
  BY <1>16 DEF HydrateRow, UpsertSummary, RowsOf, Goto
<1>17. ASSUME NEW t \in Task, RequestLost(t) PROVE TasksHoldOwnSession'
  BY <1>17 DEF RequestLost, Abandon, Uploading, Goto
<1>18. ASSUME Crash PROVE TasksHoldOwnSession'
  BY <1>18 DEF Crash, Abandon, Uploading
<1>19. ASSUME NEW x \in lateCreate, LateDraft(x) PROVE TasksHoldOwnSession'
  BY <1>19 DEF LateDraft, CreateSession
<1>20. ASSUME NEW m \in lateUpload, LateBatch(m) PROVE TasksHoldOwnSession'
  BY <1>20 DEF LateBatch, AcceptsUpload, StoreBatch
<1>21. ASSUME NEW r \in lateComplete, LateCompletion(r) PROVE TasksHoldOwnSession'
  BY <1>21 DEF LateCompletion, CompleteSession
<1>22. ASSUME UNCHANGED vars PROVE TasksHoldOwnSession'
  BY <1>22
<1> HIDE DEF IInv, TypeOK, StoreTypeOK, TasksHoldOwnSession, ProgressIsStored, UnboundIsPrivate,
        ServerIsSound, PhoneIsSound, OnlyClosedIsSent
<1> QED
  BY <1>1, <1>2, <1>3, <1>4, <1>5, <1>6, <1>7, <1>8, <1>9, <1>10, <1>11, <1>12, <1>13, <1>14,
     <1>15, <1>16, <1>17, <1>18, <1>19, <1>20, <1>21, <1>22
     DEF Next, UserStep, SyncStep, RefreshStep, MeetsReconciliation, LateStep

(* The server forgets no batch, so what a task counted stays stored; a task  *)
(* reaches "complete" only with every batch acknowledged.                   *)
LEMMA ProgressIsStoredStep == IInv /\ TypeOK' /\ [Next]_vars => ProgressIsStored'
<1> SUFFICES ASSUME IInv, TypeOK', [Next]_vars PROVE ProgressIsStored'
    OBVIOUS
<1> USE RideAssumption, TaskAssumption DEF IInv, TypeOK, StoreTypeOK, TasksHoldOwnSession,
        ProgressIsStored, UnboundIsPrivate, ServerIsSound, PhoneIsSound, CompletedIsWhole,
        SyncedIsSaved, RowsPointAtOwnSession, Saved, Whole, AllBatches, Bound, SyncPC, RefreshPC,
        Row, Present, Absent, InProgress, Unsynced
<1>1. ASSUME NEW x \in Ride, StartRide(x) \/ PauseRide(x) \/ ResumeRide(x) \/ FinishRide(x)
       PROVE  ProgressIsStored'
  BY <1>1 DEF StartRide, PauseRide, ResumeRide, FinishRide, SetState
<1>2. ASSUME NEW t \in Buttons, NEW x \in Ride, ButtonPressed(t, x) PROVE ProgressIsStored'
  BY <1>2 DEF ButtonPressed, Goto, Task
<1>3. ASSUME NEW t \in Screens, ScreenOpens(t) PROVE ProgressIsStored'
  BY <1>3 DEF ScreenOpens, Goto, Task
<1>4. ASSUME PassStarts PROVE ProgressIsStored'
  BY <1>4 DEF PassStarts, PassBegin, PassTakesRide, PassTurnsToRefresh, Goto, Task
<1>5. ASSUME NEW t \in Task, BeginAttempt(t) PROVE ProgressIsStored'
  BY <1>5 DEF BeginAttempt, SetState, Goto
<1>6. ASSUME NEW t \in Task, ReadRow(t) PROVE ProgressIsStored'
  BY <1>6 DEF ReadRow, SyncReturns, AfterSync, Goto
<1>7. ASSUME NEW t \in Task, DraftCreated(t) PROVE ProgressIsStored'
  BY <1>7 DEF DraftCreated, CreateSession, Goto
<1>8. ASSUME NEW t \in Task, BindDraft(t) PROVE ProgressIsStored'
  BY <1>8 DEF BindDraft, BindRemote, SetState, Goto
<1>9. ASSUME NEW t \in Task, BatchStored(t) PROVE ProgressIsStored'
  <2>1. /\ pc[t] = "upload" /\ sent[t] < Batches[on[t]] /\ on[t] \in Ride /\ rem[t] \in Remote
        /\ sent' = [sent EXCEPT ![t] = sent[t] + 1]
        /\ stored' = [stored EXCEPT ![rem[t]] = stored[rem[t]] \cup {sent[t] + 1}]
        /\ UNCHANGED <<pc, on, rem, status, madeFor>>
    BY <1>9 DEF BatchStored, Uploading, StoreBatch
  <2>2. \A r \in Remote : stored[r] \subseteq stored'[r]
    BY <2>1
  <2>3. sent'[t] <= Batches[on[t]] /\ 1 .. sent'[t] \subseteq stored'[rem[t]]
    <3>1. 1 .. (sent[t] + 1) = (1 .. sent[t]) \cup {sent[t] + 1}
      BY IntervalGrows
    <3> QED BY <2>1, <3>1
  <2>4. ASSUME NEW u \in Task, u # t
        PROVE  /\ pc[u] \notin {"upload", "complete", "mark", "failed"} => sent'[u] = 0
               /\ pc[u] = "upload" => sent'[u] <= Batches[on[u]] /\ 1 .. sent'[u] \subseteq stored'[rem[u]]
    <3>1. sent'[u] = sent[u]
      BY <2>1, <2>4
    <3>2. pc[u] = "upload" => rem[u] \in Remote /\ sent[u] <= Batches[on[u]] /\ 1 .. sent[u] \subseteq stored[rem[u]]
      OBVIOUS
    <3>3. pc[u] \notin {"upload", "complete", "mark", "failed"} => sent[u] = 0
      OBVIOUS
    <3> QED BY <2>2, <3>1, <3>2, <3>3
  <2>5. ASSUME NEW u \in Task, pc[u] \in {"complete", "mark"}
        PROVE  Whole(rem[u])'
    BY <2>1, <2>2, <2>5
  <2> QED BY <2>1, <2>3, <2>4, <2>5
<1>10. ASSUME NEW t \in Task, BatchRefused(t) \/ CompleteRefused(t) PROVE ProgressIsStored'
  BY <1>10 DEF BatchRefused, CompleteRefused, Uploading, Goto
<1>11. ASSUME NEW t \in Task, ReadSummary(t) PROVE ProgressIsStored'
  BY <1>11 DEF ReadSummary, SyncReturns, AfterSync, Goto
<1>12. ASSUME NEW t \in Task, SessionCompleted(t) PROVE ProgressIsStored'
  BY <1>12 DEF SessionCompleted, CompleteSession, Goto
<1>13. ASSUME NEW t \in Task, MarkSynced(t) \/ MarkFailed(t) PROVE ProgressIsStored'
  <2>1. /\ pc' = [pc EXCEPT ![t] = AfterSync(t)] /\ sent' = [sent EXCEPT ![t] = 0]
        /\ on' = [on EXCEPT ![t] = Nil] /\ rem' = [rem EXCEPT ![t] = Nil]
        /\ UNCHANGED <<status, stored, madeFor>>
    BY <1>13 DEF MarkSynced, MarkFailed, SyncReturns, Goto
  <2>2. AfterSync(t) \in {"next", "idle"}
    BY DEF AfterSync
  <2> QED BY <2>1, <2>2
<1>14. ASSUME NEW t \in Task,
              ReadHidden(t) \/ LookAtCache(t) \/ JoinReconciliation(t) \/ ReadTombstones(t)
       PROVE  ProgressIsStored'
  BY <1>14 DEF ReadHidden, LookAtCache, JoinReconciliation, ReadTombstones, Goto
<1>15. ASSUME NEW t \in Task, HistoryListed(t) \/ ReplaceCache(t) PROVE ProgressIsStored'
  BY <1>15 DEF HistoryListed, ListedAsHistory, ReplaceCache, Goto
<1>16. ASSUME NEW t \in Task, NEW from \in {"rehydrate", "hydrate"}, NEW next \in {"idle", "join"},
              HydrateRow(t, from, next)
       PROVE  ProgressIsStored'
  BY <1>16 DEF HydrateRow, UpsertSummary, RowsOf, Goto
<1>17. ASSUME NEW t \in Task, RequestLost(t) PROVE ProgressIsStored'
  BY <1>17 DEF RequestLost, Abandon, Uploading, Goto
<1>18. ASSUME Crash PROVE ProgressIsStored'
  BY <1>18 DEF Crash, Abandon, Uploading
<1>19. ASSUME NEW x \in lateCreate, LateDraft(x) PROVE ProgressIsStored'
  BY <1>19 DEF LateDraft, CreateSession
<1>20. ASSUME NEW m \in lateUpload, LateBatch(m) PROVE ProgressIsStored'
  BY <1>20 DEF LateBatch, AcceptsUpload, StoreBatch
<1>21. ASSUME NEW r \in lateComplete, LateCompletion(r) PROVE ProgressIsStored'
  BY <1>21 DEF LateCompletion, CompleteSession
<1>22. ASSUME UNCHANGED vars PROVE ProgressIsStored'
  BY <1>22
<1> HIDE DEF IInv, TypeOK, StoreTypeOK, TasksHoldOwnSession, ProgressIsStored, UnboundIsPrivate,
        ServerIsSound, PhoneIsSound, OnlyClosedIsSent
<1> QED
  BY <1>1, <1>2, <1>3, <1>4, <1>5, <1>6, <1>7, <1>8, <1>9, <1>10, <1>11, <1>12, <1>13, <1>14,
     <1>15, <1>16, <1>17, <1>18, <1>19, <1>20, <1>21, <1>22
     DEF Next, UserStep, SyncStep, RefreshStep, MeetsReconciliation, LateStep

(* No row, task or late request learns of a draft before its task binds it: *)
(* all others hold sessions that are bound or were already made.            *)
LEMMA UnboundIsPrivateStep == IInv /\ TypeOK' /\ [Next]_vars => UnboundIsPrivate'
<1> SUFFICES ASSUME IInv, TypeOK', [Next]_vars PROVE UnboundIsPrivate'
    OBVIOUS
<1> USE RideAssumption, TaskAssumption DEF IInv, TypeOK, StoreTypeOK, TasksHoldOwnSession,
        ProgressIsStored, UnboundIsPrivate, ServerIsSound, PhoneIsSound, CompletedIsWhole,
        SyncedIsSaved, RowsPointAtOwnSession, Saved, Whole, AllBatches, Bound, SyncPC, RefreshPC,
        Row, Present, Absent, InProgress, Unsynced
<1>1. ASSUME NEW x \in Ride, StartRide(x) \/ PauseRide(x) \/ ResumeRide(x) \/ FinishRide(x)
       PROVE  UnboundIsPrivate'
  BY <1>1 DEF StartRide, PauseRide, ResumeRide, FinishRide, SetState
<1>2. ASSUME NEW t \in Buttons, NEW x \in Ride, ButtonPressed(t, x) PROVE UnboundIsPrivate'
  BY <1>2 DEF ButtonPressed, Goto, Task
<1>3. ASSUME NEW t \in Screens, ScreenOpens(t) PROVE UnboundIsPrivate'
  BY <1>3 DEF ScreenOpens, Goto, Task
<1>4. ASSUME PassStarts PROVE UnboundIsPrivate'
  BY <1>4 DEF PassStarts, PassBegin, PassTakesRide, PassTurnsToRefresh, Goto, Task
<1>5. ASSUME NEW t \in Task, BeginAttempt(t) PROVE UnboundIsPrivate'
  BY <1>5 DEF BeginAttempt, SetState, Goto
<1>6. ASSUME NEW t \in Task, ReadRow(t) PROVE UnboundIsPrivate'
  <2>1. /\ pc'[t] \in {"create", "upload", "next", "idle"}
        /\ pc'[t] = "upload" => rem'[t] = remote[on[t]] /\ on[t] \in Row
        /\ \A u \in Task \ {t} : pc'[u] = pc[u] /\ rem'[u] = rem[u]
        /\ UNCHANGED <<status, lateComplete, remote>>
    BY <1>6 DEF ReadRow, SyncReturns, AfterSync, Goto
  <2>2. ASSUME NEW u \in Task, pc'[u] = "bind"
        PROVE  /\ u # t /\ pc[u] = "bind" /\ rem'[u] = rem[u]
               /\ status'[rem[u]] = "draft" /\ rem[u] \notin lateComplete'
               /\ \A x \in Row : remote'[x] # rem[u]
    BY <2>1, <2>2
  <2>3. ASSUME NEW u \in Task, pc'[u] = "bind", NEW v \in Task \ {u}, pc'[v] \in Bound
        PROVE  rem'[v] # rem'[u]
    <3>1. CASE v = t
      BY <2>1, <2>2, <2>3, <3>1
    <3>2. CASE v # t
      BY <2>1, <2>2, <2>3, <3>2
    <3> QED BY <3>1, <3>2
  <2> QED BY <2>2, <2>3
<1>7. ASSUME NEW t \in Task, DraftCreated(t) PROVE UnboundIsPrivate'
  BY <1>7 DEF DraftCreated, CreateSession, Goto
<1>8. ASSUME NEW t \in Task, BindDraft(t) PROVE UnboundIsPrivate'
  BY <1>8 DEF BindDraft, BindRemote, SetState, Goto
<1>9. ASSUME NEW t \in Task, BatchStored(t) PROVE UnboundIsPrivate'
  BY <1>9 DEF BatchStored, Uploading, AcceptsUpload, StoreBatch
<1>10. ASSUME NEW t \in Task, BatchRefused(t) \/ CompleteRefused(t) PROVE UnboundIsPrivate'
  BY <1>10 DEF BatchRefused, CompleteRefused, Uploading, Goto
<1>11. ASSUME NEW t \in Task, ReadSummary(t) PROVE UnboundIsPrivate'
  BY <1>11 DEF ReadSummary, SyncReturns, AfterSync, Goto
<1>12. ASSUME NEW t \in Task, SessionCompleted(t) PROVE UnboundIsPrivate'
  BY <1>12 DEF SessionCompleted, CompleteSession, Goto
<1>13. ASSUME NEW t \in Task, MarkSynced(t) \/ MarkFailed(t) PROVE UnboundIsPrivate'
  <2>1. /\ pc' = [pc EXCEPT ![t] = AfterSync(t)] /\ AfterSync(t) \in {"next", "idle"}
        /\ rem' = [rem EXCEPT ![t] = Nil]
        /\ UNCHANGED <<status, lateComplete, remote>>
    BY <1>13 DEF MarkSynced, MarkFailed, SyncReturns, AfterSync, Goto
  <2> QED BY <2>1
<1>14. ASSUME NEW t \in Task,
              ReadHidden(t) \/ LookAtCache(t) \/ JoinReconciliation(t) \/ ReadTombstones(t)
       PROVE  UnboundIsPrivate'
  BY <1>14 DEF ReadHidden, LookAtCache, JoinReconciliation, ReadTombstones, Goto
<1>15. ASSUME NEW t \in Task, HistoryListed(t) \/ ReplaceCache(t) PROVE UnboundIsPrivate'
  BY <1>15 DEF HistoryListed, ListedAsHistory, ReplaceCache, Goto
<1>16. ASSUME NEW t \in Task, NEW from \in {"rehydrate", "hydrate"}, NEW next \in {"idle", "join"},
              HydrateRow(t, from, next)
       PROVE  UnboundIsPrivate'
  BY <1>16 DEF HydrateRow, UpsertSummary, RowsOf, Goto
<1>17. ASSUME NEW t \in Task, RequestLost(t) PROVE UnboundIsPrivate'
  BY <1>17 DEF RequestLost, Abandon, Uploading, Goto
<1>18. ASSUME Crash PROVE UnboundIsPrivate'
  BY <1>18 DEF Crash, Abandon, Uploading
<1>19. ASSUME NEW x \in lateCreate, LateDraft(x) PROVE UnboundIsPrivate'
  BY <1>19 DEF LateDraft, CreateSession
<1>20. ASSUME NEW m \in lateUpload, LateBatch(m) PROVE UnboundIsPrivate'
  BY <1>20 DEF LateBatch, AcceptsUpload, StoreBatch
<1>21. ASSUME NEW r \in lateComplete, LateCompletion(r) PROVE UnboundIsPrivate'
  BY <1>21 DEF LateCompletion, CompleteSession
<1>22. ASSUME UNCHANGED vars PROVE UnboundIsPrivate'
  BY <1>22
<1> HIDE DEF IInv, TypeOK, StoreTypeOK, TasksHoldOwnSession, ProgressIsStored, UnboundIsPrivate,
        ServerIsSound, PhoneIsSound, OnlyClosedIsSent
<1> QED
  BY <1>1, <1>2, <1>3, <1>4, <1>5, <1>6, <1>7, <1>8, <1>9, <1>10, <1>11, <1>12, <1>13, <1>14,
     <1>15, <1>16, <1>17, <1>18, <1>19, <1>20, <1>21, <1>22
     DEF Next, UserStep, SyncStep, RefreshStep, MeetsReconciliation, LateStep

(* A session is completed by a task that uploaded it all, or by a late      *)
(* request of one.                                                          *)
LEMMA ServerIsSoundStep == IInv /\ TypeOK' /\ [Next]_vars => ServerIsSound'
<1> SUFFICES ASSUME IInv, TypeOK', [Next]_vars PROVE ServerIsSound'
    OBVIOUS
<1> USE RideAssumption, TaskAssumption DEF IInv, TypeOK, StoreTypeOK, TasksHoldOwnSession,
        ProgressIsStored, UnboundIsPrivate, ServerIsSound, PhoneIsSound, CompletedIsWhole,
        SyncedIsSaved, RowsPointAtOwnSession, Saved, Whole, AllBatches, Bound, SyncPC, RefreshPC,
        Row, Present, Absent, InProgress, Unsynced
<1>1. ASSUME NEW x \in Ride, StartRide(x) \/ PauseRide(x) \/ ResumeRide(x) \/ FinishRide(x)
       PROVE  ServerIsSound'
  BY <1>1 DEF StartRide, PauseRide, ResumeRide, FinishRide, SetState
<1>2. ASSUME NEW t \in Buttons, NEW x \in Ride, ButtonPressed(t, x) PROVE ServerIsSound'
  BY <1>2 DEF ButtonPressed, Goto, Task
<1>3. ASSUME NEW t \in Screens, ScreenOpens(t) PROVE ServerIsSound'
  BY <1>3 DEF ScreenOpens, Goto, Task
<1>4. ASSUME PassStarts PROVE ServerIsSound'
  BY <1>4 DEF PassStarts, PassBegin, PassTakesRide, PassTurnsToRefresh, Goto, Task
<1>5. ASSUME NEW t \in Task, BeginAttempt(t) PROVE ServerIsSound'
  BY <1>5 DEF BeginAttempt, SetState, Goto
<1>6. ASSUME NEW t \in Task, ReadRow(t) PROVE ServerIsSound'
  BY <1>6 DEF ReadRow, SyncReturns, AfterSync, Goto
<1>7. ASSUME NEW t \in Task, DraftCreated(t) PROVE ServerIsSound'
  BY <1>7 DEF DraftCreated, CreateSession, Goto
<1>8. ASSUME NEW t \in Task, BindDraft(t) PROVE ServerIsSound'
  BY <1>8 DEF BindDraft, BindRemote, SetState, Goto
<1>9. ASSUME NEW t \in Task, BatchStored(t) PROVE ServerIsSound'
  BY <1>9 DEF BatchStored, Uploading, AcceptsUpload, StoreBatch
<1>10. ASSUME NEW t \in Task, BatchRefused(t) \/ CompleteRefused(t) PROVE ServerIsSound'
  BY <1>10 DEF BatchRefused, CompleteRefused, Uploading, Goto
<1>11. ASSUME NEW t \in Task, ReadSummary(t) PROVE ServerIsSound'
  BY <1>11 DEF ReadSummary, SyncReturns, AfterSync, Goto
<1>12. ASSUME NEW t \in Task, SessionCompleted(t) PROVE ServerIsSound'
  BY <1>12 DEF SessionCompleted, CompleteSession, Goto
<1>13. ASSUME NEW t \in Task, MarkSynced(t) \/ MarkFailed(t) PROVE ServerIsSound'
  BY <1>13 DEF MarkSynced, MarkFailed, SetState, SyncReturns, AfterSync, Goto
<1>14. ASSUME NEW t \in Task,
              ReadHidden(t) \/ LookAtCache(t) \/ JoinReconciliation(t) \/ ReadTombstones(t)
       PROVE  ServerIsSound'
  BY <1>14 DEF ReadHidden, LookAtCache, JoinReconciliation, ReadTombstones, Goto
<1>15. ASSUME NEW t \in Task, HistoryListed(t) \/ ReplaceCache(t) PROVE ServerIsSound'
  BY <1>15 DEF HistoryListed, ListedAsHistory, ReplaceCache, Goto
<1>16. ASSUME NEW t \in Task, NEW from \in {"rehydrate", "hydrate"}, NEW next \in {"idle", "join"},
              HydrateRow(t, from, next)
       PROVE  ServerIsSound'
  BY <1>16 DEF HydrateRow, UpsertSummary, RowsOf, Goto
<1>17. ASSUME NEW t \in Task, RequestLost(t) PROVE ServerIsSound'
  BY <1>17 DEF RequestLost, Abandon, Uploading, Goto
<1>18. ASSUME Crash PROVE ServerIsSound'
  BY <1>18 DEF Crash, Abandon, Uploading
<1>19. ASSUME NEW x \in lateCreate, LateDraft(x) PROVE ServerIsSound'
  BY <1>19 DEF LateDraft, CreateSession
<1>20. ASSUME NEW m \in lateUpload, LateBatch(m) PROVE ServerIsSound'
  BY <1>20 DEF LateBatch, AcceptsUpload, StoreBatch
<1>21. ASSUME NEW r \in lateComplete, LateCompletion(r) PROVE ServerIsSound'
  BY <1>21 DEF LateCompletion, CompleteSession
<1>22. ASSUME UNCHANGED vars PROVE ServerIsSound'
  BY <1>22
<1> HIDE DEF IInv, TypeOK, StoreTypeOK, TasksHoldOwnSession, ProgressIsStored, UnboundIsPrivate,
        ServerIsSound, PhoneIsSound, OnlyClosedIsSent
<1> QED
  BY <1>1, <1>2, <1>3, <1>4, <1>5, <1>6, <1>7, <1>8, <1>9, <1>10, <1>11, <1>12, <1>13, <1>14,
     <1>15, <1>16, <1>17, <1>18, <1>19, <1>20, <1>21, <1>22
     DEF Next, UserStep, SyncStep, RefreshStep, MeetsReconciliation, LateStep

(* An upsert by remote id finds the row that has the id or takes one that    *)
(* no other row uses.                                                       *)
LEMMA UpsertKeepsRowsApart ==
  ASSUME RideAssumption, NEW r \in Remote, remote \in [Row -> Remote \cup {Nil}],
         RowsPointAtOwnSession, UpsertSummary(r), madeFor' = madeFor
  PROVE  RowsPointAtOwnSession'
<1>1. \A x \in Row : remote[x] = r => remote'[x] = r
  BY DEF UpsertSummary, RowsOf
<1>2. CASE RowsOf(r) = {}
  <2>1. remote' = [x \in Row |-> IF x = r THEN r ELSE remote[x]]
    BY <1>2 DEF UpsertSummary
  <2>2. \A x \in Row : remote[x] # r
    BY <1>2 DEF RowsOf
  <2>3. \A x \in Ride : x # r /\ x \in Row
    BY DEF RideAssumption, Row
  <2> QED BY <2>1, <2>2, <2>3 DEF RowsPointAtOwnSession
<1>3. CASE RowsOf(r) # {}
  <2>1. \A x \in Row : remote'[x] = remote[x]
    BY <1>3 DEF UpsertSummary, RowsOf
  <2> QED BY <2>1 DEF RowsPointAtOwnSession, Row
<1> QED BY <1>2, <1>3

(* A row is written "synced" by a task the server has answered, or from a   *)
(* listing of completed sessions; a completed session stays completed.      *)
LEMMA PhoneIsSoundStep == IInv /\ TypeOK' /\ [Next]_vars => PhoneIsSound'
<1> SUFFICES ASSUME IInv, TypeOK', [Next]_vars PROVE PhoneIsSound'
    OBVIOUS
<1> USE RideAssumption, TaskAssumption DEF IInv, TypeOK, StoreTypeOK, TasksHoldOwnSession,
        ProgressIsStored, UnboundIsPrivate, ServerIsSound, PhoneIsSound, CompletedIsWhole,
        SyncedIsSaved, RowsPointAtOwnSession, Saved, Whole, AllBatches, Bound, SyncPC, RefreshPC,
        Row, Present, Absent, InProgress, Unsynced
<1>1. ASSUME NEW x \in Ride, StartRide(x) \/ PauseRide(x) \/ ResumeRide(x) \/ FinishRide(x)
       PROVE  PhoneIsSound'
  <2>1. /\ \A y \in Row : state'[y] = "synced" => state[y] = "synced"
        /\ UNCHANGED <<remote, cache, seen, status, stored, madeFor>>
    BY <1>1 DEF StartRide, PauseRide, ResumeRide, FinishRide, SetState
  <2> QED BY <2>1
<1>2. ASSUME NEW t \in Buttons, NEW x \in Ride, ButtonPressed(t, x) PROVE PhoneIsSound'
  BY <1>2 DEF ButtonPressed, Goto, Task
<1>3. ASSUME NEW t \in Screens, ScreenOpens(t) PROVE PhoneIsSound'
  BY <1>3 DEF ScreenOpens, Goto, Task
<1>4. ASSUME PassStarts PROVE PhoneIsSound'
  BY <1>4 DEF PassStarts, PassBegin, PassTakesRide, PassTurnsToRefresh, Goto, Task
<1>5. ASSUME NEW t \in Task, BeginAttempt(t) PROVE PhoneIsSound'
  BY <1>5 DEF BeginAttempt, SetState, Goto
<1>6. ASSUME NEW t \in Task, ReadRow(t) PROVE PhoneIsSound'
  BY <1>6 DEF ReadRow, SyncReturns, AfterSync, Goto
<1>7. ASSUME NEW t \in Task, DraftCreated(t) PROVE PhoneIsSound'
  BY <1>7 DEF DraftCreated, CreateSession, Goto
<1>8. ASSUME NEW t \in Task, BindDraft(t) PROVE PhoneIsSound'
  BY <1>8 DEF BindDraft, BindRemote, SetState, Goto
<1>9. ASSUME NEW t \in Task, BatchStored(t) PROVE PhoneIsSound'
  BY <1>9 DEF BatchStored, Uploading, AcceptsUpload, StoreBatch
<1>10. ASSUME NEW t \in Task, BatchRefused(t) \/ CompleteRefused(t) PROVE PhoneIsSound'
  BY <1>10 DEF BatchRefused, CompleteRefused, Uploading, Goto
<1>11. ASSUME NEW t \in Task, ReadSummary(t) PROVE PhoneIsSound'
  BY <1>11 DEF ReadSummary, SyncReturns, AfterSync, Goto
<1>12. ASSUME NEW t \in Task, SessionCompleted(t) PROVE PhoneIsSound'
  BY <1>12 DEF SessionCompleted, CompleteSession, Goto
<1>13. ASSUME NEW t \in Task, MarkSynced(t) \/ MarkFailed(t) PROVE PhoneIsSound'
  BY <1>13 DEF MarkSynced, MarkFailed, SetState, SyncReturns, AfterSync, Goto
<1>14. ASSUME NEW t \in Task,
              ReadHidden(t) \/ LookAtCache(t) \/ JoinReconciliation(t) \/ ReadTombstones(t)
       PROVE  PhoneIsSound'
  BY <1>14 DEF ReadHidden, LookAtCache, JoinReconciliation, ReadTombstones, Goto
<1>15. ASSUME NEW t \in Task, HistoryListed(t) \/ ReplaceCache(t) PROVE PhoneIsSound'
  <2>1. CASE HistoryListed(t)
    <3>1. \A u \in Task : \A r \in seen'[u] : r \in seen[u] \/ status[r] = "completed"
      BY <2>1 DEF HistoryListed, ListedAsHistory
    <3>2. UNCHANGED <<storeVars>>
      BY <2>1 DEF HistoryListed
    <3> QED BY <3>1, <3>2
  <2>2. CASE ReplaceCache(t)
    <3>1. /\ cache' = seen[t]
          /\ UNCHANGED <<state, remote, status, stored, madeFor, seen>>
      BY <2>2 DEF ReplaceCache
    <3> QED BY <3>1
  <2> QED BY <1>15, <2>1, <2>2
<1>16. ASSUME NEW t \in Task, NEW from \in {"rehydrate", "hydrate"}, NEW next \in {"idle", "join"},
              HydrateRow(t, from, next)
       PROVE  PhoneIsSound'
  <2>1. PICK r \in seen[t] : UpsertSummary(r) /\ seen' = [seen EXCEPT ![t] = seen[t] \ {r}]
    BY <1>16 DEF HydrateRow
  <2>2. /\ r \in Remote /\ status[r] = "completed"
        /\ UNCHANGED <<status, madeFor, cache>>
    BY <1>16, <2>1 DEF HydrateRow
  <2>3. \A u \in Task : seen'[u] \subseteq seen[u]
    BY <2>1
  <2>4. \A x \in Row : remote'[x] = remote[x] \/ (RowsOf(r) = {} /\ x = r /\ remote'[x] = r)
    BY <2>1 DEF UpsertSummary, RowsOf
  <2>5. RowsPointAtOwnSession'
    BY <2>1, <2>2, UpsertKeepsRowsApart
  <2>6. \A q \in Remote : remote'[q] # Nil => remote'[q] = q /\ status'[q] = "completed"
    BY <2>2, <2>4
  <2>7. ASSUME NEW x \in Ride, state'[x] = "synced"
        PROVE  Saved(x)'
    <3>1. CASE state[x] = "synced"
      BY <2>2, <3>1
    <3>2. CASE state[x] # "synced"
      <4>1. remote[x] = r
        BY <2>1, <2>2, <2>7, <3>2 DEF UpsertSummary, RowsOf
      <4> QED BY <2>2, <4>1
    <3> QED BY <3>1, <3>2
  <2> QED BY <2>2, <2>3, <2>5, <2>6, <2>7
<1>17. ASSUME NEW t \in Task, RequestLost(t) PROVE PhoneIsSound'
  BY <1>17 DEF RequestLost, Abandon, Uploading, Goto
<1>18. ASSUME Crash PROVE PhoneIsSound'
  BY <1>18 DEF Crash, Abandon, Uploading
<1>19. ASSUME NEW x \in lateCreate, LateDraft(x) PROVE PhoneIsSound'
  BY <1>19 DEF LateDraft, CreateSession
<1>20. ASSUME NEW m \in lateUpload, LateBatch(m) PROVE PhoneIsSound'
  BY <1>20 DEF LateBatch, AcceptsUpload, StoreBatch
<1>21. ASSUME NEW r \in lateComplete, LateCompletion(r) PROVE PhoneIsSound'
  BY <1>21 DEF LateCompletion, CompleteSession
<1>22. ASSUME UNCHANGED vars PROVE PhoneIsSound'
  BY <1>22
<1> HIDE DEF IInv, TypeOK, StoreTypeOK, TasksHoldOwnSession, ProgressIsStored, UnboundIsPrivate,
        ServerIsSound, PhoneIsSound, OnlyClosedIsSent
<1> QED
  BY <1>1, <1>2, <1>3, <1>4, <1>5, <1>6, <1>7, <1>8, <1>9, <1>10, <1>11, <1>12, <1>13, <1>14,
     <1>15, <1>16, <1>17, <1>18, <1>19, <1>20, <1>21, <1>22
     DEF Next, UserStep, SyncStep, RefreshStep, MeetsReconciliation, LateStep

(* A finished ride never goes back to recording, and only finished rides are *)
(* taken up.                                                                *)
LEMMA OnlyClosedIsSentStep == IInv /\ TypeOK' /\ [Next]_vars => OnlyClosedIsSent'
<1> SUFFICES ASSUME IInv, TypeOK', [Next]_vars PROVE OnlyClosedIsSent'
    OBVIOUS
<1> USE RideAssumption, TaskAssumption DEF IInv, TypeOK, StoreTypeOK, TasksHoldOwnSession,
        ProgressIsStored, UnboundIsPrivate, ServerIsSound, PhoneIsSound, OnlyClosedIsSent, Closed, CompletedIsWhole,
        SyncedIsSaved, RowsPointAtOwnSession, Saved, Whole, AllBatches, Bound, SyncPC, RefreshPC,
        Row, Present, Absent, InProgress, Unsynced
<1>1. ASSUME NEW x \in Ride, StartRide(x) \/ PauseRide(x) \/ ResumeRide(x) \/ FinishRide(x)
       PROVE  OnlyClosedIsSent'
  <2>1. Closed \subseteq Closed'
    BY <1>1 DEF StartRide, PauseRide, ResumeRide, FinishRide, SetState
  <2>2. UNCHANGED <<todo, lateCreate, on, madeFor>>
    BY <1>1 DEF StartRide, PauseRide, ResumeRide, FinishRide
  <2> HIDE DEF Closed
  <2> QED BY <2>1, <2>2
<1>2. ASSUME NEW t \in Buttons, NEW x \in Ride, ButtonPressed(t, x) PROVE OnlyClosedIsSent'
  BY <1>2 DEF ButtonPressed, Goto, Task
<1>3. ASSUME NEW t \in Screens, ScreenOpens(t) PROVE OnlyClosedIsSent'
  BY <1>3 DEF ScreenOpens, Goto, Task
<1>4. ASSUME PassStarts PROVE OnlyClosedIsSent'
  BY <1>4 DEF PassStarts, PassBegin, PassTakesRide, PassTurnsToRefresh, Goto, Task
<1>5. ASSUME NEW t \in Task, BeginAttempt(t) PROVE OnlyClosedIsSent'
  BY <1>5 DEF BeginAttempt, SetState, Goto
<1>6. ASSUME NEW t \in Task, ReadRow(t) PROVE OnlyClosedIsSent'
  BY <1>6 DEF ReadRow, SyncReturns, AfterSync, Goto
<1>7. ASSUME NEW t \in Task, DraftCreated(t) PROVE OnlyClosedIsSent'
  BY <1>7 DEF DraftCreated, CreateSession, Goto
<1>8. ASSUME NEW t \in Task, BindDraft(t) PROVE OnlyClosedIsSent'
  BY <1>8 DEF BindDraft, BindRemote, SetState, Goto
<1>9. ASSUME NEW t \in Task, BatchStored(t) PROVE OnlyClosedIsSent'
  BY <1>9 DEF BatchStored, Uploading, AcceptsUpload, StoreBatch
<1>10. ASSUME NEW t \in Task, BatchRefused(t) \/ CompleteRefused(t) PROVE OnlyClosedIsSent'
  BY <1>10 DEF BatchRefused, CompleteRefused, Uploading, Goto
<1>11. ASSUME NEW t \in Task, ReadSummary(t) PROVE OnlyClosedIsSent'
  BY <1>11 DEF ReadSummary, SyncReturns, AfterSync, Goto
<1>12. ASSUME NEW t \in Task, SessionCompleted(t) PROVE OnlyClosedIsSent'
  BY <1>12 DEF SessionCompleted, CompleteSession, Goto
<1>13. ASSUME NEW t \in Task, MarkSynced(t) \/ MarkFailed(t) PROVE OnlyClosedIsSent'
  <2>1. Closed \subseteq Closed'
    BY <1>13 DEF MarkSynced, MarkFailed, SetState
  <2>2. /\ \A u \in Task : on'[u] # Nil => on'[u] = on[u]
        /\ UNCHANGED <<todo, lateCreate, madeFor>>
    BY <1>13 DEF MarkSynced, MarkFailed, SyncReturns
  <2> HIDE DEF Closed
  <2> QED BY <2>1, <2>2
<1>14. ASSUME NEW t \in Task,
              ReadHidden(t) \/ LookAtCache(t) \/ JoinReconciliation(t) \/ ReadTombstones(t)
       PROVE  OnlyClosedIsSent'
  BY <1>14 DEF ReadHidden, LookAtCache, JoinReconciliation, ReadTombstones, Goto
<1>15. ASSUME NEW t \in Task, HistoryListed(t) \/ ReplaceCache(t) PROVE OnlyClosedIsSent'
  BY <1>15 DEF HistoryListed, ListedAsHistory, ReplaceCache, Goto
<1>16. ASSUME NEW t \in Task, NEW from \in {"rehydrate", "hydrate"}, NEW next \in {"idle", "join"},
              HydrateRow(t, from, next)
       PROVE  OnlyClosedIsSent'
  BY <1>16 DEF HydrateRow, UpsertSummary, RowsOf, Goto
<1>17. ASSUME NEW t \in Task, RequestLost(t) PROVE OnlyClosedIsSent'
  BY <1>17 DEF RequestLost, Abandon, Uploading, Goto
<1>18. ASSUME Crash PROVE OnlyClosedIsSent'
  BY <1>18 DEF Crash, Abandon, Uploading
<1>19. ASSUME NEW x \in lateCreate, LateDraft(x) PROVE OnlyClosedIsSent'
  BY <1>19 DEF LateDraft, CreateSession
<1>20. ASSUME NEW m \in lateUpload, LateBatch(m) PROVE OnlyClosedIsSent'
  BY <1>20 DEF LateBatch, AcceptsUpload, StoreBatch
<1>21. ASSUME NEW r \in lateComplete, LateCompletion(r) PROVE OnlyClosedIsSent'
  BY <1>21 DEF LateCompletion, CompleteSession
<1>22. ASSUME UNCHANGED vars PROVE OnlyClosedIsSent'
  BY <1>22
<1> HIDE DEF IInv, TypeOK, StoreTypeOK, TasksHoldOwnSession, ProgressIsStored, UnboundIsPrivate,
        ServerIsSound, PhoneIsSound, OnlyClosedIsSent
<1> QED
  BY <1>1, <1>2, <1>3, <1>4, <1>5, <1>6, <1>7, <1>8, <1>9, <1>10, <1>11, <1>12, <1>13, <1>14,
     <1>15, <1>16, <1>17, <1>18, <1>19, <1>20, <1>21, <1>22
     DEF Next, UserStep, SyncStep, RefreshStep, MeetsReconciliation, LateStep

(* Nothing is recorded, bound or under way at first.                        *)
LEMMA InitIInv == Init => IInv
  BY RideAssumption, TaskAssumption DEF Init, StoreInit, SyncInit, IInv, TypeOK, StoreTypeOK, RowState, Absent,
     TasksHoldOwnSession, ProgressIsStored, UnboundIsPrivate, ServerIsSound, PhoneIsSound, OnlyClosedIsSent, Closed,
     RowsPointAtOwnSession, CompletedIsWhole, SyncedIsSaved, Bound, SyncPC, RefreshPC, Unsynced, Row

(* IInv holds in every state, for any set of rides, tasks and identifiers.  *)
THEOREM Inductive == Spec => []IInv
<1>1. IInv /\ [Next]_vars => IInv'
  <2> SUFFICES ASSUME IInv, [Next]_vars PROVE IInv'
      OBVIOUS
  <2>1. TypeOK'
    BY TypeStep DEF IInv, TasksHoldOwnSession, TasksHoldSomething
  <2> QED
    BY <2>1, TasksHoldOwnSessionStep, ProgressIsStoredStep, UnboundIsPrivateStep, ServerIsSoundStep,
       PhoneIsSoundStep, OnlyClosedIsSentStep DEF IInv
<1> QED BY InitIInv, <1>1, PTL DEF Spec

(* Type correctness.                                                        *)
THEOREM TypeCorrect == Spec => []TypeOK
<1>1. IInv => TypeOK
  BY DEF IInv
<1> QED BY <1>1, Inductive, PTL

(* No ride is closed on the server with points missing, whatever is retried,*)
(* lost or executed late.                                                   *)
THEOREM NothingIsLost == Spec => []CompletedIsWhole
<1>1. IInv => CompletedIsWhole
  BY DEF IInv, ServerIsSound
<1> QED BY <1>1, Inductive, PTL

(* No ride is called synced on the phone before the server has it.          *)
THEOREM NothingIsClaimed == Spec => []SyncedIsSaved
<1>1. IInv => SyncedIsSaved
  BY DEF IInv, PhoneIsSound
<1> QED BY <1>1, Inductive, PTL

(* Binding and hydration never mix two rides up, even when two tasks sync one. *)
THEOREM NoMixUp == Spec => []RowsPointAtOwnSession
<1>1. IInv => RowsPointAtOwnSession
  BY DEF IInv, PhoneIsSound
<1> QED BY <1>1, Inductive, PTL

-----------------------------------------------------------------------------
(* Where nothing but the pass syncs, a ride has one session at a time: the  *)
(* one its row is bound to.  A draft whose creation went unanswered is      *)
(* never completed.                                                         *)
OneSessionPerRide ==
  /\ \A t \in Screens : pc[t] \notin SyncPC
  /\ pc[Pass] \in {"create", "bind"} => remote[on[Pass]] = Nil
  /\ pc[Pass] \in {"upload", "complete", "mark"} => remote[on[Pass]] = rem[Pass]
  /\ \A r \in Remote : status[r] = "completed" \/ r \in lateComplete => remote[madeFor[r]] = r

LEMMA OneSessionStep ==
  ASSUME Buttons = {}, IInv, IInv', OneSessionPerRide, [Next]_vars
  PROVE  OneSessionPerRide'
<1> USE RideAssumption, TaskAssumption DEF IInv, TypeOK, StoreTypeOK, TasksHoldOwnSession,
        ProgressIsStored, UnboundIsPrivate, ServerIsSound, PhoneIsSound, OnlyClosedIsSent, Closed, CompletedIsWhole,
        SyncedIsSaved, RowsPointAtOwnSession, Whole, Bound, SyncPC, RefreshPC,
        Row, Present, Absent, InProgress, Unsynced, OneSessionPerRide, Task
<1>1. CASE UserStep
  BY <1>1 DEF UserStep, StartRide, PauseRide, ResumeRide, FinishRide, ButtonPressed, ScreenOpens, Goto
<1>2. CASE PassStarts
  BY <1>2 DEF PassStarts, PassBegin, PassTakesRide, PassTurnsToRefresh, Goto
<1>3. ASSUME NEW t \in Task, SyncStep(t) PROVE OneSessionPerRide'
  <2>0. t = Pass
    BY <1>3 DEF SyncStep, BeginAttempt, ReadRow, DraftCreated, BindDraft, BatchStored, BatchRefused,
                ReadSummary, SessionCompleted, CompleteRefused, MarkSynced, MarkFailed, Uploading
  <2>1. CASE BeginAttempt(t)
    BY <2>0, <2>1 DEF BeginAttempt, Goto
  <2>2. CASE ReadRow(t)
    BY <2>0, <2>2 DEF ReadRow, SyncReturns, AfterSync, Goto
  <2>3. CASE DraftCreated(t)
    BY <2>0, <2>3 DEF DraftCreated, CreateSession, Goto
  <2>4. CASE BindDraft(t)
    BY <2>0, <2>4 DEF BindDraft, BindRemote, Goto
  <2>5. CASE BatchStored(t)
    BY <2>0, <2>5 DEF BatchStored, StoreBatch
  <2>6. CASE BatchRefused(t) \/ CompleteRefused(t)
    BY <2>0, <2>6 DEF BatchRefused, CompleteRefused, Goto
  <2>7. CASE ReadSummary(t)
    BY <2>0, <2>7 DEF ReadSummary, SyncReturns, AfterSync, Goto
  <2>8. CASE SessionCompleted(t)
    BY <2>0, <2>8 DEF SessionCompleted, CompleteSession, Goto
  <2>9. CASE MarkSynced(t) \/ MarkFailed(t)
    BY <2>0, <2>9 DEF MarkSynced, MarkFailed, SyncReturns, AfterSync, Goto
  <2> HIDE DEF OneSessionPerRide
  <2> QED BY <1>3, <2>1, <2>2, <2>3, <2>4, <2>5, <2>6, <2>7, <2>8, <2>9 DEF SyncStep
<1>4. ASSUME NEW t \in Task, NEW from \in {"rehydrate", "hydrate"}, NEW next \in {"idle", "join"},
             HydrateRow(t, from, next)
      PROVE  OneSessionPerRide'
  <2>1. PICK r \in seen[t] : UpsertSummary(r)
    BY <1>4 DEF HydrateRow
  <2>2. status[r] = "completed" /\ madeFor[r] \in RowsOf(r)
    BY <2>1 DEF RowsOf
  <2>3. remote' = remote
    BY <2>1, <2>2 DEF UpsertSummary, RowsOf
  <2> QED BY <1>4, <2>3 DEF HydrateRow, Goto
<1>5. ASSUME NEW t \in Task,
             LookAtCache(t) \/ HistoryListed(t) \/ ReplaceCache(t) \/ MeetsReconciliation(t)
      PROVE  OneSessionPerRide'
  <2>1. PICK l \in {"look", "join", "rehydrate", "hide", "fetch", "store", "hydrate", "idle"} :
            /\ pc' = [pc EXCEPT ![t] = l]
            /\ UNCHANGED <<on, rem, remote, status, madeFor, lateComplete>>
    BY <1>5 DEF MeetsReconciliation, LookAtCache, HistoryListed, ReplaceCache,
                ReadHidden, JoinReconciliation, ReadTombstones, Goto
  <2> QED BY <2>1
<1>6. ASSUME NEW t \in Task, RequestLost(t) PROVE OneSessionPerRide'
  <2>1. t = Pass \/ pc[t] = "fetch"
    BY <1>6 DEF RequestLost, Uploading
  <2> QED BY <1>6, <2>1 DEF RequestLost, Abandon, Goto
<1>7. CASE Crash
  <2>1. \A r \in lateComplete' \ lateComplete : pc[Pass] = "complete" /\ r = rem[Pass]
    BY <1>7 DEF Crash, Abandon
  <2> QED BY <1>7, <2>1 DEF Crash
<1>8. CASE LateStep
  BY <1>8 DEF LateStep, LateDraft, CreateSession, LateBatch, StoreBatch, LateCompletion, CompleteSession
<1>9. CASE UNCHANGED vars
  BY <1>9
<1> HIDE DEF OneSessionPerRide
<1> QED BY <1>1, <1>2, <1>3, <1>4, <1>5, <1>6, <1>7, <1>8, <1>9 DEF Next, RefreshStep

(* Where nothing but the pass syncs, the server keeps one copy of a ride,   *)
(* however many creations and completions go unanswered.                    *)
THEOREM OneCopy ==
  ASSUME Buttons = {}
  PROVE  Spec => []NoDuplicateRide
<1>1. Init => OneSessionPerRide
  BY RideAssumption DEF Init, StoreInit, SyncInit, OneSessionPerRide, SyncPC, Task
<1>2. IInv /\ IInv' /\ OneSessionPerRide /\ [Next]_vars => OneSessionPerRide'
  BY OneSessionStep
<1>3. OneSessionPerRide => NoDuplicateRide
  BY DEF OneSessionPerRide, NoDuplicateRide
<1> QED BY <1>1, <1>2, <1>3, Inductive, PTL DEF Spec

-------------------------------------------------------------------------------
(* RideSync implements RideVault: every step of the sync tasks, of the      *)
(* network and of a crash is a step of the promise, or no step of it.       *)

claimed == [x \in Ride |-> ClaimOf(state[x])]
kept    == {x \in Ride : Saved(x)}

(* What ClaimOf makes of every state of a row.                              *)
LEMMA Claims ==
  /\ ClaimOf("none") = "none" /\ ClaimOf("gone") = "none"
  /\ \A s \in InProgress : ClaimOf(s) = "open"
  /\ \A s \in Unsynced : ClaimOf(s) = "owed"
  /\ ClaimOf("synced") = "settled"
BY DEF ClaimOf, Absent, InProgress, Unsynced

(* A step that moves no ride and completes no session is no step of it.     *)
LEMMA Stutter ==
  ASSUME claimed' = claimed, kept' = kept
  PROVE  [Vault!Next]_(Vault!vars)
BY DEF claimed, kept, Vault!vars

(* Most steps write none of the three variables the promise is about.       *)
LEMMA SameStore ==
  ASSUME UNCHANGED <<state, status, madeFor>>
  PROVE  [Vault!Next]_(Vault!vars)
<1>1. claimed' = claimed /\ kept' = kept
  BY DEF claimed, kept, Saved
<1> QED BY <1>1, Stutter

(* A sync task or the history writes the row of a finished ride.            *)
LEMMA WriteRow ==
  ASSUME NEW x \in Closed, NEW s \in Unsynced \cup {"synced"},
         s = "synced" => Saved(x),
         \A y \in Ride : state'[y] = IF y = x THEN s ELSE state[y],
         UNCHANGED <<status, madeFor>>
  PROVE  [Vault!Next]_(Vault!vars)
<1>1. kept' = kept
  BY DEF kept, Saved
<1>2. x \in Ride
  BY DEF Closed
<1>3. claimed' = [claimed EXCEPT ![x] = ClaimOf(s)]
  BY <1>2 DEF claimed
<1>4. claimed[x] \in {"owed", "settled"} /\ ClaimOf(s) \in {"owed", "settled"}
  BY <1>2 DEF Closed, claimed, ClaimOf, Unsynced, Absent, InProgress
<1>5. ClaimOf(s) = "settled" => x \in kept
  BY <1>2 DEF ClaimOf, Unsynced, Absent, InProgress, kept
<1>6. CASE ClaimOf(s) = claimed[x]
  <2>1. claimed' = claimed
    BY <1>2, <1>3, <1>6 DEF claimed
  <2> QED BY <1>1, <2>1, Stutter
<1>7. CASE ClaimOf(s) = "settled" /\ claimed[x] = "owed"
  BY <1>1, <1>2, <1>3, <1>5, <1>7 DEF Vault!Next, Vault!Settle, claimed, kept
<1>8. CASE ClaimOf(s) = "owed" /\ claimed[x] = "settled"
  BY <1>1, <1>2, <1>3, <1>8 DEF Vault!Next, Vault!Doubt, claimed, kept
<1> QED BY <1>4, <1>6, <1>7, <1>8

(* A completion, answered or late, is the server taking the ride in.        *)
LEMMA Completes ==
  ASSUME IInv, NEW r \in Remote, status[r] = "draft", Whole(r), CompleteSession(r), UNCHANGED state
  PROVE  [Vault!Next]_(Vault!vars)
<1> DEFINE x == madeFor[r]
<1>1. x \in Closed /\ x \in Ride
  BY RideAssumption DEF IInv, OnlyClosedIsSent, Whole
<1>2. kept' = kept \cup {x}
  BY <1>1 DEF kept, Saved, CompleteSession, IInv, TypeOK, StoreTypeOK
<1>3. claimed' = claimed /\ claimed[x] \in {"owed", "settled"}
  BY <1>1 DEF claimed, ClaimOf, Closed, Unsynced, Absent, InProgress
<1> QED BY <1>1, <1>2, <1>3 DEF Vault!Next, Vault!Save, claimed, kept

(* A new draft is not a completed session.                                  *)
LEMMA Drafts ==
  ASSUME IInv, NEW x, NEW r \in Remote, CreateSession(x, r), UNCHANGED state
  PROVE  [Vault!Next]_(Vault!vars)
<1>1. kept' = kept
  BY DEF kept, Saved, CreateSession, IInv, TypeOK, StoreTypeOK
<1>2. claimed' = claimed
  BY DEF claimed
<1> QED BY <1>1, <1>2, Stutter

(* Every step of RideSync from a state of IInv is a step of RideVault or    *)
(* leaves its variables alone.                                              *)
THEOREM StepKeepsThePromise == IInv /\ [Next]_vars => [Vault!Next]_(Vault!vars)
<1> SUFFICES ASSUME IInv, [Next]_vars PROVE [Vault!Next]_(Vault!vars)
    OBVIOUS
<1> DEFINE Kept == [Vault!Next]_(Vault!vars)
<1> HIDE DEF Kept
<1>t. TypeOK /\ OnlyClosedIsSent /\ TasksHoldOwnSession
  BY DEF IInv
<1>1. ASSUME NEW x \in Ride, StartRide(x) PROVE Kept
  <2>1. claimed[x] = "none" /\ claimed' = [claimed EXCEPT ![x] = "open"]
    <3>1. state[x] = "none" /\ \A y \in Ride : state'[y] = IF y = x THEN "recording" ELSE state[y]
      BY <1>t, <1>1 DEF StartRide, TypeOK, StoreTypeOK, Row
    <3> QED BY <3>1, Claims DEF claimed, InProgress
  <2>2. kept' = kept
    BY <1>1 DEF StartRide, kept, Saved
  <2> QED BY <2>1, <2>2 DEF Kept, Vault!Next, Vault!Open, claimed, kept
<1>2. ASSUME NEW x \in Ride, PauseRide(x) \/ ResumeRide(x) PROVE Kept
  <2>1. claimed' = claimed
    <3>1. /\ state[x] \in InProgress /\ state'[x] \in InProgress
          /\ \A y \in Ride : y # x => state'[y] = state[y]
      BY <1>t, <1>2 DEF PauseRide, ResumeRide, SetState, Present, Absent, InProgress, TypeOK, StoreTypeOK, Row
    <3> QED BY <3>1, Claims DEF claimed
  <2>2. kept' = kept
    BY <1>2 DEF PauseRide, ResumeRide, kept, Saved
  <2> QED BY <2>1, <2>2, Stutter DEF Kept
<1>3. ASSUME NEW x \in Ride, FinishRide(x) PROVE Kept
  <2>1. claimed[x] = "open" /\ claimed' = [claimed EXCEPT ![x] = "owed"]
    <3>1. state[x] \in InProgress /\ \A y \in Ride : state'[y] = IF y = x THEN "syncPending" ELSE state[y]
      BY <1>t, <1>3 DEF FinishRide, SetState, Present, Absent, InProgress, TypeOK, StoreTypeOK, Row
    <3> QED BY <3>1, Claims DEF claimed, Unsynced
  <2>2. kept' = kept
    BY <1>3 DEF FinishRide, kept, Saved
  <2> QED BY <2>1, <2>2 DEF Kept, Vault!Next, Vault!Close, claimed, kept
<1>4. ASSUME NEW t \in Task, NEW s \in Unsynced \cup {"synced"}, on[t] # Nil, SetState(on[t], s),
             s = "synced" => Saved(on[t]), UNCHANGED <<status, madeFor>>
      PROVE  Kept
  <2>1. on[t] \in Closed
    BY <1>t, <1>4 DEF OnlyClosedIsSent
  <2>2. \A y \in Ride : state'[y] = IF y = on[t] THEN s ELSE state[y]
    BY <1>t, <1>4, <2>1 DEF SetState, Present, Closed, Absent, Unsynced, TypeOK, StoreTypeOK, Row
  <2> QED BY <1>4, <2>1, <2>2, WriteRow DEF Kept
<1>5. ASSUME NEW t \in Task, BeginAttempt(t) PROVE Kept
  BY <1>t, <1>4, <1>5, RideAssumption DEF BeginAttempt, TasksHoldOwnSession, SyncPC, Unsynced
<1>6. ASSUME NEW t \in Task, BindDraft(t) PROVE Kept
  BY <1>t, <1>4, <1>6, RideAssumption DEF BindDraft, BindRemote, TasksHoldOwnSession, SyncPC, Unsynced
<1>7. ASSUME NEW t \in Task, MarkFailed(t) PROVE Kept
  BY <1>t, <1>4, <1>7, RideAssumption DEF MarkFailed, TasksHoldOwnSession, SyncPC, Unsynced
<1>8. ASSUME NEW t \in Task, MarkSynced(t) PROVE Kept
  <2>1. on[t] \in Ride /\ Saved(on[t])
    BY <1>8 DEF IInv, MarkSynced, TasksHoldOwnSession, ProgressIsStored, SyncPC, Bound, Saved
  <2> QED BY <1>4, <1>8, <2>1, RideAssumption DEF MarkSynced
<1>9. ASSUME NEW t \in Task, NEW from, NEW next, HydrateRow(t, from, next) PROVE Kept
  <2>1. PICK r \in seen[t] : UpsertSummary(r)
    BY <1>9 DEF HydrateRow
  <2>2. r \in Remote /\ status[r] = "completed" /\ UNCHANGED <<status, madeFor>>
    BY <1>9, <1>t DEF HydrateRow, IInv, PhoneIsSound, TypeOK
  <2>3. CASE RowsOf(r) \cap Ride = {}
    <3>1. claimed' = claimed
      BY <1>t, <2>1, <2>2, <2>3, RideAssumption DEF UpsertSummary, RowsOf, claimed, Row, TypeOK, StoreTypeOK
    <3>2. kept' = kept
      BY <2>2 DEF kept, Saved
    <3> QED BY <3>1, <3>2, Stutter DEF Kept
  <2>4. ASSUME NEW x \in Ride, x \in RowsOf(r) PROVE Kept
    <3>1. madeFor[r] = x /\ \A y \in Ride : y \in RowsOf(r) => y = x
      BY <2>2, <2>4, RideAssumption DEF RowsOf, IInv, PhoneIsSound, RowsPointAtOwnSession
    <3>2. x \in Closed /\ Saved(x)
      BY <1>t, <2>2, <2>4, <3>1, RideAssumption DEF OnlyClosedIsSent, Saved
    <3>3. \A y \in Ride : state'[y] = IF y = x THEN "synced" ELSE state[y]
      BY <2>1, <2>4, <3>1 DEF UpsertSummary, Row
    <3> QED BY <2>2, <3>2, <3>3, WriteRow DEF Kept
  <2> QED BY <2>3, <2>4
<1>10. ASSUME NEW t \in Task, DraftCreated(t) PROVE Kept
  BY <1>10, Drafts DEF DraftCreated, rowVars, Kept
<1>11. ASSUME NEW x \in lateCreate, LateDraft(x) PROVE Kept
  BY <1>11, Drafts DEF LateDraft, rowVars, Kept
<1>12. ASSUME NEW t \in Task, SessionCompleted(t) PROVE Kept
  <2>1. rem[t] \in Remote /\ Whole(rem[t])
    BY <1>12 DEF SessionCompleted, IInv, TasksHoldOwnSession, ProgressIsStored, Bound
  <2> QED BY <1>12, <2>1, Completes DEF SessionCompleted, rowVars, Kept
<1>13. ASSUME NEW r \in lateComplete, LateCompletion(r) PROVE Kept
  <2>1. r \in Remote /\ Whole(r)
    BY <1>t DEF IInv, ServerIsSound, TypeOK
  <2> QED BY <1>13, <2>1, Completes DEF LateCompletion, rowVars, Kept
<1>14. ASSUME UNCHANGED <<state, status, madeFor>> PROVE Kept
  BY <1>14, SameStore DEF Kept
<1>15. ASSUME PassStarts PROVE Kept
  BY <1>14, <1>15 DEF PassStarts, PassBegin, PassTakesRide, PassTurnsToRefresh
<1>16. ASSUME NEW t \in Task, ReadRow(t) \/ BatchStored(t) \/ BatchRefused(t) \/ ReadSummary(t) \/ CompleteRefused(t)
       PROVE  Kept
  BY <1>14, <1>16 DEF ReadRow, BatchStored, StoreBatch, BatchRefused, ReadSummary, CompleteRefused
<1>17. ASSUME NEW t \in Task, LookAtCache(t) \/ HistoryListed(t) \/ ReplaceCache(t) \/ ReadHidden(t)
                              \/ JoinReconciliation(t) \/ ReadTombstones(t) \/ RequestLost(t)
       PROVE  Kept
  BY <1>14, <1>17 DEF LookAtCache, HistoryListed, ReplaceCache, ReadHidden, JoinReconciliation, ReadTombstones, RequestLost
<1>18. ASSUME (\E t \in Buttons, x \in Ride : ButtonPressed(t, x)) \/ (\E t \in Screens : ScreenOpens(t)) \/ Crash
       PROVE  Kept
  BY <1>14, <1>18 DEF ButtonPressed, ScreenOpens, Crash
<1>19. ASSUME NEW m \in lateUpload, LateBatch(m) PROVE Kept
  BY <1>14, <1>19 DEF LateBatch, StoreBatch
<1>20. ASSUME UNCHANGED vars PROVE Kept
  BY <1>14, <1>20
<1>21. Kept
  BY <1>1, <1>2, <1>3, <1>5, <1>6, <1>7, <1>8, <1>9, <1>10, <1>11, <1>12, <1>13, <1>15, <1>16, <1>17, <1>18, <1>19, <1>20
     DEF Next, UserStep, SyncStep, RefreshStep, MeetsReconciliation, LateStep
<1> QED BY <1>21 DEF Kept

(* The sync tasks implement the promise: no ride is called settled before   *)
(* the server keeps it, and none is given up or taken back to open.         *)
THEOREM Refinement == Spec => KeepsThePromise
<1>1. Init => Vault!Init
  <2> SUFFICES ASSUME Init PROVE claimed = [x \in Ride |-> "none"] /\ kept = {}
    BY DEF Vault!Init, claimed, kept
  <2> QED BY Claims DEF Init, StoreInit, claimed, kept, Saved, Row
<1> QED BY <1>1, StepKeepsThePromise, Inductive, PTL DEF Spec, KeepsThePromise, Vault!Spec
=============================================================================
