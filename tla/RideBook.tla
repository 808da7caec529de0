------------------------------- MODULE RideBook -------------------------------
(***************************************************************************)
(* Deleting a ride, composed with the sync tasks of RideSync.  The detail  *)
(* screen deletes the row it shows: a tombstone first, then the server,    *)
(* then the phone.  Tombstones the server has not confirmed are retried by *)
(* one reconciliation loop, which every history refresh kicks and awaits.  *)
(*                                                                         *)
(* Bound: one detail screen at a time (the router shows one).  It holds    *)
(* the row as it was read when the screen was opened.                      *)
(***************************************************************************)
EXTENDS RideSync

VARIABLES
  dpc,         \* where the detail screen is: closed, shown, or an await of deleteSession
  drow, drem,  \* the row it shows and the remote id that row had then
  rpc,         \* where the reconciliation loop is
  rtodo,       \* tombstones it has listed and not reached yet
  rat,         \* the tombstone it works on
  again,       \* _queuedReconciliationOwnerUserId is set
  joined,      \* tasks awaiting _pendingDeleteReconciliationLoop
  lateDelete,  \* DELETE requests nobody waits for any more
  asked        \* history: sessions whose deletion the rider confirmed

screenVars == <<dpc, drow, drem>>
loopVars   == <<rpc, rtodo, rat, again, joined>>
bookVars   == <<dpc, drow, drem, rpc, rtodo, rat, again, joined, lateDelete, asked>>
allVars    == <<vars, bookVars>>

BookTypeOK ==
  /\ TypeOK
  /\ dpc \in {"closed", "shown", "call", "clear", "postpone", "fail", "remove", "hideOnly"}
  /\ drow \in Row \cup {Nil}
  /\ drem \in Remote \cup {Nil}
  /\ rpc \in {"idle", "list", "next", "call", "clear", "postpone", "fail"}
  /\ rtodo \in SUBSET Remote
  /\ rat \in Remote \cup {Nil}
  /\ again \in BOOLEAN
  /\ joined \in SUBSET Task
  /\ lateDelete \in SUBSET Remote
  /\ asked \in SUBSET Remote

BookInit ==
  /\ Init
  /\ dpc = "closed" /\ drow = Nil /\ drem = Nil
  /\ rpc = "idle" /\ rtodo = {} /\ rat = Nil /\ again = FALSE /\ joined = {}
  /\ lateDelete = {} /\ asked = {}

SetTomb(r, s) == tomb' = [tomb EXCEPT ![r] = s]

-----------------------------------------------------------------------------
(* deleteSession, await by await.                                           *)

OpenDetail(x) ==
  /\ dpc = "closed"
  /\ Present(x)
  /\ dpc' = "shown" /\ drow' = x /\ drem' = remote[x]
  /\ UNCHANGED <<vars, loopVars, lateDelete, asked>>

CloseDetail ==
  /\ dpc = "shown"
  /\ dpc' = "closed" /\ drow' = Nil /\ drem' = Nil
  /\ UNCHANGED <<vars, loopVars, lateDelete, asked>>

(* The rider confirms.  The tombstone is written before the server is asked.*)
ConfirmDelete ==
  /\ dpc = "shown"
  /\ IF drem = Nil
       THEN dpc' = "remove" /\ UNCHANGED <<tomb, asked>>
       ELSE dpc' = "call" /\ SetTomb(drem, "due") /\ asked' = asked \cup {drem}
  /\ UNCHANGED <<rowVars, cache, serverVars, syncVars, drow, drem, loopVars, lateDelete>>

(* 204, or 404 when the session is already gone.                            *)
DeleteAnswered ==
  /\ dpc = "call"
  /\ DeleteSession(drem)
  /\ dpc' = "clear"
  /\ UNCHANGED <<rowVars, tomb, cache, syncVars, drow, drem, loopVars, lateDelete, asked>>

DeleteLost ==
  /\ dpc = "call"
  /\ faults < MaxFaults /\ faults' = faults + 1
  /\ lateDelete' = lateDelete \cup {drem}
  /\ dpc' = "postpone"
  /\ UNCHANGED <<storeVars, taskVars, lateCreate, lateUpload, lateComplete,
                 drow, drem, loopVars, asked>>

(* Any other answer: the session of the rider has expired (401), or a 5xx.  *)
DeleteRefused ==
  /\ dpc = "call"
  /\ faults < MaxFaults /\ faults' = faults + 1
  /\ dpc' = "fail"
  /\ UNCHANGED <<storeVars, taskVars, lateCreate, lateUpload, lateComplete,
                 drow, drem, loopVars, lateDelete, asked>>

ScreenClears ==
  /\ dpc = "clear"
  /\ SetTomb(drem, "none")
  /\ dpc' = "remove"
  /\ UNCHANGED <<rowVars, cache, serverVars, syncVars, drow, drem, loopVars, lateDelete, asked>>

ScreenPostpones ==
  /\ dpc = "postpone"
  /\ SetTomb(drem, "waiting")
  /\ dpc' = "hideOnly"
  /\ UNCHANGED <<rowVars, cache, serverVars, syncVars, drow, drem, loopVars, lateDelete, asked>>

(* The failure is thrown at the screen and the row stays.                   *)
ScreenFails ==
  /\ dpc = "fail"
  /\ SetTomb(drem, "failed")
  /\ dpc' = "closed" /\ drow' = Nil /\ drem' = Nil
  /\ UNCHANGED <<rowVars, cache, serverVars, syncVars, loopVars, lateDelete, asked>>

(* Mutant: the tombstone of a queued delete goes with the row.              *)
RemoveRowClears ==
  /\ dpc \in {"remove", "hideOnly"}
  /\ state' = [state EXCEPT ![drow] = "gone"]
  /\ remote' = [remote EXCEPT ![drow] = Nil]
  /\ cache' = cache \ {drem}
  /\ IF drem # Nil THEN SetTomb(drem, "none") ELSE UNCHANGED tomb
  /\ dpc' = "closed" /\ drow' = Nil /\ drem' = Nil
  /\ UNCHANGED <<serverVars, syncVars, loopVars, lateDelete, asked>>

(* deleteSessionCascade, one transaction; the tombstone of a queued delete  *)
(* is the one thing it keeps.                                               *)
RemoveRow ==
  /\ dpc \in {"remove", "hideOnly"}
  /\ state' = [state EXCEPT ![drow] = IF Present(drow) THEN "gone" ELSE @]
  /\ remote' = [remote EXCEPT ![drow] = Nil]
  /\ cache' = cache \ {drem}
  /\ IF dpc = "remove" /\ drem # Nil THEN SetTomb(drem, "none") ELSE UNCHANGED tomb
  /\ dpc' = "closed" /\ drow' = Nil /\ drem' = Nil
  /\ UNCHANGED <<serverVars, syncVars, loopVars, lateDelete, asked>>

-----------------------------------------------------------------------------
(* The reconciliation loop.                                                 *)

(* _ensurePendingDeleteReconciliation: start the loop, or ask for one more  *)
(* round of the one that is running.                                        *)
Kick(awaiting) ==
  /\ IF rpc = "idle" THEN rpc' = "list" /\ UNCHANGED again
                     ELSE again' = TRUE /\ UNCHANGED rpc
  /\ joined' = joined \cup awaiting
  /\ UNCHANGED <<rtodo, rat, screenVars, lateDelete, asked>>

ListDue ==
  /\ rpc = "list"
  /\ rtodo' = {r \in Remote : tomb[r] = "due"}
  /\ rpc' = "next"
  /\ UNCHANGED <<vars, rat, again, joined, screenVars, lateDelete, asked>>

TakeDue ==
  /\ rpc = "next"
  /\ \E r \in rtodo : rat' = r /\ rtodo' = rtodo \ {r}
  /\ rpc' = "call"
  /\ UNCHANGED <<vars, again, joined, screenVars, lateDelete, asked>>

(* Mutant: the future of a finished loop is never completed.                *)
RoundEndsUnheard ==
  /\ rpc = "next" /\ rtodo = {}
  /\ rpc' = IF again THEN "list" ELSE "idle"
  /\ again' = FALSE
  /\ rat' = Nil
  /\ UNCHANGED <<vars, rtodo, joined, screenVars, lateDelete, asked>>

RoundEnds ==
  /\ rpc = "next" /\ rtodo = {}
  /\ rpc' = IF again THEN "list" ELSE "idle"
  /\ joined' = IF again THEN joined ELSE {}
  /\ again' = FALSE
  /\ rat' = Nil
  /\ UNCHANGED <<vars, rtodo, screenVars, lateDelete, asked>>

RetryAnswered ==
  /\ rpc = "call"
  /\ DeleteSession(rat)
  /\ rpc' = "clear"
  /\ UNCHANGED <<rowVars, tomb, cache, syncVars, rtodo, rat, again, joined, screenVars, lateDelete, asked>>

RetryLost ==
  /\ rpc = "call"
  /\ faults < MaxFaults /\ faults' = faults + 1
  /\ lateDelete' = lateDelete \cup {rat}
  /\ rpc' = "postpone"
  /\ UNCHANGED <<storeVars, taskVars, lateCreate, lateUpload, lateComplete,
                 rtodo, rat, again, joined, screenVars, asked>>

RetryRefused ==
  /\ rpc = "call"
  /\ faults < MaxFaults /\ faults' = faults + 1
  /\ rpc' = "fail"
  /\ UNCHANGED <<storeVars, taskVars, lateCreate, lateUpload, lateComplete,
                 rtodo, rat, again, joined, screenVars, lateDelete, asked>>

(* Mutant: a tombstone is dropped after its first lost retry.               *)
RetryNotedDrops ==
  /\ rpc \in {"clear", "postpone", "fail"}
  /\ SetTomb(rat, "none")
  /\ rpc' = "next"
  /\ UNCHANGED <<rowVars, cache, serverVars, syncVars, rtodo, rat, again, joined, screenVars, lateDelete, asked>>

(* The tombstone written after the answer: an upsert, so it comes back if   *)
(* the screen cleared it meanwhile.                                         *)
RetryNoted ==
  /\ \/ rpc = "clear" /\ SetTomb(rat, "none")
     \/ rpc = "postpone" /\ SetTomb(rat, "waiting")
     \/ rpc = "fail" /\ SetTomb(rat, "failed")
  /\ rpc' = "next"
  /\ UNCHANGED <<rowVars, cache, serverVars, syncVars, rtodo, rat, again, joined, screenVars, lateDelete, asked>>

(* next_attempt_at has passed.                                              *)
DueAgain(r) ==
  /\ tomb[r] = "waiting"
  /\ SetTomb(r, "due")
  /\ UNCHANGED <<rowVars, cache, serverVars, syncVars, bookVars>>

LateDeletion(r) ==
  /\ r \in lateDelete
  /\ DeleteSession(r)
  /\ lateDelete' = lateDelete \ {r}
  /\ UNCHANGED <<rowVars, tomb, cache, syncVars, screenVars, loopVars, asked>>

(* A killed process forgets the screen and the loop.                        *)
BookCrash ==
  /\ Abandon(Task)
  /\ lateDelete' = lateDelete \cup {r \in {drem} : dpc = "call"} \cup {r \in {rat} : rpc = "call"}
  /\ pc' = [t \in Task |-> "idle"]
  /\ on' = [t \in Task |-> Nil]
  /\ rem' = [t \in Task |-> Nil]
  /\ sent' = [t \in Task |-> 0]
  /\ todo' = {}
  /\ hide' = [t \in Task |-> {}]
  /\ seen' = [t \in Task |-> {}]
  /\ dpc' = "closed" /\ drow' = Nil /\ drem' = Nil
  /\ rpc' = "idle" /\ rtodo' = {} /\ rat' = Nil /\ again' = FALSE /\ joined' = {}
  /\ UNCHANGED <<storeVars, asked>>

-----------------------------------------------------------------------------
DeleteStep ==
  \/ DeleteAnswered \/ ScreenClears \/ ScreenPostpones \/ ScreenFails \/ RemoveRow

LoopStep ==
  \/ ListDue \/ TakeDue \/ RoundEnds \/ RetryAnswered \/ RetryNoted

BookFault == DeleteLost \/ DeleteRefused \/ RetryLost \/ RetryRefused

TaskStep(t) ==
  \/ (SyncStep(t) \/ RefreshStep(t)) /\ UNCHANGED bookVars
  \/ ReadHidden(t) /\ Kick({})
  \/ JoinReconciliation(t) /\ Kick({t})
  \/ ReadTombstones(t) /\ t \notin joined /\ UNCHANGED bookVars

BookNext ==
  \/ (UserStep \/ PassStarts \/ LateStep) /\ UNCHANGED bookVars
  \/ \E t \in Task : TaskStep(t) \/ (RequestLost(t) /\ UNCHANGED bookVars)
  \/ (\E x \in Row : OpenDetail(x)) \/ CloseDetail \/ ConfirmDelete
  \/ DeleteStep \/ LoopStep \/ BookFault
  \/ \E r \in Remote : DueAgain(r) \/ LateDeletion(r)
  \/ BookCrash

(* As in RideSync; time passes, so every wait of a tombstone ends.          *)
BookFairness ==
  /\ WF_allVars(PassStarts /\ UNCHANGED bookVars)
  /\ \A t \in Task : WF_allVars(TaskStep(t))
  /\ WF_allVars(DeleteStep)
  /\ WF_allVars(LoopStep)
  /\ \A r \in Remote : WF_allVars(DueAgain(r))

BookSpec     == BookInit /\ [][BookNext]_allVars
FairBookSpec == BookSpec /\ BookFairness
-----------------------------------------------------------------------------
(* Properties. *)

(* A delete the rider confirmed is on the server, or the phone still has a  *)
(* tombstone of it: no crash, lost answer or concurrent retry between the   *)
(* awaits of deleteSession and of the loop makes the phone forget one.      *)
DeleteIsNeverForgotten ==
  \A r \in asked : status[r] = "deleted" \/ tomb[r] # "none"

(* What the phone calls synced is on the server, or the rider deleted it.   *)
SyncedIsSavedOrDeleted ==
  \A x \in Row : state[x] = "synced" =>
    remote[x] # Nil /\ (status[remote[x]] = "completed" \/ remote[x] \in asked)

(* Every confirmed delete reaches the server in the end, unless an answer   *)
(* other than a network failure made the phone give up on it.               *)
DeletesReachTheServer ==
  <>[](Recording = {}) => \A r \in Remote :
    r \in asked ~> status[r] = "deleted" \/ tomb[r] = "failed"

(* A refresh that awaits the reconciliation is never stuck behind it.       *)
RefreshesEnd == \A t \in Task : pc[t] \in RefreshPC ~> pc[t] \notin RefreshPC

-----------------------------------------------------------------------------
(* The inductive invariant behind DeleteIsNeverForgotten (RideBookProofs):  *)
(* whoever is about to clear a tombstone has the server's word for it.      *)

ScreenHoldsItsRide ==
  /\ dpc # "closed" => drow \in Row
  /\ dpc \in {"call", "clear", "postpone", "fail"} => drem \in Remote
  /\ dpc = "clear" => status[drem] = "deleted"
  /\ dpc = "remove" /\ drem # Nil => status[drem] = "deleted"

LoopHoldsATombstone ==
  /\ rpc \in {"call", "clear", "postpone", "fail"} => rat \in Remote
  /\ rpc = "clear" => status[rat] = "deleted"

BookInv ==
  /\ BookTypeOK
  /\ TasksHoldSomething
  /\ ScreenHoldsItsRide
  /\ LoopHoldsATombstone
  /\ DeleteIsNeverForgotten

-----------------------------------------------------------------------------
(* What the texts on the screen promise and the code does not keep (README, *)
(* section 4): TLC finds both violated, so no passing run has them.         *)

(* "This removes the session from your history": once the server confirmed  *)
(* the delete, no later refresh puts the session back into the history.     *)
DeletedStaysAway ==
  [][\A r \in Remote :
       status[r] = "deleted" /\ RowsOf(r) = {} => RowsOf(r)' = {}]_allVars

(* "Server deletion will retry when the backend is reachable": once the row *)
(* is gone and the retry announced, a tombstone that waits for it is not    *)
(* given up, as an earlier attempt that the server refuses would.           *)
QueuedDeleteIsRetried ==
  [][\A r \in asked :
       tomb[r] = "waiting" /\ RowsOf(r) = {} /\ status[r] # "deleted" =>
         tomb'[r] # "failed"]_allVars
=============================================================================
