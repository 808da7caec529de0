----------------------------- MODULE SessionServer -----------------------------
(***************************************************************************)
(* The backend's session service over PostgreSQL at READ COMMITTED: the    *)
(* requests of one user and one operator command (reanalyze_sessions or    *)
(* import_slopes_sessions) as interleaved transactions.                    *)
(*                                                                         *)
(* A step is one SQL statement; the unit of work of SQLAlchemy is flushed  *)
(* with the commit, so the writes of a transaction other than its DELETEs  *)
(* are one step.  A DELETE waits for a row that another open transaction   *)
(* has deleted, and then skips it.                                         *)
(*                                                                         *)
(* Points are offsets.  An analysis is known by the points and override    *)
(* spans it read; it gives one action per point, numbered from one, so     *)
(* that two analyses differ in their number of actions.                    *)
(***************************************************************************)
EXTENDS Integers, FiniteSets

CONSTANTS
  Session,    \* ride sessions, numbers in the order of created_at
  Request,    \* concurrent requests, each makes one call
  operator,   \* the process of an operator command
  Offset,     \* t_offset_ms values
  OldPoints,  \* the offsets of a session stored before
  FilePoints, \* the offsets in a Slopes archive
  Files,      \* the sessions the archives of the directory describe
  MaxPoints,  \* max_points_per_session
  BatchSize,  \* --batch-size of reanalyze_sessions
  Nil

ASSUME SessionAssumption ==
  /\ Session \subseteq Nat
  /\ Files \subseteq Session
  /\ OldPoints \subseteq Offset /\ FilePoints \subseteq Offset /\ FilePoints # {}
  /\ IsFiniteSet(Offset)
  /\ operator \notin Request
  /\ Nil \notin Session
  /\ Nil \notin [version : {"old", "current"}, points : SUBSET Offset, spans : SUBSET Request]
  /\ MaxPoints \in Nat /\ BatchSize \in Nat \ {0}

Process == Request \cup {operator}
Span == Request  \* a request that adds an override adds one of its own

VARIABLES
  ride,      \* ride_sessions: [status, by], by the analysis the summary is of
  points,    \* session_points: the offsets stored for a session
  actions,   \* ride_session_actions: [seq, of], an analysis numbers its own
  overrides, \* ride_session_overrides: [span, by, n]
  pc,        \* the next statement of a process
  job,       \* what a process works on and has read and deleted so far
  command,   \* the operator command and what it has listed, attempted, imported
  accepted,  \* history: points that the answers of uploads say were stored
  wanted,    \* history: override spans the rider added and did not remove
  outdated,  \* history: processes that read what another has changed since
  overlapped,\* history: sessions that an outdated process wrote
  unsettled  \* history: sessions whose overrides changed after the analysis
vars == <<ride, points, actions, overrides, pc, job, command, accepted, wanted,
          outdated, overlapped, unsettled>>
tables == <<ride, points, actions, overrides>>
history == <<accepted, wanted, outdated, overlapped, unsettled>>

-------------------------------------------------------------------------------
(* Rows. *)

Exists(s) == ride[s].status \in {"draft", "completed"}
NeedsReanalysis(s) ==
  /\ ride[s].status = "completed"
  /\ ride[s].by = Nil \/ ride[s].by.version # "current"

Analysis(version, pts, spans) == [version |-> version, points |-> pts, spans |-> spans]
ActionsOf(a) == {[seq |-> i, of |-> a] : i \in 1..Cardinality(a.points)}
SpansOf(rows) == {r.span : r \in rows}

(* _to_override_model: every row read is written again under a new id. *)
Rewritten(p, rows) ==
  {r \in [span : Span, by : {p}, n : 1..Cardinality(rows)] :
     r.n <= Cardinality({q \in rows : q.span = r.span})}

NoJob == [op |-> "none", s |-> Nil, batch |-> {}, known |-> {}, row |-> Nil,
          points |-> {}, rows |-> {}, seen |-> {}, acts |-> {}, ovs |-> {}]

(* What the tables may hold: nothing, a draft with or without points, or a
   session that was completed and analyzed under an older version. *)
NoRide == [status |-> "none", by |-> Nil]
DraftRide == [status |-> "draft", by |-> Nil]
OldRide == [status |-> "completed", by |-> Analysis("old", OldPoints, {})]

Init ==
  /\ points \in [Session -> {{}, OldPoints}]
  /\ ride \in [Session -> {NoRide, DraftRide, OldRide}]
  /\ \A s \in Session :
       /\ ride[s] = NoRide => points[s] = {}
       /\ ride[s] = OldRide => points[s] = OldPoints
       /\ ride[s] = DraftRide => s \notin Files
  /\ actions = [s \in Session |-> IF ride[s].by = Nil THEN {} ELSE ActionsOf(ride[s].by)]
  /\ accepted = [s \in Session |-> Cardinality(points[s])]
  /\ overrides = [s \in Session |-> {}]
  /\ pc = [p \in Process |-> "idle"]
  /\ job = [p \in Process |-> NoJob]
  /\ command = [kind |-> "none", todo |-> {}, attempted |-> {}, batch |-> {}, imported |-> {}]
  /\ wanted = [s \in Session |-> {}]
  /\ outdated = {} /\ overlapped = {} /\ unsettled = {}

-------------------------------------------------------------------------------
(* Transactions. *)

Goto(p, l) == pc' = [pc EXCEPT ![p] = l]

(* A process that has read what it goes by: the status that lets it write
   points, the points and overrides of its analysis, the id it removes. *)
Midway(p) == pc[p] \notin {"idle", "points", "reselect", "insertOverride", "next",
                           "answered", "refused", "failed", "ended"}

(* p commits a change of session s. *)
Commits(p, s) ==
  /\ outdated' = (outdated \ {p}) \cup {q \in Process \ {p} : Midway(q) /\ job[q].s = s}
  /\ overlapped' = IF p \in outdated THEN overlapped \cup {s} ELSE overlapped

(* The end of the service call, with the rollback of what it deleted: a
   request is answered, a command goes on with the next session.  A command
   ends on an exception that it does not catch. *)
Ends(p, outcome) ==
  /\ Goto(p, IF p \in Request THEN outcome ELSE "next")
  /\ job' = [job EXCEPT ![p] = [NoJob EXCEPT !.s = job[p].s]]
Aborts(p) ==
  /\ Goto(p, "failed")
  /\ job' = [job EXCEPT ![p] = NoJob]
  /\ outdated' = outdated \ {p}
  /\ UNCHANGED <<tables, command, accepted, wanted, overlapped, unsettled>>

(* _get_owned_session and the check of the status. *)
Selects(p, s, statuses, j, next) ==
  /\ p \in Request
  /\ pc[p] = "idle"
  /\ IF ride[s].status \in statuses
     THEN /\ Goto(p, next)
          /\ job' = [job EXCEPT ![p] = [j EXCEPT !.s = s]]
     ELSE /\ Goto(p, "refused")
          /\ UNCHANGED job
  /\ UNCHANGED <<tables, command, history>>

-------------------------------------------------------------------------------
(* Requests. *)

(* POST /sessions. *)
CreateSession(p, s) ==
  /\ p \in Request
  /\ pc[p] = "idle"
  /\ ride[s].status = "none" /\ s \notin Files
  /\ ride' = [ride EXCEPT ![s].status = "draft"]
  /\ Goto(p, "answered")
  /\ UNCHANGED <<points, actions, overrides, job, command, history>>

(* POST /sessions/{id}/points:batch: the status, the count, the offsets that
   are known, the insert, and once more after an IntegrityError. *)
Upload(p, s, batch) ==
  Selects(p, s, {"draft"}, [NoJob EXCEPT !.op = "upload", !.batch = batch], "count")

CountPoints(p) ==
  /\ pc[p] = "count"
  /\ IF Cardinality(points[job[p].s]) + Cardinality(job[p].batch) > MaxPoints
     THEN Ends(p, "refused") /\ outdated' = outdated \ {p}
     ELSE Goto(p, "known") /\ UNCHANGED <<job, outdated>>
  /\ UNCHANGED <<tables, command, accepted, wanted, overlapped, unsettled>>

ReadKnown(p) ==
  /\ pc[p] \in {"known", "knownAgain"}
  /\ job' = [job EXCEPT ![p].known = job[p].batch \cap points[job[p].s]]
  /\ Goto(p, IF pc[p] = "known" THEN "insert" ELSE "insertAgain")
  /\ UNCHANGED <<tables, command, history>>

(* Mutant: after the IntegrityError the offsets are not read again and all
   points are reported as stored. *)
InsertTrusting(p) ==
  LET s == job[p].s
      new == job[p].batch \ job[p].known
  IN /\ pc[p] = "insert"
     /\ points' = [points EXCEPT ![s] = @ \cup new]
     /\ accepted' = [accepted EXCEPT ![s] = @ + Cardinality(new)]
     /\ Commits(p, s)
     /\ Ends(p, "answered")
     /\ UNCHANGED <<ride, actions, overrides, command, wanted, unsettled>>

InsertPoints(p) ==
  LET s == job[p].s
      new == job[p].batch \ job[p].known
  IN /\ pc[p] \in {"insert", "insertAgain"}
     /\ \/ /\ new = {}
           /\ Ends(p, "answered")
           /\ outdated' = outdated \ {p}
           /\ UNCHANGED <<tables, command, accepted, wanted, overlapped, unsettled>>
        \/ /\ new # {} /\ Exists(s) /\ new \cap points[s] = {}
           /\ points' = [points EXCEPT ![s] = @ \cup new]
           /\ accepted' = [accepted EXCEPT ![s] = @ + Cardinality(new)]
           /\ Commits(p, s)
           /\ Ends(p, "answered")
           /\ UNCHANGED <<ride, actions, overrides, command, wanted, unsettled>>
        \/ /\ new # {} /\ (~ Exists(s) \/ new \cap points[s] # {})
           /\ IF pc[p] = "insert"
              THEN Goto(p, "knownAgain") /\ UNCHANGED <<job, outdated>>
              ELSE Ends(p, "refused") /\ outdated' = outdated \ {p}
           /\ UNCHANGED <<tables, command, accepted, wanted, overlapped, unsettled>>

(* POST /sessions/{id}/complete and /analyze: then the analysis. *)
Complete(p, s) ==
  Selects(p, s, {"draft"}, [NoJob EXCEPT !.op = "complete"], "points")
Reanalyze(p, s, include_overrides) ==
  Selects(p, s, {"completed"},
          [NoJob EXCEPT !.op = IF include_overrides THEN "reanalyze" ELSE "reset"], "points")

(* POST and DELETE /sessions/{id}/overrides: one transaction for the override,
   then a reanalysis in another one.  Mutant: a draft takes overrides. *)
ApplyOverrideToDraft(p, s) ==
  Selects(p, s, {"draft", "completed"}, [NoJob EXCEPT !.op = "apply"], "insertOverride")
ApplyOverride(p, s) ==
  Selects(p, s, {"completed"}, [NoJob EXCEPT !.op = "apply"], "insertOverride")

InsertOverride(p) ==
  LET s == job[p].s
  IN /\ pc[p] = "insertOverride"
     /\ Exists(s)
     /\ overrides' = [overrides EXCEPT ![s] = @ \cup {[span |-> p, by |-> p, n |-> 0]}]
     /\ wanted' = [wanted EXCEPT ![s] = @ \cup {p}]
     /\ unsettled' = unsettled \cup {s}
     /\ Commits(p, s)
     /\ Goto(p, "reselect")
     /\ UNCHANGED <<ride, points, actions, job, command, accepted>>

OverrideOrphaned(p) ==
  /\ pc[p] = "insertOverride"
  /\ ~ Exists(job[p].s)
  /\ Aborts(p)

(* The id of a row that a detail showed; get_by_id finds it. *)
RemoveOverride(p, s, row) ==
  /\ row \in overrides[s]
  /\ Selects(p, s, {"draft", "completed"}, [NoJob EXCEPT !.op = "remove", !.row = row],
             "deleteOverride")

(* A DELETE by id waits for a transaction that has deleted the row, and does
   nothing when the row is gone. *)
DeleteOverride(p) ==
  LET s == job[p].s
      row == job[p].row
  IN /\ pc[p] = "deleteOverride"
     /\ \A q \in Process \ {p} : job[q].s = s => row \notin job[q].ovs
     /\ overrides' = [overrides EXCEPT ![s] = @ \ {row}]
     /\ wanted' = [wanted EXCEPT ![s] = @ \ {row.span}]
     /\ unsettled' = unsettled \cup {s}
     /\ Commits(p, s)
     /\ Goto(p, "reselect")
     /\ UNCHANGED <<ride, points, actions, job, command, accepted>>

(* reanalyze_session selects the session again. *)
Reselect(p) ==
  /\ pc[p] = "reselect"
  /\ IF Exists(job[p].s) THEN Goto(p, "points") /\ UNCHANGED job ELSE Ends(p, "refused")
  /\ UNCHANGED <<tables, command, history>>

(* DELETE /sessions/{id}: the actions and overrides are loaded and deleted one
   by one, then the session with what is left of its children. *)
Delete(p, s) ==
  /\ Selects(p, s, {"draft", "completed"},
             [NoJob EXCEPT !.op = "delete", !.seen = actions[s] \cup overrides[s]],
             "deleteRows")

DeleteRows(p) ==
  LET s == job[p].s
  IN /\ pc[p] = "deleteRows"
     /\ \A q \in Process \ {p} :
          job[q].s = s => job[p].seen \cap (job[q].acts \cup job[q].ovs) = {}
     /\ ride' = [ride EXCEPT ![s] = [status |-> "deleted", by |-> Nil]]
     /\ points' = [points EXCEPT ![s] = {}]
     /\ actions' = [actions EXCEPT ![s] = {}]
     /\ overrides' = [overrides EXCEPT ![s] = {}]
     /\ accepted' = [accepted EXCEPT ![s] = 0]
     /\ wanted' = [wanted EXCEPT ![s] = {}]
     /\ Commits(p, s)
     /\ Ends(p, "answered")
     /\ UNCHANGED <<command, unsettled>>

-------------------------------------------------------------------------------
(* _run_analysis and the commit of its caller. *)

ReadPoints(p) ==
  /\ pc[p] = "points"
  /\ job' = [job EXCEPT ![p].points = points[job[p].s]]
  /\ Goto(p, IF job[p].op = "reset" THEN "analyze" ELSE "overrides")
  /\ outdated' = outdated \ {p}
  /\ UNCHANGED <<tables, command, accepted, wanted, overlapped, unsettled>>

ReadOverrides(p) ==
  /\ pc[p] = "overrides"
  /\ job' = [job EXCEPT ![p].rows = overrides[job[p].s]]
  /\ Goto(p, "analyze")
  /\ UNCHANGED <<tables, command, history>>

(* The analyzer raises, as it may on odd data.  reanalyze_sessions goes on after a ServiceError and
   ends on anything else; import_slopes_sessions goes on. *)
AnalyzerRaises(p, service) ==
  /\ pc[p] = "analyze"
  /\ IF p \in Request \/ (command.kind = "reanalyze" /\ ~ service)
     THEN Aborts(p)
     ELSE /\ Ends(p, "failed")
          /\ outdated' = outdated \ {p}
          /\ UNCHANGED <<tables, command, accepted, wanted, overlapped, unsettled>>

Locked(p, rows) ==
  \E q \in Process \ {p} : job[q].s = job[p].s /\ rows \cap (job[q].acts \cup job[q].ovs) # {}

(* DELETE FROM ride_session_actions: at once, or after a wait for the rows it
   saw when it began. *)
DeleteActions(p) ==
  LET stored == actions[job[p].s]
  IN /\ pc[p] \in {"analyze", "clear"}
     /\ IF Locked(p, stored)
        THEN /\ job' = [job EXCEPT ![p].seen = stored]
             /\ Goto(p, IF pc[p] = "clear" THEN "clearWaits" ELSE "actionsWait")
        ELSE /\ job' = [job EXCEPT ![p].acts = stored]
             /\ Goto(p, IF pc[p] = "clear" THEN "repair" ELSE "deleteOverrides")
     /\ UNCHANGED <<tables, command, history>>

ActionsWoken(p) ==
  /\ pc[p] \in {"actionsWait", "clearWaits"}
  /\ ~ Locked(p, job[p].seen)
  /\ job' = [job EXCEPT ![p].acts = job[p].seen \cap actions[job[p].s]]
  /\ Goto(p, IF pc[p] = "clearWaits" THEN "repair" ELSE "deleteOverrides")
  /\ UNCHANGED <<tables, command, history>>

(* DELETE FROM ride_session_overrides. *)
DeleteOverrides(p) ==
  LET stored == overrides[job[p].s]
  IN /\ pc[p] = "deleteOverrides"
     /\ IF Locked(p, stored)
        THEN job' = [job EXCEPT ![p].seen = stored] /\ Goto(p, "overridesWait")
        ELSE job' = [job EXCEPT ![p].ovs = stored] /\ Goto(p, "store")
     /\ UNCHANGED <<tables, command, history>>

OverridesWoken(p) ==
  /\ pc[p] = "overridesWait"
  /\ ~ Locked(p, job[p].seen)
  /\ job' = [job EXCEPT ![p].ovs = job[p].seen \cap overrides[job[p].s]]
  /\ Goto(p, "store")
  /\ UNCHANGED <<tables, command, history>>

NewAnalysis(p) == Analysis("current", job[p].points, SpansOf(job[p].rows))

(* The unique key (session_id, action_type, sequence_index). *)
Conflicts(p) ==
  \E a \in actions[job[p].s] \ job[p].acts, b \in ActionsOf(NewAnalysis(p)) : a.seq = b.seq

(* The flush and the commit: UPDATE ride_sessions, the new actions, the
   overrides as they were read. *)
StoreAnalysis(p) ==
  LET s == job[p].s
  IN /\ pc[p] = "store"
     /\ Exists(s) /\ ~ Conflicts(p)
     /\ ride' = [ride EXCEPT ![s].by = NewAnalysis(p),
                             ![s].status = IF job[p].op = "complete" THEN "completed" ELSE @]
     /\ actions' = [actions EXCEPT ![s] = (@ \ job[p].acts) \cup ActionsOf(NewAnalysis(p))]
     /\ overrides' = [overrides EXCEPT ![s] = (@ \ job[p].ovs) \cup Rewritten(p, job[p].rows)]
     /\ wanted' = [wanted EXCEPT ![s] = IF job[p].op = "reset" THEN {} ELSE @]
     /\ unsettled' = unsettled \ {s}
     /\ Commits(p, s)
     /\ Ends(p, "answered")
     /\ UNCHANGED <<points, command, accepted>>

(* StaleDataError or IntegrityError: a request answers 500, reanalyze_sessions
   ends, the import goes on. *)
StoreFails(p) ==
  /\ pc[p] = "store"
  /\ ~ Exists(job[p].s) \/ Conflicts(p)
  /\ IF p \in Request \/ command.kind = "reanalyze"
     THEN Aborts(p)
     ELSE /\ Ends(p, "failed")
          /\ outdated' = outdated \ {p}
          /\ UNCHANGED <<tables, command, accepted, wanted, overlapped, unsettled>>

(* A session that got its actions after a deletion had loaded none: the cascade
   waits for the transaction that deletes them and that transaction for the
   session row; PostgreSQL ends either, here the deletion. *)
DeadlockVictim(p) ==
  LET s == job[p].s
  IN /\ pc[p] = "deleteRows"
     /\ \E q \in Process \ {p} :
          /\ pc[q] = "store" /\ job[q].s = s
          /\ (job[q].acts \cup job[q].ovs) \ job[p].seen # {}
     /\ Aborts(p)

(* The process of a request or of the command dies: its transaction is rolled
   back. *)
Dies(p) ==
  /\ pc[p] \notin {"idle", "answered", "refused", "failed", "ended"}
  /\ Aborts(p)

-------------------------------------------------------------------------------
(* The operator's commands. *)

(* Mutant: the newest sessions are listed first. *)
LastOf(S, n) == {s \in S : Cardinality({r \in S : r >= s}) <= n}

(* ORDER BY created_at LIMIT n. *)
FirstOf(S, n) == {s \in S : Cardinality({r \in S : r <= s}) <= n}
IsFirst(s, S) == s \in S /\ \A r \in S : s <= r

StartCommand(kind) ==
  /\ pc[operator] = "idle"
  /\ command' = [kind |-> kind, attempted |-> {}, imported |-> {},
                 todo |-> IF kind = "reanalyze" THEN {s \in Session : NeedsReanalysis(s)} ELSE {},
                 batch |-> IF kind = "reanalyze" THEN {} ELSE Files]
  /\ Goto(operator, "next")
  /\ UNCHANGED <<tables, job, history>>

Running(kinds) == pc[operator] = "next" /\ command.kind \in kinds

(* reanalyze_sessions: the loop ends when everything it lists was attempted. *)
ListBatch ==
  /\ Running({"reanalyze"})
  /\ command.batch = {}
  /\ LET listed == FirstOf({s \in Session : NeedsReanalysis(s)}, BatchSize)
     IN IF listed \subseteq command.attempted
        THEN Goto(operator, "ended") /\ UNCHANGED command
        ELSE /\ command' = [command EXCEPT !.batch = listed \ command.attempted]
             /\ UNCHANGED pc
  /\ UNCHANGED <<tables, job, history>>

TakeSession ==
  /\ Running({"reanalyze"})
  /\ \E s \in command.batch :
        /\ IsFirst(s, command.batch)
        /\ command' = [command EXCEPT !.batch = @ \ {s}, !.attempted = @ \cup {s}]
        /\ job' = [job EXCEPT ![operator] = [NoJob EXCEPT !.op = "reanalyze", !.s = s]]
  /\ Goto(operator, "points")
  /\ UNCHANGED <<tables, history>>

(* import_directory: a file whose session is not stored becomes a completed
   session with its points; a stored one is repaired or skipped.  The import of
   a ride that was deleted makes a row that is not one of Session. *)
ImportFile ==
  /\ Running({"import", "repair"})
  /\ \E s \in command.batch :
     /\ IsFirst(s, command.batch)
     /\ \/ /\ ride[s].status = "none"
           /\ ride' = [ride EXCEPT ![s] = [status |-> "completed", by |-> Nil]]
           /\ points' = [points EXCEPT ![s] = FilePoints]
           /\ accepted' = [accepted EXCEPT ![s] = Cardinality(FilePoints)]
           /\ command' = [command EXCEPT !.batch = @ \ {s}, !.imported = @ \cup {s}]
           /\ UNCHANGED <<actions, overrides, pc, job, wanted, outdated, overlapped, unsettled>>
        \/ /\ ride[s].status = "completed" /\ command.kind = "repair"
           /\ job' = [job EXCEPT ![operator] = [NoJob EXCEPT !.op = "repair", !.s = s]]
           /\ command' = [command EXCEPT !.batch = @ \ {s}]
           /\ Goto(operator, "clear")
           /\ UNCHANGED <<tables, history>>
        \/ /\ \/ ride[s].status = "deleted"
              \/ ride[s].status = "completed" /\ command.kind = "import"
           /\ command' = [command EXCEPT !.batch = @ \ {s}]
           /\ UNCHANGED <<tables, pc, job, history>>

(* Mutant: the repair leaves the analysis of the old points in place. *)
RepairKeepsAnalysis(p) ==
  LET s == job[p].s
  IN /\ pc[p] = "repair"
     /\ Exists(s)
     /\ points' = [points EXCEPT ![s] = FilePoints]
     /\ accepted' = [accepted EXCEPT ![s] = Cardinality(FilePoints)]
     /\ command' = [command EXCEPT !.imported = @ \cup {s}]
     /\ Commits(p, s)
     /\ Ends(p, "answered")
     /\ UNCHANGED <<ride, actions, overrides, wanted, unsettled>>

(* Mutant: the repair drops the overrides as well. *)
RepairDropsOverrides(p) ==
  LET s == job[p].s
  IN /\ pc[p] = "repair"
     /\ Exists(s)
     /\ ride' = [ride EXCEPT ![s] = [status |-> "completed", by |-> Nil]]
     /\ points' = [points EXCEPT ![s] = FilePoints]
     /\ actions' = [actions EXCEPT ![s] = @ \ job[p].acts]
     /\ overrides' = [overrides EXCEPT ![s] = {}]
     /\ accepted' = [accepted EXCEPT ![s] = Cardinality(FilePoints)]
     /\ command' = [command EXCEPT !.imported = @ \cup {s}]
     /\ Commits(p, s)
     /\ Ends(p, "answered")
     /\ UNCHANGED <<wanted, unsettled>>

(* _repair_existing_session after clear_analysis has deleted the actions: the
   points are replaced, the overrides stay, the session waits for an analysis. *)
Repair(p) ==
  LET s == job[p].s
  IN /\ pc[p] = "repair"
     /\ Exists(s)
     /\ ride' = [ride EXCEPT ![s] = [status |-> "completed", by |-> Nil]]
     /\ points' = [points EXCEPT ![s] = FilePoints]
     /\ actions' = [actions EXCEPT ![s] = @ \ job[p].acts]
     /\ accepted' = [accepted EXCEPT ![s] = Cardinality(FilePoints)]
     /\ command' = [command EXCEPT !.imported = @ \cup {s}]
     /\ Commits(p, s)
     /\ Ends(p, "answered")
     /\ UNCHANGED <<overrides, wanted, unsettled>>

RepairFails(p) ==
  /\ pc[p] = "repair"
  /\ ~ Exists(job[p].s)
  /\ Aborts(p)

(* analyze_imported_sessions. *)
AnalyzeImported ==
  /\ Running({"import", "repair"})
  /\ command.batch = {}
  /\ \/ /\ command.imported = {}
        /\ Goto(operator, "ended")
        /\ UNCHANGED <<job, command>>
     \/ \E s \in command.imported :
        /\ IsFirst(s, command.imported)
        /\ command' = [command EXCEPT !.imported = @ \ {s}]
        /\ IF Exists(s)
           THEN /\ job' = [job EXCEPT ![operator] = [NoJob EXCEPT !.op = "reanalyze", !.s = s]]
                /\ Goto(operator, "points")
           ELSE UNCHANGED <<job, pc>>
  /\ UNCHANGED <<tables, history>>

-------------------------------------------------------------------------------

Calls(p, s) ==
  \/ CreateSession(p, s)
  \/ \E batch \in SUBSET Offset \ {{}} : Upload(p, s, batch)
  \/ Complete(p, s)
  \/ \E include_overrides \in BOOLEAN : Reanalyze(p, s, include_overrides)
  \/ ApplyOverride(p, s)
  \/ \E row \in overrides[s] : RemoveOverride(p, s, row)
  \/ Delete(p, s)

Proceeds(p) ==
  \/ CountPoints(p) \/ ReadKnown(p) \/ InsertPoints(p)
  \/ InsertOverride(p) \/ OverrideOrphaned(p) \/ DeleteOverride(p) \/ Reselect(p)
  \/ DeleteRows(p) \/ DeadlockVictim(p)
  \/ ReadPoints(p) \/ ReadOverrides(p)
  \/ \E service \in BOOLEAN : AnalyzerRaises(p, service)
  \/ DeleteActions(p) \/ ActionsWoken(p) \/ DeleteOverrides(p) \/ OverridesWoken(p)
  \/ StoreAnalysis(p) \/ StoreFails(p)
  \/ Repair(p) \/ RepairFails(p)

CommandProceeds == ListBatch \/ TakeSession \/ ImportFile \/ AnalyzeImported

Next ==
  \/ \E p \in Request, s \in Session : Calls(p, s)
  \/ \E kind \in {"reanalyze", "import", "repair"} : StartCommand(kind)
  \/ \E p \in Process : Proceeds(p)
  \/ CommandProceeds
  \/ \E p \in Process : Dies(p)

Spec == Init /\ [][Next]_vars

-------------------------------------------------------------------------------
(* Properties. *)

Rows == [span : Span, by : Process, n : Int]
Analyses == [version : {"old", "current"}, points : SUBSET Offset, spans : SUBSET Span]
ActionRows == [seq : Int, of : Analyses]
Statements == {"count", "known", "insert", "knownAgain", "insertAgain", "points", "overrides",
  "analyze", "actionsWait", "deleteOverrides", "overridesWait", "store", "insertOverride", "reselect",
  "deleteOverride", "deleteRows", "clear", "clearWaits", "repair"}
AtRest == {"idle", "next", "answered", "refused", "failed", "ended"}
Operations == {"none", "upload", "complete", "reanalyze", "reset", "apply", "remove", "delete", "repair"}

Rides == [status : {"none", "draft", "completed", "deleted"}, by : Analyses \cup {Nil}]
Jobs == [op : Operations, s : Session \cup {Nil}, batch : SUBSET Offset, known : SUBSET Offset,
         row : Rows \cup {Nil}, points : SUBSET Offset, rows : SUBSET Rows,
         seen : SUBSET (ActionRows \cup Rows), acts : SUBSET ActionRows, ovs : SUBSET Rows]
Commands == [kind : {"none", "reanalyze", "import", "repair"}, todo : SUBSET Session,
             attempted : SUBSET Session, batch : SUBSET Session, imported : SUBSET Session]

(* Rows are what they are declared to be.  A session that does not exist has no
   children and a draft has only points: completion, with its summary and its
   actions, is one transaction; a session has one action of a number. *)
SrvTypeOK ==
  /\ ride \in [Session -> Rides]
  /\ points \in [Session -> SUBSET Offset]
  /\ actions \in [Session -> SUBSET ActionRows]
  /\ overrides \in [Session -> SUBSET Rows]
  /\ pc \in [Process -> Statements \cup AtRest]
  /\ job \in [Process -> Jobs]
  /\ command \in Commands
  /\ accepted \in [Session -> Int]
  /\ wanted \in [Session -> SUBSET Span]
  /\ outdated \subseteq Process /\ overlapped \subseteq Session /\ unsettled \subseteq Session
  /\ \A s \in Session :
       /\ ~ Exists(s) => points[s] = {}
       /\ ride[s].status # "completed" => ride[s].by = Nil /\ actions[s] = {} /\ overrides[s] = {}
       /\ \A a, b \in actions[s] : a.seq = b.seq => a = b

(* The answers of the uploads add up: whatever batches overlap in their
   offsets or race each other, the number of points that the answers report
   as stored is the number of points stored. *)
AcceptedIsStored == \A s \in Session : accepted[s] = Cardinality(points[s])

(* Statistics and actions are those of the points and overrides stored beside
   them, and none are served where a repair has dropped them, unless the
   session was written by a transaction that had read it before another one
   changed it (nothing locks the row), or an override was committed and its
   reanalysis did not come to pass. *)
AnalysisIsOfStoredData ==
  \A s \in Session \ overlapped :
    /\ actions[s] = IF ride[s].by = Nil THEN {} ELSE ActionsOf(ride[s].by)
    /\ ride[s].status = "completed" /\ ~ NeedsReanalysis(s) /\ s \notin unsettled =>
         ride[s].by = Analysis("current", points[s], SpansOf(overrides[s]))

(* An override of the rider stays, once, through completions, analyses and
   repairs until the rider removes it or asks for an analysis without
   overrides, although every analysis deletes and rewrites the rows; only
   transactions that overlap break this. *)
RiderOverridesKept ==
  \A s \in Session \ overlapped :
    SpansOf(overrides[s]) = wanted[s] /\ Cardinality(overrides[s]) = Cardinality(wanted[s])

(* A reanalyze_sessions command that ends by itself leaves no session that was
   waiting when it began and that it has not attempted, unless a whole batch
   of attempted sessions waits before it. *)
LeavesOnlyBlocked ==
  LET waiting == {s \in Session : NeedsReanalysis(s)}
  IN \A s \in (command.todo \cap waiting) \ command.attempted :
       Cardinality({r \in waiting \cap command.attempted : r < s}) >= BatchSize

CommandLeavesOnlyBlocked ==
  [][pc[operator] = "next" /\ pc'[operator] = "ended" => LeavesOnlyBlocked]_vars

-------------------------------------------------------------------------------
(* The inductive invariant behind the three invariants above (proved in
   SessionServerProofs). *)

Analyzing == {"overrides", "analyze", "actionsWait", "deleteOverrides", "overridesWait", "store"}
Uploading == {"count", "known", "insert", "knownAgain", "insertAgain"}

(* What a process works on was there when it began, and a call of a completed
   session never meets a draft. *)
JobHasSession(p) ==
  pc[p] \in Statements =>
    /\ job[p].s \in Session
    /\ ride[job[p].s].status # "none"
    /\ pc[p] \in Analyzing \cup {"points"} => job[p].op \in {"complete", "reanalyze", "reset", "apply", "remove"}
    /\ pc[p] = "overrides" => job[p].op # "reset"
    /\ job[p].op = "reset" => job[p].rows = {}
    /\ pc[p] \in Uploading => job[p].op = "upload"
    /\ pc[p] = "insertOverride" => p \in Request /\ job[p].op = "apply"
    /\ pc[p] = "deleteOverride" => p \in Request /\ job[p].op = "remove" /\ job[p].row \in Rows
    /\ pc[p] = "reselect" => job[p].op \in {"apply", "remove"}
    /\ pc[p] \in {"clear", "clearWaits", "repair"} => p = operator /\ job[p].op = "repair"
    /\ job[p].op \in {"reanalyze", "reset", "apply", "remove", "repair"} =>
         ride[job[p].s].status \in {"completed", "deleted"}
JobsHaveSessions == \A p \in Process : JobHasSession(p)

(* What a command has listed or imported is completed, or deleted since. *)
ListedAreCompleted ==
  \A s \in command.imported \cup (IF command.kind = "reanalyze" THEN command.batch ELSE {}) :
    ride[s].status \in {"completed", "deleted"}

(* What a process has read is still what is stored, unless it is outdated. *)
ReadsAreFresh(p) ==
  Midway(p) /\ p \notin outdated =>
    /\ pc[p] \in Uploading => ride[job[p].s].status = "draft"
    /\ pc[p] = "deleteOverride" => job[p].row \in overrides[job[p].s]
    /\ pc[p] \in Analyzing => job[p].points = points[job[p].s]
    /\ pc[p] \in Analyzing \ {"overrides"} =>
         job[p].rows = IF job[p].op = "reset" THEN {} ELSE overrides[job[p].s]
    /\ pc[p] \in {"actionsWait", "clearWaits"} => job[p].seen = actions[job[p].s]
    /\ pc[p] \in {"deleteOverrides", "overridesWait", "store", "repair"} => job[p].acts = actions[job[p].s]
    /\ pc[p] = "overridesWait" => job[p].seen = overrides[job[p].s]
    /\ pc[p] = "store" => job[p].ovs = overrides[job[p].s]
FreshReads == \A p \in Process : ReadsAreFresh(p)

(* Until its INSERT no one has seen the span that a request adds. *)
SpansAreNew ==
  \A p \in Request : pc[p] \in {"idle", "insertOverride"} =>
    /\ \A s \in Session : \A r \in overrides[s] : r.span # p
    /\ \A q \in Process : \A r \in job[q].rows : r.span # p

OneRowPerSpan ==
  \A s \in Session \ overlapped :
    /\ IsFiniteSet(wanted[s])
    /\ SpansOf(overrides[s]) = wanted[s]
    /\ \A r, q \in overrides[s] : r.span = q.span => r = q

SrvInv ==
  /\ SrvTypeOK
  /\ JobsHaveSessions
  /\ ListedAreCompleted
  /\ FreshReads
  /\ SpansAreNew
  /\ OneRowPerSpan
  /\ AcceptedIsStored
  /\ AnalysisIsOfStoredData
===============================================================================
