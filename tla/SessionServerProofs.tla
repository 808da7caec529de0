-------------------------- MODULE SessionServerProofs --------------------------
(***************************************************************************)
(* Proofs about SessionServer, for any sessions, offsets and requests: the *)
(* inductive invariant SrvInv, and from it what uploads report, what an    *)
(* analysis is of and which overrides a session has; and, from NothingToDo *)
(* as well, when the command that reanalyzes in batches ends.              *)
(***************************************************************************)
EXTENDS SessionServer, TLAPS, FiniteSetTheorems, WellFoundedInduction

USE DEF tables, history

(* A step is of one process.                                                *)
StepOf(p) ==
  \/ p \in Request /\ \E s \in Session : Calls(p, s)
  \/ Proceeds(p)
  \/ Dies(p)
  \/ p = operator /\ (CommandProceeds \/ \E kind \in {"reanalyze", "import", "repair"} : StartCommand(kind))

LEMMA StepsAreOfProcesses == ASSUME Next PROVE \E p \in Process : StepOf(p)
<1>1. CASE \E p \in Request, s \in Session : Calls(p, s)
  BY <1>1 DEF StepOf, Process
<1>2. CASE CommandProceeds \/ \E kind \in {"reanalyze", "import", "repair"} : StartCommand(kind)
  BY <1>2 DEF StepOf, Process
<1>3. CASE \E p \in Process : Proceeds(p)
  BY <1>3 DEF StepOf
<1>4. CASE \E p \in Process : Dies(p)
  BY <1>4 DEF StepOf
<1> QED BY <1>1, <1>2, <1>3, <1>4 DEF Next

(* The statements that write a table or the history of its properties.      *)
Writes(p) ==
  \/ p \in Request /\ \E s \in Session : CreateSession(p, s)
  \/ InsertPoints(p) \/ InsertOverride(p) \/ DeleteOverride(p) \/ DeleteRows(p) \/ StoreAnalysis(p) \/ Repair(p)
  \/ ImportFile

(* Every other step leaves the tables alone.                                *)
LEMMA OthersRead ==
  ASSUME NEW p \in Process, StepOf(p), ~ Writes(p)
  PROVE  UNCHANGED <<tables, accepted, wanted, overlapped, unsettled>>
<1>1. ASSUME NEW s \in Session, p \in Request, Calls(p, s)
      PROVE  UNCHANGED <<tables, accepted, wanted, overlapped, unsettled>>
  BY <1>1 DEF Writes, Calls, Upload, Complete, Reanalyze, ApplyOverride, RemoveOverride, Delete, Selects
<1>2. CASE Proceeds(p)
  BY <1>2 DEF Writes, Proceeds, CountPoints, ReadKnown, OverrideOrphaned, Reselect, DeadlockVictim, ReadPoints,
     ReadOverrides, AnalyzerRaises, DeleteActions, ActionsWoken, DeleteOverrides, OverridesWoken, StoreFails,
     RepairFails, Aborts
<1>3. CASE Dies(p)
  BY <1>3 DEF Dies, Aborts
<1>4. CASE CommandProceeds
  BY <1>4 DEF Writes, CommandProceeds, ListBatch, TakeSession, AnalyzeImported
<1>5. CASE \E kind \in {"reanalyze", "import", "repair"} : StartCommand(kind)
  BY <1>5 DEF StartCommand
<1> QED BY <1>1, <1>2, <1>3, <1>4, <1>5 DEF StepOf

-------------------------------------------------------------------------------
(* Types. *)

LEMMA AnalysisTyped ==
  ASSUME NEW p \in Process, job[p].points \subseteq Offset, job[p].rows \subseteq Rows
  PROVE  /\ NewAnalysis(p) \in Analyses
         /\ ActionsOf(NewAnalysis(p)) \subseteq ActionRows
         /\ Rewritten(p, job[p].rows) \subseteq Rows
         /\ \A a, b \in ActionsOf(NewAnalysis(p)) : a.seq = b.seq => a = b
<1>1. SpansOf(job[p].rows) \subseteq Span
  BY DEF SpansOf, Rows
<1>2. NewAnalysis(p) \in Analyses
  BY <1>1 DEF NewAnalysis, Analysis, Analyses
<1>3. Rewritten(p, job[p].rows) \subseteq Rows
  BY DEF Rewritten, Rows
<1>4. ASSUME NEW a \in ActionsOf(NewAnalysis(p))
      PROVE  a = [seq |-> a.seq, of |-> NewAnalysis(p)] /\ a.seq \in Int
  BY <1>4 DEF ActionsOf
<1>5. ActionsOf(NewAnalysis(p)) \subseteq ActionRows
  BY <1>2, <1>4 DEF ActionRows
<1> QED BY <1>2, <1>3, <1>4, <1>5

(* What a statement reads into a job is of the declared type.               *)
LEMMA JobTyped ==
  ASSUME NEW j \in Jobs
  PROVE  /\ \A x \in SUBSET Offset : /\ [j EXCEPT !.known = x] \in Jobs
                                   /\ [j EXCEPT !.points = x] \in Jobs
         /\ \A x \in SUBSET Rows : /\ [j EXCEPT !.rows = x] \in Jobs
                                 /\ [j EXCEPT !.ovs = x] \in Jobs
                                 /\ [j EXCEPT !.seen = x] \in Jobs
         /\ \A x \in SUBSET ActionRows : /\ [j EXCEPT !.acts = x] \in Jobs
                                       /\ [j EXCEPT !.seen = x] \in Jobs
         /\ \A x \in Session : [j EXCEPT !.s = x] \in Jobs
         /\ j.points \subseteq Offset /\ j.rows \subseteq Rows /\ j.acts \subseteq ActionRows
         /\ j.ovs \subseteq Rows /\ j.batch \subseteq Offset /\ j.known \subseteq Offset
         /\ j.s \in Session \cup {Nil} /\ [NoJob EXCEPT !.s = j.s] \in Jobs
  BY DEF Jobs, NoJob, Operations

(* The jobs that a request or a command begins with.                        *)
LEMMA NewJobTyped ==
  /\ NoJob \in Jobs
  /\ \A o \in Operations, s \in Session : [NoJob EXCEPT !.op = o, !.s = s] \in Jobs
  BY DEF Jobs, NoJob, Operations

LEMMA SelectTyped ==
  ASSUME SrvTypeOK, NEW p \in Request, NEW s \in Session, NEW statuses, NEW j \in Jobs, NEW next \in Statements,
         Selects(p, s, statuses, j, next)
  PROVE  SrvTypeOK'
<1>1. [j EXCEPT !.s = s] \in Jobs
  BY JobTyped
<1>2. job' \in [Process -> Jobs] /\ pc' \in [Process -> Statements \cup AtRest]
  BY <1>1 DEF SrvTypeOK, Selects, Goto, AtRest, Process
<1> QED BY <1>2 DEF SrvTypeOK, Selects, Exists

(* A process is at a statement of the service, with a job.                  *)
LEMMA JobsStep ==
  ASSUME SrvTypeOK, JobsHaveSessions, [Next]_vars
  PROVE  job' \in [Process -> Jobs] /\ pc' \in [Process -> Statements \cup AtRest]
<1> DEFINE Typed == job' \in [Process -> Jobs] /\ pc' \in [Process -> Statements \cup AtRest]
<1>0. /\ job \in [Process -> Jobs] /\ pc \in [Process -> Statements \cup AtRest] /\ operator \in Process
      /\ \A s \in Session : overrides[s] \subseteq Rows /\ actions[s] \subseteq ActionRows
      /\ \A s \in Session : points[s] \subseteq Offset
  BY DEF SrvTypeOK, Process
<1>a. ASSUME NEW p \in Process, NEW l \in Statements \cup AtRest, Goto(p, l) PROVE pc' \in [Process -> Statements \cup AtRest]
  BY <1>0, <1>a DEF Goto
<1>b. ASSUME NEW p \in Process, NEW j \in Jobs, job' = [job EXCEPT ![p] = j] PROVE job' \in [Process -> Jobs]
  BY <1>0, <1>b
<1>c. ASSUME NEW p \in Process, NEW l \in AtRest, Ends(p, l) PROVE Typed
  <2>1. [NoJob EXCEPT !.s = job[p].s] \in Jobs
    BY <1>0, JobTyped
  <2> QED BY <1>c, <2>1, <1>a, <1>b DEF Ends, AtRest
<1>d. ASSUME NEW p \in Process, Aborts(p) PROVE Typed
  BY <1>d, <1>a, <1>b, NewJobTyped DEF Aborts, AtRest
<1>1. ASSUME NEW p \in Request, NEW s \in Session, Calls(p, s) PROVE Typed
  <2>1. CASE CreateSession(p, s)
    BY <1>0, <1>a, <2>1 DEF CreateSession, AtRest, Process
  <2>2. ASSUME NEW j \in Jobs, NEW next \in Statements, NEW statuses, Selects(p, s, statuses, j, next)
        PROVE  Typed
    BY <2>2, SelectTyped DEF SrvTypeOK
  <2>3. ASSUME NEW batch \in SUBSET Offset, Upload(p, s, batch) PROVE Typed
    <3>1. [NoJob EXCEPT !.op = "upload", !.batch = batch] \in Jobs
      BY DEF NoJob, Jobs, Operations
    <3> QED BY <2>2, <2>3, <3>1 DEF Upload, Statements
  <2>4. ASSUME NEW o \in Operations, NEW next \in Statements, NEW statuses,
               Selects(p, s, statuses, [NoJob EXCEPT !.op = o], next)
        PROVE  Typed
    <3>1. [NoJob EXCEPT !.op = o] \in Jobs
      BY DEF NoJob, Jobs
    <3> QED BY <2>2, <2>4, <3>1
  <2>5. CASE Complete(p, s) \/ ApplyOverride(p, s) \/ \E o \in BOOLEAN : Reanalyze(p, s, o)
    BY <2>4, <2>5 DEF Complete, ApplyOverride, Reanalyze, Operations, Statements
  <2>6. ASSUME NEW row \in overrides[s], RemoveOverride(p, s, row) PROVE Typed
    <3>1. [NoJob EXCEPT !.op = "remove", !.row = row] \in Jobs
      BY <1>0 DEF NoJob, Jobs, Operations
    <3> QED BY <2>2, <2>6, <3>1 DEF RemoveOverride, Statements
  <2>7. CASE Delete(p, s)
    <3>1. [NoJob EXCEPT !.op = "delete", !.seen = actions[s] \cup overrides[s]] \in Jobs
      BY <1>0 DEF NoJob, Jobs, Operations
    <3> QED BY <2>2, <2>7, <3>1 DEF Delete, Statements
  <2> QED BY <1>1, <2>1, <2>3, <2>5, <2>6, <2>7 DEF Calls
<1>2. ASSUME NEW p \in Process, Proceeds(p), \A q \in Process : pc[q] \in Statements => job[q].s \in Session
      PROVE Typed
  <2>0. /\ job[p] \in Jobs
        /\ pc[p] \in Statements => job[p].s \in Session
    BY <1>0, <1>2
  <2>1. CASE CountPoints(p) \/ Reselect(p)
    BY <1>0, <1>a, <1>c, <2>1 DEF CountPoints, Reselect, AtRest, Statements
  <2>2. CASE ReadKnown(p)
    <3>1. [job[p] EXCEPT !.known = job[p].batch \cap points[job[p].s]] \in Jobs
      BY <2>0, JobTyped
    <3> QED BY <2>2, <3>1, <1>0, <1>a, <1>b DEF ReadKnown, Statements
  <2>3. CASE InsertPoints(p) \/ DeleteRows(p) \/ StoreAnalysis(p) \/ Repair(p)
    BY <1>0, <1>a, <1>c, <2>3 DEF InsertPoints, DeleteRows, StoreAnalysis, Repair, AtRest, Statements
  <2>4. CASE InsertOverride(p) \/ DeleteOverride(p)
    BY <1>0, <1>a, <2>4 DEF InsertOverride, DeleteOverride, Statements
  <2>5. CASE Aborts(p)
    BY <2>5, <1>d
  <2>6. CASE ReadPoints(p)
    <3>1. [job[p] EXCEPT !.points = points[job[p].s]] \in Jobs
      BY <1>0, <2>0, <2>6, JobTyped DEF ReadPoints, Statements
    <3> QED BY <2>6, <3>1, <1>a, <1>b DEF ReadPoints, Statements
  <2>7. CASE ReadOverrides(p)
    <3>1. [job[p] EXCEPT !.rows = overrides[job[p].s]] \in Jobs
      BY <1>0, <2>0, <2>7, JobTyped DEF ReadOverrides, Statements
    <3> QED BY <2>7, <3>1, <1>a, <1>b DEF ReadOverrides, Statements
  <2>8. CASE DeleteActions(p)
    <3>1. /\ [job[p] EXCEPT !.seen = actions[job[p].s]] \in Jobs
          /\ [job[p] EXCEPT !.acts = actions[job[p].s]] \in Jobs
      BY <1>0, <2>0, <2>8, JobTyped DEF DeleteActions, Statements
    <3> QED BY <2>8, <3>1, <1>a, <1>b DEF DeleteActions, Statements
  <2>9. CASE ActionsWoken(p)
    <3>1. [job[p] EXCEPT !.acts = job[p].seen \cap actions[job[p].s]] \in Jobs
      BY <1>0, <2>0, <2>9, JobTyped DEF ActionsWoken, Statements
    <3> QED BY <2>9, <3>1, <1>a, <1>b DEF ActionsWoken, Statements
  <2>10. CASE DeleteOverrides(p)
    <3>1. /\ [job[p] EXCEPT !.seen = overrides[job[p].s]] \in Jobs
          /\ [job[p] EXCEPT !.ovs = overrides[job[p].s]] \in Jobs
      BY <1>0, <2>0, <2>10, JobTyped DEF DeleteOverrides, Statements
    <3> QED BY <2>10, <3>1, <1>a, <1>b DEF DeleteOverrides, Statements
  <2>11. CASE OverridesWoken(p)
    <3>1. [job[p] EXCEPT !.ovs = job[p].seen \cap overrides[job[p].s]] \in Jobs
      BY <1>0, <2>0, <2>11, JobTyped DEF OverridesWoken, Statements
    <3> QED BY <2>11, <3>1, <1>a, <1>b DEF OverridesWoken, Statements
  <2>12. CASE Ends(p, "failed")
    BY <2>12, <1>c DEF AtRest
  <2> HIDE DEF Typed
  <2> QED BY <1>2, <2>1, <2>2, <2>3, <2>4, <2>5, <2>6, <2>7, <2>8, <2>9, <2>10, <2>11, <2>12
     DEF Proceeds, OverrideOrphaned, DeadlockVictim, AnalyzerRaises, StoreFails, RepairFails
<1>3. ASSUME NEW p \in Process, Dies(p) PROVE Typed
  BY <1>3, <1>d DEF Dies
<1>4. CASE \E kind \in {"reanalyze", "import", "repair"} : StartCommand(kind)
  BY <1>4, <1>0, <1>a DEF StartCommand, AtRest
<1>5. ASSUME NEW o \in {"reanalyze", "repair"}, NEW s \in Session, NEW l \in Statements,
             job' = [job EXCEPT ![operator] = [NoJob EXCEPT !.op = o, !.s = s]], Goto(operator, l)
      PROVE  Typed
  BY <1>0, <1>5, <1>a, <1>b, NewJobTyped DEF Operations
<1>6. CASE CommandProceeds /\ command \in Commands
  <2>1. command.batch \subseteq Session /\ command.imported \subseteq Session
    BY <1>6 DEF Commands
  <2>2. CASE ListBatch
    BY <2>2, <1>0, <1>a DEF ListBatch, AtRest
  <2>3. CASE TakeSession \/ AnalyzeImported
    BY <2>1, <2>3, <1>0, <1>a, <1>5 DEF TakeSession, AnalyzeImported, AtRest, Statements
  <2>4. CASE ImportFile
    BY <2>1, <2>4, <1>0, <1>5 DEF ImportFile, Statements
  <2> QED BY <1>6, <2>2, <2>3, <2>4 DEF CommandProceeds
<1>7. CASE UNCHANGED vars
  BY <1>0, <1>7 DEF vars
<1>8. /\ \A q \in Process : pc[q] \in Statements => job[q].s \in Session
      /\ command \in Commands
  BY DEF JobsHaveSessions, JobHasSession, SrvTypeOK
<1>9. CASE \E p \in Process : Proceeds(p)
  BY <1>2, <1>8, <1>9
<1>10. CASE CommandProceeds
  BY <1>6, <1>8, <1>10
<1>11. CASE \E p \in Request, s \in Session : Calls(p, s)
  BY <1>1, <1>11
<1>12. CASE \E p \in Process : Dies(p)
  BY <1>3, <1>12
<1>13. CASE Next
  BY <1>4, <1>9, <1>10, <1>11, <1>12, <1>13 DEF Next
<1>14. Next \/ UNCHANGED vars
  OBVIOUS
<1> QED BY <1>7, <1>13, <1>14

-------------------------------------------------------------------------------
(* Processes. *)

(* It leaves the statements and the jobs of the others alone.               *)
LEMMA OthersWait ==
  ASSUME SrvTypeOK, NEW p \in Process, StepOf(p), NEW q \in Process \ {p}
  PROVE  pc'[q] = pc[q] /\ job'[q] = job[q]
<1>0. job \in [Process -> Jobs] /\ pc \in [Process -> Statements \cup AtRest]
  BY DEF SrvTypeOK
<1>1. ASSUME NEW s \in Session, p \in Request, Calls(p, s) PROVE pc'[q] = pc[q] /\ job'[q] = job[q]
  BY <1>0, <1>1 DEF Calls, CreateSession, Upload, Complete, Reanalyze, ApplyOverride, RemoveOverride, Delete,
     Selects, Goto
<1>2. CASE Proceeds(p)
  BY <1>0, <1>2 DEF Proceeds, CountPoints, ReadKnown, InsertPoints, InsertOverride, OverrideOrphaned, DeleteOverride,
     Reselect, DeleteRows, DeadlockVictim, ReadPoints, ReadOverrides, AnalyzerRaises, DeleteActions, ActionsWoken,
     DeleteOverrides, OverridesWoken, StoreAnalysis, StoreFails, Repair, RepairFails, Goto, Ends, Aborts
<1>3. CASE Dies(p)
  BY <1>0, <1>3 DEF Dies, Aborts, Goto
<1>4. CASE p = operator /\ CommandProceeds
  BY <1>0, <1>4 DEF CommandProceeds, ListBatch, TakeSession, ImportFile, AnalyzeImported, Goto
<1>5. CASE p = operator /\ \E kind \in {"reanalyze", "import", "repair"} : StartCommand(kind)
  BY <1>0, <1>5 DEF StartCommand, Goto
<1> QED BY <1>1, <1>2, <1>3, <1>4, <1>5 DEF StepOf

(* It changes the rows of a session only with a commit of that session, or
   makes the session.                                                       *)
SameRows(s) ==
  /\ ride'[s] = ride[s] /\ points'[s] = points[s]
  /\ actions'[s] = actions[s] /\ overrides'[s] = overrides[s]

LEMMA ChangesAreCommits ==
  ASSUME SrvTypeOK, NEW p \in Process, StepOf(p), NEW s \in Session
  PROVE  SameRows(s) \/ Commits(p, s) \/ ride[s].status = "none"
<1> USE DEF SrvTypeOK
<1>1. CASE UNCHANGED tables
  BY <1>1 DEF SameRows
<1>2. ASSUME NEW r \in Session, CreateSession(p, r) PROVE SameRows(s) \/ ride[s].status = "none"
  BY <1>2 DEF CreateSession, SameRows
<1>3. CASE InsertPoints(p) \/ InsertOverride(p) \/ DeleteOverride(p) \/ DeleteRows(p) \/ StoreAnalysis(p) \/ Repair(p)
  BY <1>3 DEF InsertPoints, InsertOverride, DeleteOverride, DeleteRows, StoreAnalysis, Repair, SameRows
<1>4. CASE ImportFile
  BY <1>4 DEF ImportFile, SameRows
<1> HIDE DEF SrvTypeOK
<1>5. CASE ~ Writes(p)
  BY <1>1, <1>5, OthersRead
<1> QED BY <1>2, <1>3, <1>4, <1>5 DEF Writes

-------------------------------------------------------------------------------
(* Rows. *)

(* A process that writes is at a statement, and works on a session.         *)
LEMMA WriterHasSession ==
  ASSUME SrvTypeOK, JobsHaveSessions, NEW p \in Process, pc[p] \in Statements
  PROVE  /\ job[p] \in Jobs /\ job[p].s \in Session
         /\ ride[job[p].s] \in Rides /\ ride[job[p].s].status # "none"
         /\ points[job[p].s] \subseteq Offset
         /\ actions[job[p].s] \subseteq ActionRows /\ overrides[job[p].s] \subseteq Rows
         /\ job[p].points \subseteq Offset /\ job[p].rows \subseteq Rows /\ job[p].acts \subseteq ActionRows
         /\ job[p].ovs \subseteq Rows /\ job[p].batch \subseteq Offset
  BY DEF SrvTypeOK, JobsHaveSessions, JobHasSession, Jobs

LEMMA PutTyped ==
  ASSUME NEW S, NEW T, NEW f \in [S -> T], NEW x, NEW v \in T
  PROVE  [f EXCEPT ![x] = v] \in [S -> T]
OBVIOUS

(* The tables, but for what of a session goes with its status.              *)
TablesTyped ==
  /\ ride \in [Session -> Rides]
  /\ points \in [Session -> SUBSET Offset]
  /\ actions \in [Session -> SUBSET ActionRows]
  /\ overrides \in [Session -> SUBSET Rows]
  /\ accepted \in [Session -> Int]
  /\ wanted \in [Session -> SUBSET Span]

LEMMA TablesStep ==
  ASSUME SrvTypeOK, JobsHaveSessions, NEW p \in Process, StepOf(p)
  PROVE  TablesTyped'
<1>0. TablesTyped
  BY DEF SrvTypeOK, TablesTyped
<1> USE DEF TablesTyped
<1>1. ASSUME NEW s \in Session, CreateSession(p, s) PROVE TablesTyped'
  BY <1>0, <1>1 DEF CreateSession, Rides
<1>2. CASE InsertPoints(p)
  <2>1. job[p].s \in Session /\ job[p].batch \subseteq Offset
    BY <1>2, WriterHasSession DEF InsertPoints, Statements
  <2>2. Cardinality(job[p].batch \ job[p].known) \in Int
    <3>1. IsFiniteSet(job[p].batch \ job[p].known)
      BY <2>1, SessionAssumption, FS_Subset
    <3> QED BY <3>1, FS_CardinalityType
  <2> QED BY <1>0, <1>2, <2>1, <2>2 DEF InsertPoints
<1>3. CASE InsertOverride(p)
  <2>1. job[p].s \in Session /\ p \in Request
    BY <1>3, WriterHasSession DEF InsertOverride, Statements, JobsHaveSessions, JobHasSession
  <2>2. [span |-> p, by |-> p, n |-> 0] \in Rows /\ p \in Span
    BY <2>1 DEF Rows, Span, Process
  <2> QED BY <1>0, <1>3, <2>1, <2>2 DEF InsertOverride
<1>4. CASE DeleteOverride(p)
  BY <1>0, <1>4 DEF DeleteOverride
<1>5. CASE DeleteRows(p)
  <2>1. [status |-> "deleted", by |-> Nil] \in Rides
    BY DEF Rides
  <2>2. ride' \in [Session -> Rides] /\ points' \in [Session -> SUBSET Offset]
    BY <1>0, <1>5, <2>1 DEF DeleteRows
  <2>3. actions' \in [Session -> SUBSET ActionRows] /\ overrides' \in [Session -> SUBSET Rows]
    BY <1>0, <1>5 DEF DeleteRows
  <2>4. accepted' \in [Session -> Int]
    <3>1. accepted' = [accepted EXCEPT ![job[p].s] = 0]
      BY <1>5 DEF DeleteRows
    <3>2. accepted \in [Session -> Int] /\ 0 \in Int
      BY <1>0
    <3> QED BY <3>1, <3>2, PutTyped
  <2>5. wanted' \in [Session -> SUBSET Span]
    BY <1>0, <1>5 DEF DeleteRows
  <2> QED BY <2>2, <2>3, <2>4, <2>5
<1>6. CASE StoreAnalysis(p)
  <2>1. job[p].s \in Session /\ ride[job[p].s] \in Rides /\ job[p].points \subseteq Offset /\ job[p].rows \subseteq Rows
    BY <1>6, WriterHasSession DEF StoreAnalysis, Statements
  <2>2. /\ NewAnalysis(p) \in Analyses
        /\ ActionsOf(NewAnalysis(p)) \subseteq ActionRows
        /\ Rewritten(p, job[p].rows) \subseteq Rows
    BY <2>1, AnalysisTyped
  <2>3. ride' \in [Session -> Rides]
    BY <1>0, <1>6, <2>1, <2>2 DEF StoreAnalysis, Rides
  <2>4. actions' \in [Session -> SUBSET ActionRows] /\ overrides' \in [Session -> SUBSET Rows]
    BY <1>0, <1>6, <2>1, <2>2 DEF StoreAnalysis
  <2> QED BY <1>0, <1>6, <2>3, <2>4 DEF StoreAnalysis
<1>7. Cardinality(FilePoints) \in Int
  BY SessionAssumption, FS_Subset, FS_CardinalityType
<1>8. CASE Repair(p)
  BY <1>0, <1>7, <1>8, SessionAssumption DEF Repair, Rides
<1>9. CASE ImportFile
  <2>1. [status |-> "completed", by |-> Nil] \in Rides
    BY DEF Rides
  <2>2. UNCHANGED <<actions, overrides, wanted>>
    BY <1>9 DEF ImportFile
  <2>3. \/ UNCHANGED <<ride, points, accepted>>
        \/ \E s \in Session : /\ ride' = [ride EXCEPT ![s] = [status |-> "completed", by |-> Nil]]
                             /\ points' = [points EXCEPT ![s] = FilePoints]
                             /\ accepted' = [accepted EXCEPT ![s] = Cardinality(FilePoints)]
    <3>1. command.batch \subseteq Session
      BY DEF SrvTypeOK, Commands
    <3> QED BY <1>9, <3>1 DEF ImportFile, IsFirst
  <2> QED BY <1>0, <1>7, <2>1, <2>2, <2>3, SessionAssumption
<1>10. CASE ~ Writes(p)
  BY <1>0, <1>10, OthersRead
<1> QED BY <1>1, <1>2, <1>3, <1>4, <1>5, <1>6, <1>8, <1>9, <1>10 DEF Writes

(* No row comes back, and a completed session is completed or deleted.      *)
LEMMA RideMoves ==
  ASSUME SrvTypeOK, JobsHaveSessions, NEW p \in Process, StepOf(p), NEW s \in Session
  PROVE  /\ ride[s].status # "none" => ride'[s].status # "none"
         /\ ride[s].status \in {"completed", "deleted"} => ride'[s].status \in {"completed", "deleted"}
<1>0. ride \in [Session -> Rides]
  BY DEF SrvTypeOK
<1>1. ASSUME NEW r \in Session, CreateSession(p, r)
      PROVE  ride'[s] = ride[s] \/ ride[s].status = "none"
  BY <1>0, <1>1 DEF CreateSession
<1>2. CASE InsertPoints(p) \/ InsertOverride(p) \/ DeleteOverride(p)
  BY <1>2 DEF InsertPoints, InsertOverride, DeleteOverride
<1>3. CASE DeleteRows(p) \/ Repair(p)
  BY <1>0, <1>3 DEF DeleteRows, Repair
<1>4. CASE StoreAnalysis(p)
  BY <1>0, <1>4 DEF StoreAnalysis, Rides
<1>5. CASE ImportFile
  BY <1>0, <1>5 DEF ImportFile
<1>6. CASE ~ Writes(p)
  BY <1>6, OthersRead
<1> QED BY <1>1, <1>2, <1>3, <1>4, <1>5, <1>6 DEF Writes

(* What of a session goes with its status.                                  *)
Childless(s) ==
  /\ ~ Exists(s) => points[s] = {}
  /\ ride[s].status # "completed" => ride[s].by = Nil /\ actions[s] = {} /\ overrides[s] = {}
  /\ \A a, b \in actions[s] : a.seq = b.seq => a = b

LEMMA ChildlessStep ==
  ASSUME SrvTypeOK, JobsHaveSessions, NEW p \in Process, StepOf(p), NEW s \in Session
  PROVE  Childless(s)'
<1>0. TablesTyped /\ Childless(s)
  BY DEF SrvTypeOK, TablesTyped, Childless
<1> USE DEF TablesTyped, Childless, Exists
<1>1. ASSUME NEW r \in Session, CreateSession(p, r) PROVE Childless(s)'
  BY <1>0, <1>1 DEF CreateSession
<1>2. CASE InsertPoints(p)
  BY <1>0, <1>2 DEF InsertPoints
<1>3. CASE InsertOverride(p)
  <2>1. job[p].op = "apply" /\ ride[job[p].s].status \in {"completed", "deleted"}
    BY <1>3 DEF InsertOverride, Statements, JobsHaveSessions, JobHasSession
  <2> QED BY <1>0, <1>3, <2>1 DEF InsertOverride
<1>4. CASE DeleteOverride(p)
  BY <1>0, <1>4 DEF DeleteOverride
<1>5. CASE DeleteRows(p)
  BY <1>0, <1>5 DEF DeleteRows
<1>6. CASE StoreAnalysis(p) /\ s = job[p].s
  <2>1. /\ job[p].op \in {"complete", "reanalyze", "reset", "apply", "remove"}
        /\ job[p].op # "complete" => ride[s].status \in {"completed", "deleted"}
    BY <1>6 DEF StoreAnalysis, Statements, Analyzing, JobsHaveSessions, JobHasSession
  <2>2. ride'[s].status = "completed"
    BY <1>0, <1>6, <2>1 DEF StoreAnalysis, Rides
  <2>3. \A a, b \in ActionsOf(NewAnalysis(p)) : a.seq = b.seq => a = b
    BY <1>6, WriterHasSession, AnalysisTyped DEF StoreAnalysis, Statements
  <2>4. ASSUME NEW a \in actions[s] \ job[p].acts, NEW b \in ActionsOf(NewAnalysis(p)) PROVE a.seq # b.seq
    BY <1>6, <2>4 DEF StoreAnalysis, Conflicts
  <2>5. actions'[s] = (actions[s] \ job[p].acts) \cup ActionsOf(NewAnalysis(p))
    BY <1>0, <1>6 DEF StoreAnalysis
  <2>6. \A a, b \in actions'[s] : a.seq = b.seq => a = b
    BY <1>0, <2>3, <2>4, <2>5
  <2> QED BY <2>2, <2>6
<1>7. CASE StoreAnalysis(p) /\ s # job[p].s
  BY <1>0, <1>7 DEF StoreAnalysis
<1>8. CASE Repair(p)
  BY <1>0, <1>8 DEF Repair
<1>9. CASE ImportFile
  BY <1>0, <1>9 DEF ImportFile
<1>10. CASE ~ Writes(p)
  BY <1>0, <1>10, OthersRead
<1> QED BY <1>1, <1>2, <1>3, <1>4, <1>5, <1>6, <1>7, <1>8, <1>9, <1>10 DEF Writes

-------------------------------------------------------------------------------
(* What a process works on. *)

LEMMA SelectedHasSession ==
  ASSUME SrvTypeOK, NEW p \in Request, NEW s \in Session, NEW statuses, NEW j \in Jobs, NEW next \in Statements,
         Selects(p, s, statuses, j, next), pc'[p] \in Statements
  PROVE  /\ ride[s].status \in statuses /\ pc'[p] = next
         /\ job'[p] = [j EXCEPT !.s = s] /\ UNCHANGED tables
<1>1. p \in Process /\ job \in [Process -> Jobs] /\ pc \in [Process -> Statements \cup AtRest]
  BY DEF SrvTypeOK, Process
<1> QED BY <1>1 DEF Selects, Goto, Statements

LEMMA SelectedFits ==
  ASSUME SrvTypeOK, NEW p \in Request, NEW s \in Session, NEW statuses \in SUBSET {"draft", "completed"},
         NEW j \in Jobs, NEW next \in {"count", "points", "insertOverride", "deleteOverride", "deleteRows"},
         Selects(p, s, statuses, j, next),
         j.rows = {},
         next = "count" => j.op = "upload",
         next = "points" => j.op \in {"complete", "reanalyze", "reset"},
         next = "insertOverride" => j.op = "apply",
         next = "deleteOverride" => j.op = "remove" /\ j.row \in Rows,
         j.op \in {"reanalyze", "reset", "apply", "remove", "repair"} =>
           statuses = {"completed"} \/ ride[s].status = "completed"
  PROVE  JobHasSession(p)'
<1>1. CASE pc'[p] \notin Statements
  BY <1>1 DEF JobHasSession
<1>2. CASE pc'[p] \in Statements
  <2>1. next \in Statements
    BY DEF Statements
  <2>2. ride[s].status \in statuses /\ pc'[p] = next /\ job'[p] = [j EXCEPT !.s = s] /\ ride' = ride
    BY <1>2, <2>1, SelectedHasSession
  <2>3. job'[p].s = s /\ job'[p].op = j.op /\ job'[p].rows = j.rows /\ job'[p].row = j.row
    BY <2>2 DEF Jobs
  <2> QED BY <2>2, <2>3 DEF JobHasSession, Uploading, Analyzing
<1> QED BY <1>1, <1>2

LEMMA CallHasSession ==
  ASSUME SrvTypeOK, NEW p \in Request, NEW s \in Session, Calls(p, s)
  PROVE  JobHasSession(p)'
<1>0. /\ p \in Process /\ pc \in [Process -> Statements \cup AtRest]
      /\ overrides[s] \subseteq Rows /\ actions[s] \subseteq ActionRows
  BY DEF SrvTypeOK, Process
<1>1. CASE CreateSession(p, s)
  BY <1>0, <1>1 DEF CreateSession, Goto, JobHasSession, Statements
<1>2. ASSUME NEW batch \in SUBSET Offset, Upload(p, s, batch) PROVE JobHasSession(p)'
  <2> DEFINE j == [NoJob EXCEPT !.op = "upload", !.batch = batch]
  <2>1. j \in Jobs /\ j.rows = {} /\ j.op = "upload"
    BY DEF NoJob, Jobs, Operations
  <2>2. Selects(p, s, {"draft"}, j, "count")
    BY <1>2 DEF Upload
  <2> HIDE DEF j
  <2> QED BY <2>1, <2>2, SelectedFits
<1>3. ASSUME NEW op \in Operations, NEW next \in {"points", "insertOverride"},
             NEW statuses \in {{"draft"}, {"completed"}}, Selects(p, s, statuses, [NoJob EXCEPT !.op = op], next),
             next = "points" => op \in {"complete", "reanalyze", "reset"},
             next = "insertOverride" => op = "apply",
             op # "complete" => statuses = {"completed"}
      PROVE  JobHasSession(p)'
  <2> DEFINE j == [NoJob EXCEPT !.op = op]
  <2>1. j \in Jobs /\ j.rows = {} /\ j.op = op
    BY DEF NoJob, Jobs
  <2>2. Selects(p, s, statuses, j, next)
    BY <1>3
  <2> HIDE DEF j
  <2> QED BY <1>3, <2>1, <2>2, SelectedFits
<1>4. CASE Complete(p, s)
  BY <1>3, <1>4 DEF Complete, Operations
<1>5. ASSUME NEW o \in BOOLEAN, Reanalyze(p, s, o) PROVE JobHasSession(p)'
  BY <1>3, <1>5 DEF Reanalyze, Operations
<1>6. CASE ApplyOverride(p, s)
  BY <1>3, <1>6 DEF ApplyOverride, Operations
<1>7. ASSUME NEW row \in overrides[s], RemoveOverride(p, s, row) PROVE JobHasSession(p)'
  <2> DEFINE j == [NoJob EXCEPT !.op = "remove", !.row = row]
  <2>1. j \in Jobs /\ j.rows = {} /\ j.op = "remove" /\ j.row \in Rows
    BY <1>0 DEF NoJob, Jobs, Operations
  <2>2. ride[s].status = "completed"
    BY <1>7 DEF SrvTypeOK
  <2>3. Selects(p, s, {"draft", "completed"}, j, "deleteOverride")
    BY <1>7 DEF RemoveOverride
  <2> HIDE DEF j
  <2> QED BY <2>1, <2>2, <2>3, SelectedFits
<1>8. CASE Delete(p, s)
  <2> DEFINE j == [NoJob EXCEPT !.op = "delete", !.seen = actions[s] \cup overrides[s]]
  <2>1. j \in Jobs /\ j.rows = {} /\ j.op = "delete"
    BY <1>0 DEF NoJob, Jobs, Operations
  <2>2. Selects(p, s, {"draft", "completed"}, j, "deleteRows")
    BY <1>8 DEF Delete
  <2> HIDE DEF j
  <2> QED BY <2>1, <2>2, SelectedFits
<1> QED BY <1>1, <1>2, <1>4, <1>5, <1>6, <1>7, <1>8 DEF Calls

LEMMA ProceedsHasSession ==
  ASSUME SrvTypeOK, JobsHaveSessions, NEW p \in Process, StepOf(p), Proceeds(p)
  PROVE  JobHasSession(p)'
<1>0. job \in [Process -> Jobs] /\ pc \in [Process -> Statements \cup AtRest]
  BY DEF SrvTypeOK
<1>1. JobHasSession(p)
  BY DEF JobsHaveSessions
<1>2. pc'[p] \in Statements => pc[p] \in Statements
  BY <1>0 DEF Proceeds, CountPoints, ReadKnown, InsertPoints, InsertOverride, OverrideOrphaned, DeleteOverride,
     Reselect, DeleteRows, DeadlockVictim, ReadPoints, ReadOverrides, AnalyzerRaises, DeleteActions, ActionsWoken,
     DeleteOverrides, OverridesWoken, StoreAnalysis, StoreFails, Repair, RepairFails, Goto, Ends, Aborts, Statements
<1>3. ASSUME pc[p] \in Statements
      PROVE  /\ ride'[job[p].s].status # "none"
             /\ ride[job[p].s].status \in {"completed", "deleted"} =>
                  ride'[job[p].s].status \in {"completed", "deleted"}
  BY <1>1, <1>3, RideMoves DEF JobHasSession
<1>4. CASE pc'[p] \notin Statements
  BY <1>4 DEF JobHasSession
<1>5. CASE pc'[p] \in Statements
  <2>0. /\ pc[p] \in Statements /\ job[p] \in Jobs
        /\ ride'[job[p].s].status # "none"
        /\ ride[job[p].s].status \in {"completed", "deleted"} =>
             ride'[job[p].s].status \in {"completed", "deleted"}
    BY <1>0, <1>2, <1>3, <1>5
  <2>1. CASE CountPoints(p) \/ InsertPoints(p)
    <3>1. job'[p] = job[p] /\ pc[p] \in Uploading /\ pc'[p] \in Uploading
      BY <1>0, <1>5, <2>0, <2>1 DEF CountPoints, InsertPoints, Goto, Ends, Uploading, Statements
    <3> QED BY <1>1, <2>0, <3>1 DEF JobHasSession, Uploading, Analyzing
  <2>2. CASE ReadKnown(p)
    <3>1. /\ job'[p].op = job[p].op /\ job'[p].s = job[p].s /\ job'[p].rows = job[p].rows
          /\ pc[p] \in Uploading /\ pc'[p] \in Uploading
      BY <1>0, <2>0, <2>2 DEF ReadKnown, Goto, Uploading, Jobs
    <3> QED BY <1>1, <2>0, <3>1 DEF JobHasSession, Uploading, Analyzing
  <2>3. CASE InsertOverride(p) \/ DeleteOverride(p)
    <3>1. job'[p] = job[p] /\ pc'[p] = "reselect" /\ pc[p] \in {"insertOverride", "deleteOverride"}
      BY <1>0, <2>3 DEF InsertOverride, DeleteOverride, Goto
    <3> QED BY <1>1, <2>0, <3>1 DEF JobHasSession, Uploading, Analyzing
  <2>4. CASE Reselect(p)
    <3>1. job'[p] = job[p] /\ pc'[p] = "points" /\ pc[p] = "reselect"
      BY <1>0, <1>5, <2>4 DEF Reselect, Goto, Ends, Statements
    <3> QED BY <1>1, <2>0, <3>1 DEF JobHasSession, Uploading, Analyzing
  <2>5. CASE ReadPoints(p)
    <3>1. /\ job'[p].op = job[p].op /\ job'[p].s = job[p].s /\ job'[p].rows = job[p].rows /\ pc[p] = "points"
          /\ pc'[p] = IF job[p].op = "reset" THEN "analyze" ELSE "overrides"
      BY <1>0, <2>0, <2>5 DEF ReadPoints, Goto, Jobs
    <3> QED BY <1>1, <2>0, <3>1 DEF JobHasSession, Uploading, Analyzing
  <2>6. CASE ReadOverrides(p)
    <3>1. job'[p].op = job[p].op /\ job'[p].s = job[p].s /\ pc[p] = "overrides" /\ pc'[p] = "analyze"
      BY <1>0, <2>0, <2>6 DEF ReadOverrides, Goto, Jobs
    <3> QED BY <1>1, <2>0, <3>1 DEF JobHasSession, Uploading, Analyzing
  <2>7. CASE DeleteActions(p) \/ ActionsWoken(p)
    <3>1. /\ job'[p].op = job[p].op /\ job'[p].s = job[p].s /\ job'[p].rows = job[p].rows
          /\ \/ pc[p] \in {"analyze", "actionsWait"} /\ pc'[p] \in {"actionsWait", "deleteOverrides"}
             \/ pc[p] \in {"clear", "clearWaits"} /\ pc'[p] \in {"clearWaits", "repair"}
      BY <1>0, <2>0, <2>7 DEF DeleteActions, ActionsWoken, Goto, Jobs
    <3> QED BY <1>1, <2>0, <3>1 DEF JobHasSession, Uploading, Analyzing
  <2>8. CASE DeleteOverrides(p) \/ OverridesWoken(p)
    <3>1. /\ job'[p].op = job[p].op /\ job'[p].s = job[p].s /\ job'[p].rows = job[p].rows
          /\ pc[p] \in {"deleteOverrides", "overridesWait"} /\ pc'[p] \in {"overridesWait", "store"}
      BY <1>0, <2>0, <2>8 DEF DeleteOverrides, OverridesWoken, Goto, Jobs
    <3> QED BY <1>1, <2>0, <3>1 DEF JobHasSession, Uploading, Analyzing
  <2>9. CASE Aborts(p) \/ Ends(p, "answered") \/ Ends(p, "failed")
    BY <1>0, <1>5, <2>9 DEF Aborts, Ends, Goto, Statements
  <2> QED BY <2>1, <2>2, <2>3, <2>4, <2>5, <2>6, <2>7, <2>8, <2>9
     DEF Proceeds, OverrideOrphaned, DeadlockVictim, AnalyzerRaises, StoreAnalysis, StoreFails, DeleteRows, Repair,
         RepairFails
<1> QED BY <1>4, <1>5

LEMMA CommandHasSession ==
  ASSUME SrvTypeOK, ListedAreCompleted, CommandProceeds \/ \E kind \in {"reanalyze", "import", "repair"} : StartCommand(kind)
  PROVE  JobHasSession(operator)'
<1>0. /\ operator \in Process /\ job \in [Process -> Jobs] /\ pc \in [Process -> Statements \cup AtRest]
      /\ command \in Commands
  BY DEF SrvTypeOK, Process
<1>1. CASE pc'[operator] \notin Statements
  BY <1>1 DEF JobHasSession
<1>2. ASSUME NEW s \in Session, NEW op \in {"reanalyze", "repair"},
             ride[s].status \in {"completed", "deleted"}, UNCHANGED ride,
             job' = [job EXCEPT ![operator] = [NoJob EXCEPT !.op = op, !.s = s]],
             pc'[operator] = IF op = "repair" THEN "clear" ELSE "points"
      PROVE  JobHasSession(operator)'
  <2> DEFINE j == [NoJob EXCEPT !.op = op, !.s = s]
  <2>1. j.s = s /\ j.op = op
    BY DEF NoJob
  <2>2. job'[operator] = j
    BY <1>0, <1>2
  <2> HIDE DEF j
  <2> QED BY <1>2, <2>1, <2>2 DEF JobHasSession, Uploading, Analyzing
<1>3. CASE TakeSession
  <2>1. PICK s \in command.batch :
          job' = [job EXCEPT ![operator] = [NoJob EXCEPT !.op = "reanalyze", !.s = s]]
    BY <1>3 DEF TakeSession
  <2>2. s \in Session /\ ride[s].status \in {"completed", "deleted"}
    BY <1>0, <1>3, <2>1 DEF TakeSession, Running, ListedAreCompleted, Commands
  <2> QED BY <1>0, <1>2, <1>3, <2>1, <2>2 DEF TakeSession, Goto
<1>4. CASE ImportFile /\ pc'[operator] \in Statements
  <2>1. PICK s \in command.batch :
          /\ ride[s].status = "completed" /\ UNCHANGED ride
          /\ job' = [job EXCEPT ![operator] = [NoJob EXCEPT !.op = "repair", !.s = s]]
          /\ Goto(operator, "clear")
    BY <1>0, <1>4 DEF ImportFile, Running, Statements
  <2>2. s \in Session
    BY <1>0, <2>1 DEF Commands
  <2> QED BY <1>0, <1>2, <2>1, <2>2 DEF Goto
<1>5. CASE AnalyzeImported /\ pc'[operator] \in Statements
  <2>1. PICK s \in command.imported :
          /\ job' = [job EXCEPT ![operator] = [NoJob EXCEPT !.op = "reanalyze", !.s = s]]
          /\ Goto(operator, "points")
    BY <1>0, <1>5 DEF AnalyzeImported, Running, Goto, Statements
  <2>2. s \in Session /\ ride[s].status \in {"completed", "deleted"}
    BY <1>0, <2>1 DEF ListedAreCompleted, Commands
  <2> QED BY <1>0, <1>2, <1>5, <2>1, <2>2 DEF AnalyzeImported, Goto
<1>6. CASE ListBatch
  BY <1>0, <1>1, <1>6 DEF ListBatch, Running, Goto, Statements
<1>7. CASE \E kind \in {"reanalyze", "import", "repair"} : StartCommand(kind)
  BY <1>0, <1>1, <1>7 DEF StartCommand, Goto, Statements
<1> QED BY <1>1, <1>3, <1>4, <1>5, <1>6, <1>7 DEF CommandProceeds

LEMMA JobsHaveSessionsStep ==
  ASSUME SrvTypeOK, JobsHaveSessions, ListedAreCompleted, NEW p \in Process, StepOf(p)
  PROVE  JobsHaveSessions'
<1>1. JobHasSession(p)'
  <2>1. CASE Dies(p)
    <3>1. pc \in [Process -> Statements \cup AtRest]
      BY DEF SrvTypeOK
    <3> QED BY <2>1, <3>1 DEF Dies, Aborts, Goto, JobHasSession, Statements
  <2> QED BY <2>1, CallHasSession, ProceedsHasSession, CommandHasSession DEF StepOf
<1>2. ASSUME NEW q \in Process \ {p} PROVE JobHasSession(q)'
  <2>1. pc'[q] = pc[q] /\ job'[q] = job[q] /\ JobHasSession(q)
    BY <1>2, OthersWait DEF JobsHaveSessions
  <2>2. CASE pc[q] \in Statements
    <3>1. job[q].s \in Session /\ ride[job[q].s].status # "none"
      BY <2>1, <2>2 DEF JobHasSession
    <3> QED BY <2>1, <3>1, RideMoves DEF JobHasSession
  <2> QED BY <2>1, <2>2 DEF JobHasSession
<1> QED BY <1>1, <1>2 DEF JobsHaveSessions

(* A list grows by what is waiting and by what the same step completes.     *)
LEMMA ListedStep ==
  ASSUME SrvTypeOK, JobsHaveSessions, ListedAreCompleted, NEW p \in Process, StepOf(p)
  PROVE  ListedAreCompleted' /\ command' \in Commands
<1>0. command \in Commands /\ ride \in [Session -> Rides]
  BY DEF SrvTypeOK
<1>1. \A s \in Session : ride[s].status \in {"completed", "deleted"} => ride'[s].status \in {"completed", "deleted"}
  BY RideMoves
<1>2. CASE UNCHANGED command
  BY <1>0, <1>1, <1>2 DEF ListedAreCompleted, Commands
<1>3. CASE Repair(p)
  <2>1. /\ command' = [command EXCEPT !.imported = @ \cup {job[p].s}]
        /\ ride' = [ride EXCEPT ![job[p].s] = [status |-> "completed", by |-> Nil]]
        /\ job[p].s \in Session
    BY <1>3, WriterHasSession DEF Repair, Statements
  <2>2. /\ command'.imported = command.imported \cup {job[p].s}
        /\ command'.kind = command.kind /\ command'.batch = command.batch
    BY <1>0, <2>1 DEF Commands
  <2>3. command' \in Commands
    BY <1>0, <2>1 DEF Commands
  <2> QED BY <1>0, <1>1, <2>1, <2>2, <2>3 DEF ListedAreCompleted, Commands
<1>4. CASE ListBatch
  <2>1. FirstOf({s \in Session : NeedsReanalysis(s)}, BatchSize) \subseteq {s \in Session : ride[s].status = "completed"}
    BY DEF FirstOf, NeedsReanalysis
  <2>2. CASE UNCHANGED command
    BY <1>2, <2>2
  <2>3. CASE command' = [command EXCEPT !.batch = FirstOf({s \in Session : NeedsReanalysis(s)}, BatchSize) \ command.attempted]
    <3>1. command'.imported = command.imported /\ command'.kind = command.kind
          /\ command'.batch \subseteq {s \in Session : ride[s].status = "completed"}
      BY <1>0, <2>1, <2>3 DEF Commands
    <3>2. command' \in Commands
      BY <1>0, <2>1, <2>3 DEF Commands
    <3>3. UNCHANGED ride
      BY <1>4 DEF ListBatch
    <3> QED BY <1>0, <3>1, <3>2, <3>3 DEF ListedAreCompleted
  <2> QED BY <1>4, <2>2, <2>3 DEF ListBatch
<1>5. CASE TakeSession
  <2>1. PICK s \in command.batch :
          command' = [command EXCEPT !.batch = @ \ {s}, !.attempted = @ \cup {s}]
    BY <1>5 DEF TakeSession
  <2>2. command' \in Commands
    BY <1>0, <2>1 DEF Commands
  <2>3. command'.imported = command.imported /\ command'.kind = command.kind /\ command'.batch \subseteq command.batch
    BY <1>0, <2>1 DEF Commands
  <2>4. UNCHANGED ride
    BY <1>5 DEF TakeSession
  <2> QED BY <2>2, <2>3, <2>4 DEF ListedAreCompleted
<1>6. CASE ImportFile
  <2>1. PICK s \in command.batch :
          \/ /\ command' = [command EXCEPT !.batch = @ \ {s}, !.imported = @ \cup {s}]
             /\ ride' = [ride EXCEPT ![s] = [status |-> "completed", by |-> Nil]]
          \/ /\ command' = [command EXCEPT !.batch = @ \ {s}]
             /\ UNCHANGED ride
    BY <1>6 DEF ImportFile
  <2>2. command.kind # "reanalyze" /\ s \in Session
    BY <1>0, <1>6, <2>1 DEF ImportFile, Running, Commands
  <2>3. CASE /\ command' = [command EXCEPT !.batch = @ \ {s}, !.imported = @ \cup {s}]
             /\ ride' = [ride EXCEPT ![s] = [status |-> "completed", by |-> Nil]]
    <3>1. command' \in Commands
      BY <1>0, <2>2, <2>3 DEF Commands
    <3>2. command'.imported = command.imported \cup {s} /\ command'.kind = command.kind
      BY <1>0, <2>3 DEF Commands
    <3>3. ride'[s].status = "completed"
      BY <1>0, <2>2, <2>3
    <3> QED BY <1>0, <1>1, <2>2, <3>1, <3>2, <3>3 DEF ListedAreCompleted, Commands
  <2>4. CASE command' = [command EXCEPT !.batch = @ \ {s}] /\ UNCHANGED ride
    <3>1. command' \in Commands
      BY <1>0, <2>4 DEF Commands
    <3>2. command'.imported = command.imported /\ command'.kind = command.kind
      BY <1>0, <2>4 DEF Commands
    <3> QED BY <2>2, <2>4, <3>1, <3>2 DEF ListedAreCompleted
  <2> QED BY <2>1, <2>3, <2>4
<1>7. CASE AnalyzeImported
  <2>1. UNCHANGED command \/ \E s \in command.imported : command' = [command EXCEPT !.imported = @ \ {s}]
    BY <1>7 DEF AnalyzeImported
  <2>2. command' \in Commands
    BY <1>0, <2>1 DEF Commands
  <2>3. command'.imported \subseteq command.imported /\ command'.kind = command.kind /\ command'.batch = command.batch
    BY <1>0, <2>1 DEF Commands
  <2>4. UNCHANGED ride
    BY <1>7 DEF AnalyzeImported
  <2> QED BY <2>2, <2>3, <2>4 DEF ListedAreCompleted
<1>8. ASSUME NEW kind \in {"reanalyze", "import", "repair"}, StartCommand(kind)
      PROVE  ListedAreCompleted' /\ command' \in Commands
  <2>1. command'.imported = {} /\ (kind = "reanalyze" => command'.batch = {}) /\ command'.kind = kind
    BY <1>8 DEF StartCommand
  <2>2. command' \in Commands
    BY <1>8, SessionAssumption DEF StartCommand, Commands
  <2> QED BY <2>1, <2>2 DEF ListedAreCompleted
<1>9. CASE Dies(p)
  BY <1>2, <1>9 DEF Dies, Aborts
<1>10. ASSUME NEW s \in Session, Calls(p, s) PROVE UNCHANGED command
  BY <1>10 DEF Calls, CreateSession, Upload, Complete, Reanalyze, ApplyOverride, RemoveOverride, Delete, Selects
<1>11. CASE Proceeds(p)
  <2>1. Repair(p) \/ UNCHANGED command
    BY <1>11 DEF Proceeds, CountPoints, ReadKnown, InsertPoints, InsertOverride, OverrideOrphaned, DeleteOverride,
       Reselect, DeleteRows, DeadlockVictim, ReadPoints, ReadOverrides, AnalyzerRaises, DeleteActions, ActionsWoken,
       DeleteOverrides, OverridesWoken, StoreAnalysis, StoreFails, RepairFails, Aborts
  <2> QED BY <1>2, <1>3, <2>1
<1> QED BY <1>2, <1>4, <1>5, <1>6, <1>7, <1>8, <1>9, <1>10, <1>11 DEF StepOf, CommandProceeds

-------------------------------------------------------------------------------
(* Spans. *)

(* A row is written again with its span.                                    *)
LEMMA RewrittenHasRow ==
  ASSUME NEW p \in Process, NEW rows, NEW r \in Rewritten(p, rows)
  PROVE  \E x \in rows : x.span = r.span
<1> DEFINE same == {x \in rows : x.span = r.span}
<1>1. r.n \in 1..Cardinality(rows) /\ r.n <= Cardinality(same)
  BY DEF Rewritten
<1>2. r.n \in Nat /\ r.n >= 1
  BY <1>1
<1>3. ASSUME same = {}
      PROVE  FALSE
  <2>1. Cardinality(same) = 0
    BY <1>3, FS_EmptySet
  <2> HIDE DEF same
  <2>2. r.n <= 0
    BY <1>1, <2>1
  <2> QED BY <1>2, <2>2
<1> QED BY <1>3

(* What a step of p stores in place of overrides, and what it reads of them. *)
LEMMA SpansMove ==
  ASSUME SrvTypeOK, JobsHaveSessions, NEW p \in Process, StepOf(p), NEW s \in Session, NEW r \in overrides'[s]
  PROVE  \/ r \in overrides[s]
         \/ \E x \in job[p].rows : x.span = r.span
         \/ r.span = p /\ pc'[p] = "reselect"
<1>0. overrides \in [Session -> SUBSET Rows] /\ pc \in [Process -> Statements \cup AtRest]
  BY DEF SrvTypeOK
<1>1. CASE overrides' = overrides
  BY <1>1
<1>2. CASE InsertOverride(p)
  BY <1>0, <1>2 DEF InsertOverride, Goto
<1>3. CASE DeleteOverride(p)
  BY <1>0, <1>3 DEF DeleteOverride
<1>4. CASE DeleteRows(p)
  BY <1>0, <1>4 DEF DeleteRows
<1>5. CASE StoreAnalysis(p)
  <2>1. r \in overrides[s] \/ r \in Rewritten(p, job[p].rows)
    BY <1>0, <1>5 DEF StoreAnalysis
  <2> QED BY <2>1, RewrittenHasRow
<1>6. CASE InsertPoints(p) \/ Repair(p) \/ ImportFile \/ \E t \in Session : CreateSession(p, t)
  BY <1>1, <1>6 DEF InsertPoints, Repair, ImportFile, CreateSession
<1>7. CASE ~ Writes(p)
  BY <1>1, <1>7, OthersRead
<1> QED BY <1>2, <1>3, <1>4, <1>5, <1>6, <1>7 DEF Writes

LEMMA RowsMove ==
  ASSUME SrvTypeOK, JobsHaveSessions, NEW p \in Process, StepOf(p)
  PROVE  \/ job'[p].rows = job[p].rows \/ job'[p].rows = {}
         \/ \E s \in Session : job'[p].rows = overrides[s]
<1>0. job \in [Process -> Jobs] /\ pc \in [Process -> Statements \cup AtRest] /\ job[p] \in Jobs
  BY DEF SrvTypeOK
<1>2. ASSUME Ends(p, "answered") \/ Ends(p, "refused") \/ Ends(p, "failed") \/ Aborts(p) PROVE job'[p].rows = {}
  BY <1>0, <1>2 DEF Ends, Aborts, NoJob
<1>3. ASSUME NEW s \in Session, Calls(p, s) PROVE job'[p].rows \in {job[p].rows, {}}
  <2>1. ASSUME NEW statuses, NEW next, NEW j, Selects(p, s, statuses, j, next), [j EXCEPT !.s = s].rows = {}
        PROVE  job'[p].rows \in {job[p].rows, {}}
    BY <1>0, <2>1 DEF Selects
  <2>2. CASE CreateSession(p, s)
    BY <2>2 DEF CreateSession
  <2>3. ASSUME NEW batch \in SUBSET Offset, Upload(p, s, batch) PROVE job'[p].rows \in {job[p].rows, {}}
    BY <2>1, <2>3 DEF Upload, NoJob
  <2>4. CASE Complete(p, s)
    BY <2>1, <2>4 DEF Complete, NoJob
  <2>5. ASSUME NEW o \in BOOLEAN, Reanalyze(p, s, o) PROVE job'[p].rows \in {job[p].rows, {}}
    BY <2>1, <2>5 DEF Reanalyze, NoJob
  <2>6. CASE ApplyOverride(p, s)
    BY <2>1, <2>6 DEF ApplyOverride, NoJob
  <2>7. ASSUME NEW row \in overrides[s], RemoveOverride(p, s, row) PROVE job'[p].rows \in {job[p].rows, {}}
    <3>1. [[NoJob EXCEPT !.op = "remove", !.row = row] EXCEPT !.s = s].rows = {}
      BY DEF NoJob
    <3> QED BY <2>1, <2>7, <3>1 DEF RemoveOverride
  <2>8. CASE Delete(p, s)
    <3>1. [[NoJob EXCEPT !.op = "delete", !.seen = actions[s] \cup overrides[s]] EXCEPT !.s = s].rows = {}
      BY DEF NoJob
    <3> QED BY <2>1, <2>8, <3>1 DEF Delete
  <2> QED BY <1>3, <2>2, <2>3, <2>4, <2>5, <2>6, <2>7, <2>8 DEF Calls
<1>4. CASE Proceeds(p)
  <2>1. CASE UNCHANGED job
    BY <2>1
  <2>2. CASE ReadOverrides(p)
    <3>1. job[p].s \in Session
      BY <2>2, WriterHasSession DEF ReadOverrides, Statements
    <3> QED BY <1>0, <2>2, <3>1 DEF ReadOverrides, Jobs
  <2>3. CASE ReadKnown(p) \/ ReadPoints(p)
    BY <1>0, <2>3 DEF ReadKnown, ReadPoints, Jobs
  <2>4. CASE DeleteActions(p) \/ ActionsWoken(p)
    BY <1>0, <2>4 DEF DeleteActions, ActionsWoken, Jobs
  <2>5. CASE DeleteOverrides(p) \/ OverridesWoken(p)
    BY <1>0, <2>5 DEF DeleteOverrides, OverridesWoken, Jobs
  <2> QED BY <1>2, <1>4, <2>1, <2>2, <2>3, <2>4, <2>5
     DEF Proceeds, CountPoints, InsertPoints, InsertOverride, OverrideOrphaned, DeleteOverride, Reselect, DeleteRows,
         DeadlockVictim, AnalyzerRaises, StoreAnalysis, StoreFails, Repair, RepairFails
<1>5. CASE Dies(p)
  BY <1>2, <1>5 DEF Dies
<1>6. CASE p = operator /\ CommandProceeds
  <2>1. ASSUME NEW op, NEW s, job' = [job EXCEPT ![operator] = [NoJob EXCEPT !.op = op, !.s = s]]
        PROVE  job'[p].rows = {}
    BY <1>0, <1>6, <2>1 DEF NoJob
  <2>2. CASE UNCHANGED job
    BY <2>2
  <2>3. CASE ListBatch
    BY <2>2, <2>3 DEF ListBatch
  <2>4. CASE TakeSession
    BY <2>1, <2>4 DEF TakeSession
  <2>5. CASE ImportFile
    BY <2>1, <2>2, <2>5 DEF ImportFile
  <2>6. CASE AnalyzeImported
    BY <2>1, <2>2, <2>6 DEF AnalyzeImported
  <2> QED BY <1>6, <2>3, <2>4, <2>5, <2>6 DEF CommandProceeds
<1>7. CASE p = operator /\ \E kind \in {"reanalyze", "import", "repair"} : StartCommand(kind)
  BY <1>7 DEF StartCommand
<1> QED BY <1>3, <1>4, <1>5, <1>6, <1>7 DEF StepOf

(* A request comes to its INSERT from its call alone.                       *)
LEMMA NewSpanMoves ==
  ASSUME SrvTypeOK, NEW p \in Request, StepOf(p), pc'[p] \in {"idle", "insertOverride"}
  PROVE  pc[p] = "idle"
<1>0. p \in Process /\ pc \in [Process -> Statements \cup AtRest] /\ p # operator
  BY SessionAssumption DEF SrvTypeOK, Process
<1>1. ASSUME NEW s \in Session, Calls(p, s) PROVE pc[p] = "idle"
  BY <1>1 DEF Calls, CreateSession, Upload, Complete, Reanalyze, ApplyOverride, RemoveOverride, Delete, Selects
<1>2. CASE Proceeds(p)
  BY <1>0, <1>2 DEF Proceeds, CountPoints, ReadKnown, InsertPoints, InsertOverride, OverrideOrphaned, DeleteOverride,
     Reselect, DeleteRows, DeadlockVictim, ReadPoints, ReadOverrides, AnalyzerRaises, DeleteActions, ActionsWoken,
     DeleteOverrides, OverridesWoken, StoreAnalysis, StoreFails, Repair, RepairFails, Goto, Ends, Aborts
<1>3. CASE Dies(p)
  BY <1>0, <1>3 DEF Dies, Aborts, Goto
<1> QED BY <1>0, <1>1, <1>2, <1>3 DEF StepOf

LEMMA SpansAreNewStep ==
  ASSUME SrvTypeOK, JobsHaveSessions, SpansAreNew, NEW p \in Process, StepOf(p)
  PROVE  SpansAreNew'
<1> SUFFICES ASSUME NEW q \in Request, pc'[q] \in {"idle", "insertOverride"}
             PROVE  /\ \A s \in Session : \A r \in overrides'[s] : r.span # q
                    /\ \A o \in Process : \A r \in job'[o].rows : r.span # q
  BY DEF SpansAreNew
<1>0. q \in Process
  BY DEF Process
<1>1. pc[q] \in {"idle", "insertOverride"}
  BY <1>0, NewSpanMoves, OthersWait
<1>2. /\ \A s \in Session : \A r \in overrides[s] : r.span # q
      /\ \A o \in Process : \A r \in job[o].rows : r.span # q
  BY <1>1 DEF SpansAreNew
<1>3. ASSUME NEW s \in Session, NEW r \in overrides'[s] PROVE r.span # q
  BY <1>2, <1>3, SpansMove
<1>4. ASSUME NEW o \in Process, NEW r \in job'[o].rows PROVE r.span # q
  BY <1>2, <1>4, RowsMove, OthersWait
<1> QED BY <1>3, <1>4

-------------------------------------------------------------------------------
(* Reads. *)

LEMMA MarksMove ==
  ASSUME SrvTypeOK, JobsHaveSessions, NEW p \in Process, StepOf(p)
  PROVE  /\ outdated \ {p} \subseteq outdated' /\ outdated' \subseteq Process
         /\ overlapped \subseteq overlapped' /\ overlapped' \subseteq Session
         /\ unsettled' \subseteq Session
<1>0. outdated \subseteq Process /\ overlapped \subseteq Session /\ unsettled \subseteq Session
  BY DEF SrvTypeOK
<1>1. CASE ~ Writes(p)
  <2>1. UNCHANGED <<overlapped, unsettled>>
    BY <1>1, OthersRead
  <2>2. outdated' \in {outdated, outdated \ {p}}
    <3>1. ASSUME NEW s \in Session, Calls(p, s) PROVE UNCHANGED outdated
      BY <3>1 DEF Calls, CreateSession, Upload, Complete, Reanalyze, ApplyOverride, RemoveOverride, Delete, Selects
    <3>2. CASE Proceeds(p)
      BY <1>1, <3>2 DEF Writes, Proceeds, CountPoints, ReadKnown, OverrideOrphaned, Reselect, DeadlockVictim,
         ReadPoints, ReadOverrides, AnalyzerRaises, DeleteActions, ActionsWoken, DeleteOverrides, OverridesWoken,
         StoreFails, RepairFails, Aborts
    <3>3. CASE Dies(p)
      BY <3>3 DEF Dies, Aborts
    <3>4. CASE CommandProceeds
      BY <1>1, <3>4 DEF Writes, CommandProceeds, ListBatch, TakeSession, AnalyzeImported
    <3>5. CASE \E kind \in {"reanalyze", "import", "repair"} : StartCommand(kind)
      BY <3>5 DEF StartCommand
    <3> QED BY <3>1, <3>2, <3>3, <3>4, <3>5 DEF StepOf
  <2> QED BY <1>0, <2>1, <2>2
<1>2. CASE Writes(p)
  <2>1. CASE \/ ImportFile
             \/ \E s \in Session : CreateSession(p, s)
             \/ InsertPoints(p) /\ UNCHANGED <<overlapped, unsettled>> /\ outdated' \in {outdated, outdated \ {p}}
    BY <1>0, <2>1 DEF ImportFile, CreateSession
  <2>2. ASSUME NEW s \in Session, Commits(p, s), unsettled' \subseteq unsettled \cup {s}
        PROVE  /\ outdated \ {p} \subseteq outdated' /\ outdated' \subseteq Process
               /\ overlapped \subseteq overlapped' /\ overlapped' \subseteq Session
               /\ unsettled' \subseteq Session
    BY <1>0, <2>2 DEF Commits
  <2>3. CASE InsertPoints(p) /\ Commits(p, job[p].s) /\ UNCHANGED unsettled
    <3>1. job[p].s \in Session
      BY <2>3, WriterHasSession DEF InsertPoints, Statements
    <3> QED BY <2>2, <2>3, <3>1
  <2>4. CASE InsertOverride(p) \/ DeleteOverride(p) \/ DeleteRows(p) \/ StoreAnalysis(p) \/ Repair(p)
    <3>1. job[p].s \in Session
      BY <2>4, WriterHasSession DEF InsertOverride, DeleteOverride, DeleteRows, StoreAnalysis, Repair, Statements
    <3>2. Commits(p, job[p].s) /\ unsettled' \subseteq unsettled \cup {job[p].s}
      BY <2>4 DEF InsertOverride, DeleteOverride, DeleteRows, StoreAnalysis, Repair
    <3> QED BY <2>2, <3>1, <3>2
  <2> QED BY <1>2, <2>1, <2>3, <2>4 DEF Writes, InsertPoints
<1> QED BY <1>1, <1>2

(* A commit of what another process has read makes that one outdated.       *)
LEMMA OthersStayFresh ==
  ASSUME SrvTypeOK, JobsHaveSessions, NEW p \in Process, StepOf(p), NEW q \in Process \ {p}, ReadsAreFresh(q)
  PROVE  ReadsAreFresh(q)'
<1>1. pc'[q] = pc[q] /\ job'[q] = job[q]
  BY OthersWait
<1> SUFFICES ASSUME Midway(q), q \notin outdated' PROVE ReadsAreFresh(q)'
  BY <1>1 DEF ReadsAreFresh, Midway
<1>2. q \notin outdated
  BY MarksMove
<1>3. pc[q] \in Statements
  BY DEF Midway, SrvTypeOK, Statements, AtRest
<1>4. job[q].s \in Session /\ ride[job[q].s].status # "none"
  BY <1>3, WriterHasSession
<1>5. ~ Commits(p, job[q].s)
  BY DEF Commits
<1>6. SameRows(job[q].s)
  BY <1>4, <1>5, ChangesAreCommits
<1> QED BY <1>1, <1>2, <1>6 DEF ReadsAreFresh, SameRows, Midway

LEMMA SelectIsFresh ==
  ASSUME SrvTypeOK, NEW p \in Request, NEW s \in Session, NEW statuses, NEW j,
         NEW next \in {"count", "points", "insertOverride", "deleteOverride", "deleteRows"},
         Selects(p, s, statuses, j, next),
         next = "count" => statuses = {"draft"},
         next = "deleteOverride" => [j EXCEPT !.s = s].row \in overrides[s] /\ [j EXCEPT !.s = s].s = s,
         next = "count" => [j EXCEPT !.s = s].s = s
  PROVE  ReadsAreFresh(p)'
<1>0. p \in Process /\ job \in [Process -> Jobs] /\ pc \in [Process -> Statements \cup AtRest]
  BY DEF SrvTypeOK, Process
<1>1. CASE pc'[p] = "refused"
  BY <1>1 DEF ReadsAreFresh, Midway
<1>2. CASE ride[s].status \in statuses /\ pc'[p] = next /\ job'[p] = [j EXCEPT !.s = s] /\ UNCHANGED tables
  BY <1>2 DEF ReadsAreFresh, Midway, Uploading, Analyzing
<1> QED BY <1>0, <1>1, <1>2 DEF Selects, Goto

LEMMA CallIsFresh ==
  ASSUME SrvTypeOK, NEW p \in Request, NEW s \in Session, Calls(p, s)
  PROVE  ReadsAreFresh(p)'
<1>0. p \in Process /\ pc \in [Process -> Statements \cup AtRest]
  BY DEF SrvTypeOK, Process
<1>1. CASE CreateSession(p, s)
  BY <1>0, <1>1 DEF CreateSession, Goto, ReadsAreFresh, Midway
<1>2. ASSUME NEW batch \in SUBSET Offset, Upload(p, s, batch) PROVE ReadsAreFresh(p)'
  <2>1. [[NoJob EXCEPT !.op = "upload", !.batch = batch] EXCEPT !.s = s].s = s
    BY DEF NoJob
  <2> QED BY <1>2, <2>1, SelectIsFresh DEF Upload
<1>3. CASE Complete(p, s) \/ ApplyOverride(p, s) \/ Delete(p, s)
  BY <1>3, SelectIsFresh DEF Complete, ApplyOverride, Delete
<1>4. ASSUME NEW o \in BOOLEAN, Reanalyze(p, s, o) PROVE ReadsAreFresh(p)'
  BY <1>4, SelectIsFresh DEF Reanalyze
<1>5. ASSUME NEW row \in overrides[s], RemoveOverride(p, s, row) PROVE ReadsAreFresh(p)'
  <2> DEFINE j == [[NoJob EXCEPT !.op = "remove", !.row = row] EXCEPT !.s = s]
  <2>1. j.s = s /\ j.row = row
    BY DEF NoJob
  <2> QED BY <1>5, <2>1, SelectIsFresh DEF RemoveOverride
<1> QED BY <1>1, <1>2, <1>3, <1>4, <1>5 DEF Calls

LEMMA ProceedsIsFresh ==
  ASSUME SrvTypeOK, JobsHaveSessions, NEW p \in Process, ReadsAreFresh(p), StepOf(p), Proceeds(p)
  PROVE  ReadsAreFresh(p)'
<1>0. job \in [Process -> Jobs] /\ pc \in [Process -> Statements \cup AtRest] /\ job[p] \in Jobs
  BY DEF SrvTypeOK
<1>1. CASE ~ Midway(p)'
  BY <1>1 DEF ReadsAreFresh
<1>2. CASE CountPoints(p) /\ Midway(p)'
  <2>1. pc[p] = "count" /\ pc'[p] = "known" /\ UNCHANGED <<job, outdated, tables>>
    BY <1>0, <1>2 DEF CountPoints, Goto, Ends, Midway
  <2> QED BY <2>1 DEF ReadsAreFresh, Midway, Uploading, Analyzing
<1>3. CASE ReadKnown(p)
  <2>1. /\ pc[p] \in {"known", "knownAgain"} /\ pc'[p] \in {"insert", "insertAgain"}
        /\ job'[p].s = job[p].s /\ UNCHANGED <<outdated, tables>>
    BY <1>0, <1>3 DEF ReadKnown, Goto, Jobs
  <2> QED BY <2>1 DEF ReadsAreFresh, Midway, Uploading, Analyzing
<1>4. CASE InsertPoints(p) /\ Midway(p)'
  <2>1. /\ pc[p] = "insert" /\ pc'[p] = "knownAgain" /\ UNCHANGED <<job, outdated, tables>>
    BY <1>0, <1>4 DEF InsertPoints, Goto, Ends, Midway
  <2> QED BY <2>1 DEF ReadsAreFresh, Midway, Uploading, Analyzing
<1>5. CASE ReadPoints(p)
  <2>1. /\ pc[p] = "points" /\ pc'[p] = IF job[p].op = "reset" THEN "analyze" ELSE "overrides"
        /\ job'[p].s = job[p].s /\ job'[p].op = job[p].op /\ job'[p].rows = job[p].rows
        /\ job'[p].points = points[job[p].s] /\ UNCHANGED tables
    BY <1>0, <1>5 DEF ReadPoints, Goto, Jobs
  <2>2. job[p].op = "reset" => job[p].rows = {}
    BY <2>1 DEF JobsHaveSessions, JobHasSession, Statements
  <2> QED BY <2>1, <2>2 DEF ReadsAreFresh, Midway, Uploading, Analyzing
<1>6. CASE ReadOverrides(p)
  <2>1. /\ pc[p] = "overrides" /\ pc'[p] = "analyze"
        /\ job'[p].s = job[p].s /\ job'[p].op = job[p].op /\ job'[p].points = job[p].points
        /\ job'[p].rows = overrides[job[p].s] /\ UNCHANGED <<outdated, tables>>
    BY <1>0, <1>6 DEF ReadOverrides, Goto, Jobs
  <2>2. job[p].op # "reset"
    BY <2>1 DEF JobsHaveSessions, JobHasSession, Statements
  <2> QED BY <2>1, <2>2 DEF ReadsAreFresh, Midway, Uploading, Analyzing
<1>7. CASE DeleteActions(p)
  <2>1. /\ job'[p].s = job[p].s /\ job'[p].op = job[p].op /\ job'[p].points = job[p].points
        /\ job'[p].rows = job[p].rows /\ UNCHANGED <<outdated, tables>>
        /\ \/ pc[p] = "analyze" /\ pc'[p] = "actionsWait" /\ job'[p].seen = actions[job[p].s]
           \/ pc[p] = "analyze" /\ pc'[p] = "deleteOverrides" /\ job'[p].acts = actions[job[p].s]
           \/ pc[p] = "clear" /\ pc'[p] = "clearWaits" /\ job'[p].seen = actions[job[p].s]
           \/ pc[p] = "clear" /\ pc'[p] = "repair" /\ job'[p].acts = actions[job[p].s]
    BY <1>0, <1>7 DEF DeleteActions, Goto, Jobs
  <2> QED BY <2>1 DEF ReadsAreFresh, Midway, Uploading, Analyzing
<1>8. CASE ActionsWoken(p)
  <2>1. /\ job'[p].s = job[p].s /\ job'[p].op = job[p].op /\ job'[p].points = job[p].points
        /\ job'[p].rows = job[p].rows /\ UNCHANGED <<outdated, tables>>
        /\ job'[p].acts = job[p].seen \cap actions[job[p].s]
        /\ \/ pc[p] = "actionsWait" /\ pc'[p] = "deleteOverrides"
           \/ pc[p] = "clearWaits" /\ pc'[p] = "repair"
    BY <1>0, <1>8 DEF ActionsWoken, Goto, Jobs
  <2> QED BY <2>1 DEF ReadsAreFresh, Midway, Uploading, Analyzing
<1>9. CASE DeleteOverrides(p)
  <2>1. /\ job'[p].s = job[p].s /\ job'[p].op = job[p].op /\ job'[p].points = job[p].points
        /\ job'[p].rows = job[p].rows /\ job'[p].acts = job[p].acts /\ UNCHANGED <<outdated, tables>>
        /\ pc[p] = "deleteOverrides"
        /\ \/ pc'[p] = "overridesWait" /\ job'[p].seen = overrides[job[p].s]
           \/ pc'[p] = "store" /\ job'[p].ovs = overrides[job[p].s]
    BY <1>0, <1>9 DEF DeleteOverrides, Goto, Jobs
  <2> QED BY <2>1 DEF ReadsAreFresh, Midway, Uploading, Analyzing
<1>10. CASE OverridesWoken(p)
  <2>1. /\ job'[p].s = job[p].s /\ job'[p].op = job[p].op /\ job'[p].points = job[p].points
        /\ job'[p].rows = job[p].rows /\ job'[p].acts = job[p].acts /\ UNCHANGED <<outdated, tables>>
        /\ job'[p].ovs = job[p].seen \cap overrides[job[p].s]
        /\ pc[p] = "overridesWait" /\ pc'[p] = "store"
    BY <1>0, <1>10 DEF OverridesWoken, Goto, Jobs
  <2> QED BY <2>1 DEF ReadsAreFresh, Midway, Uploading, Analyzing
<1>11. CASE \/ InsertOverride(p) \/ DeleteOverride(p) \/ Reselect(p)
            \/ Aborts(p) \/ Ends(p, "answered") \/ Ends(p, "failed")
  BY <1>0, <1>1, <1>11 DEF InsertOverride, DeleteOverride, Reselect, Aborts, Ends, Goto, Midway
<1> QED BY <1>1, <1>2, <1>3, <1>4, <1>5, <1>6, <1>7, <1>8, <1>9, <1>10, <1>11
   DEF Proceeds, OverrideOrphaned, DeadlockVictim, AnalyzerRaises, StoreAnalysis, StoreFails, DeleteRows, Repair,
       RepairFails

LEMMA FreshReadsStep ==
  ASSUME SrvTypeOK, JobsHaveSessions, FreshReads, NEW p \in Process, StepOf(p)
  PROVE  FreshReads'
<1>0. pc \in [Process -> Statements \cup AtRest]
  BY DEF SrvTypeOK
<1>1. ASSUME NEW q \in Process \ {p} PROVE ReadsAreFresh(q)'
  BY <1>1, OthersStayFresh DEF FreshReads
<1>2. ReadsAreFresh(p)'
  <2>1. CASE \E s \in Session : p \in Request /\ Calls(p, s)
    BY <2>1, CallIsFresh
  <2>2. CASE Proceeds(p)
    BY <2>2, ProceedsIsFresh DEF FreshReads
  <2>3. CASE Dies(p)
    BY <1>0, <2>3 DEF Dies, Aborts, Goto, ReadsAreFresh, Midway
  <2>4. CASE p = operator /\ CommandProceeds
    <3>1. pc'[p] \in {pc[p], "next", "ended", "points", "clear"} /\ pc[p] = "next"
      BY <1>0, <2>4 DEF CommandProceeds, ListBatch, TakeSession, ImportFile, AnalyzeImported, Running, Goto
    <3> QED BY <3>1 DEF ReadsAreFresh, Midway, Uploading, Analyzing
  <2>5. CASE p = operator /\ \E kind \in {"reanalyze", "import", "repair"} : StartCommand(kind)
    BY <1>0, <2>5 DEF StartCommand, Goto, ReadsAreFresh, Midway
  <2> QED BY <2>1, <2>2, <2>3, <2>4, <2>5 DEF StepOf
<1> QED BY <1>1, <1>2 DEF FreshReads

-------------------------------------------------------------------------------
(* Overrides. *)

OneEach(rows) == \A r, q \in rows : r.span = q.span => r = q

LEMMA OneRowEach ==
  ASSUME NEW rows, IsFiniteSet(SpansOf(rows)), OneEach(rows)
  PROVE  IsFiniteSet(rows) /\ Cardinality(rows) = Cardinality(SpansOf(rows))
<1> DEFINE f == [r \in rows |-> r.span]
<1>1. f \in Injection(rows, SpansOf(rows)) /\ f \in Surjection(rows, SpansOf(rows))
  BY DEF Injection, Surjection, IsInjective, SpansOf, OneEach
<1> HIDE DEF f
<1> QED BY <1>1, FS_Injection

(* Rows of one each are written again as rows of one each of these spans.   *)
LEMMA RewrittenKeeps ==
  ASSUME NEW p \in Process, NEW rows \in SUBSET Rows, IsFiniteSet(rows), OneEach(rows)
  PROVE  SpansOf(Rewritten(p, rows)) = SpansOf(rows) /\ OneEach(Rewritten(p, rows))
<1>1. Cardinality(rows) \in Nat
  BY FS_CardinalityType
<1>2. ASSUME NEW x \in rows PROVE {q \in rows : q.span = x.span} = {x}
  BY DEF OneEach
<1>3. ASSUME NEW r \in Rewritten(p, rows) PROVE r = [span |-> r.span, by |-> p, n |-> 1]
  <2>1. PICK x \in rows : x.span = r.span
    BY RewrittenHasRow
  <2>2. Cardinality({q \in rows : q.span = r.span}) = 1
    <3>1. {q \in rows : q.span = r.span} = {x}
      BY <1>2, <2>1
    <3>2. Cardinality({x}) = 1
      BY FS_Singleton
    <3> QED BY <3>1, <3>2
  <2>3. /\ r.n \in 1..Cardinality(rows) /\ r.n <= Cardinality({q \in rows : q.span = r.span})
        /\ r = [span |-> r.span, by |-> p, n |-> r.n]
    BY DEF Rewritten
  <2>4. r.n = 1
    BY <1>1, <2>2, <2>3
  <2> QED BY <2>3, <2>4
<1>4. ASSUME NEW x \in rows PROVE [span |-> x.span, by |-> p, n |-> 1] \in Rewritten(p, rows)
  <2> DEFINE r == [span |-> x.span, by |-> p, n |-> 1]
  <2>1. Cardinality({q \in rows : q.span = r.span}) = 1
    <3>1. {q \in rows : q.span = r.span} = {x}
      BY <1>2
    <3>2. Cardinality({x}) = 1
      BY FS_Singleton
    <3> QED BY <3>1, <3>2
  <2>2. 1 \in 1..Cardinality(rows)
    <3>1. Cardinality(rows) # 0
      BY FS_EmptySet
    <3> QED BY <1>1, <3>1
  <2>3. r \in [span : Span, by : {p}, n : 1..Cardinality(rows)]
    BY <2>2 DEF Rows
  <2>4. r.n <= Cardinality({q \in rows : q.span = r.span})
    BY <2>1
  <2> HIDE DEF r
  <2>5. r \in Rewritten(p, rows)
    BY <2>3, <2>4 DEF Rewritten
  <2> QED BY <2>5 DEF r
<1>5. SpansOf(Rewritten(p, rows)) \subseteq SpansOf(rows)
  BY RewrittenHasRow DEF SpansOf
<1>6. SpansOf(rows) \subseteq SpansOf(Rewritten(p, rows))
  <2> SUFFICES ASSUME NEW x \in rows PROVE \E r \in Rewritten(p, rows) : r.span = x.span
    BY DEF SpansOf
  <2> QED BY <1>4
<1>7. OneEach(Rewritten(p, rows))
  BY <1>3 DEF OneEach
<1> QED BY <1>5, <1>6, <1>7

(* What a process that is not outdated stores with its analysis.            *)
LEMMA FreshStore ==
  ASSUME SrvInv, NEW p \in Process, StoreAnalysis(p), p \notin outdated
  PROVE  LET s == job[p].s
         IN /\ s \in Session /\ job[p].points = points[s]
            /\ job[p].rows = IF job[p].op = "reset" THEN {} ELSE overrides[s]
            /\ actions'[s] = ActionsOf(NewAnalysis(p)) /\ ride'[s].by = NewAnalysis(p)
            /\ overrides'[s] = Rewritten(p, job[p].rows)
            /\ \A r \in Session \ {s} :
                 ride'[r] = ride[r] /\ actions'[r] = actions[r] /\ overrides'[r] = overrides[r]
<1>1. job[p].s \in Session /\ job[p].acts = actions[job[p].s] /\ job[p].ovs = overrides[job[p].s]
      /\ job[p].points = points[job[p].s]
      /\ job[p].rows = IF job[p].op = "reset" THEN {} ELSE overrides[job[p].s]
  <2>1. pc[p] = "store"
    BY DEF StoreAnalysis
  <2>2. job[p].s \in Session
    BY <2>1, WriterHasSession DEF SrvInv, Statements
  <2> QED BY <2>1, <2>2 DEF SrvInv, FreshReads, ReadsAreFresh, Midway, Analyzing
<1>2. ride \in [Session -> Rides] /\ actions \in [Session -> SUBSET ActionRows] /\ overrides \in [Session -> SUBSET Rows]
  BY DEF SrvInv, SrvTypeOK
<1>3. ride'[job[p].s].by = NewAnalysis(p)
  BY <1>1, <1>2 DEF StoreAnalysis, Rides
<1>4. actions'[job[p].s] = ActionsOf(NewAnalysis(p))
  BY <1>1, <1>2 DEF StoreAnalysis
<1>5. overrides'[job[p].s] = Rewritten(p, job[p].rows)
  BY <1>1, <1>2 DEF StoreAnalysis
<1>6. \A r \in Session \ {job[p].s} :
        ride'[r] = ride[r] /\ actions'[r] = actions[r] /\ overrides'[r] = overrides[r]
  BY <1>1, <1>2 DEF StoreAnalysis
<1> QED BY <1>1, <1>3, <1>4, <1>5, <1>6

(* A step that writes a session without marking it is not outdated.         *)
LEMMA UnmarkedIsFresh ==
  ASSUME NEW p \in Process, NEW s, Commits(p, s), s \notin overlapped'
  PROVE  p \notin outdated
BY DEF Commits

OneRow(s) ==
  /\ IsFiniteSet(wanted[s])
  /\ SpansOf(overrides[s]) = wanted[s]
  /\ OneEach(overrides[s])

LEMMA OneRowStep ==
  ASSUME SrvInv, NEW p \in Process, StepOf(p), NEW s \in Session, s \notin overlapped'
  PROVE  OneRow(s)'
<1>0. /\ overrides \in [Session -> SUBSET Rows] /\ wanted \in [Session -> SUBSET Span]
      /\ SrvTypeOK /\ JobsHaveSessions
  BY DEF SrvInv, SrvTypeOK
<1>1. s \notin overlapped
  BY <1>0, MarksMove
<1>2. OneRow(s)
  BY <1>1 DEF SrvInv, OneRowPerSpan, OneRow, OneEach
<1>3. CASE overrides'[s] = overrides[s] /\ wanted'[s] = wanted[s]
  BY <1>2, <1>3 DEF OneRow
<1>4. CASE InsertOverride(p) /\ s = job[p].s
  <2> DEFINE row == [span |-> p, by |-> p, n |-> 0]
  <2>1. overrides'[s] = overrides[s] \cup {row} /\ wanted'[s] = wanted[s] \cup {p} /\ row.span = p
    BY <1>0, <1>4 DEF InsertOverride
  <2>2. p \in Request /\ pc[p] = "insertOverride"
    BY <1>0, <1>4 DEF InsertOverride, JobsHaveSessions, JobHasSession, Statements
  <2>3. \A r \in overrides[s] : r.span # p
    BY <2>2 DEF SrvInv, SpansAreNew
  <2> HIDE DEF row
  <2>4. SpansOf(overrides'[s]) = wanted'[s]
    BY <1>2, <2>1 DEF SpansOf, OneRow
  <2>5. OneEach(overrides'[s])
    BY <1>2, <2>1, <2>3 DEF OneEach, OneRow
  <2>6. IsFiniteSet(wanted'[s])
    BY <1>2, <2>1, FS_AddElement DEF OneRow
  <2> QED BY <2>4, <2>5, <2>6 DEF OneRow
<1>5. CASE DeleteOverride(p) /\ s = job[p].s
  <2>1. overrides'[s] = overrides[s] \ {job[p].row} /\ wanted'[s] = wanted[s] \ {job[p].row.span}
    BY <1>0, <1>5 DEF DeleteOverride
  <2>2. p \notin outdated
    BY <1>5, UnmarkedIsFresh DEF DeleteOverride
  <2>3. job[p].row \in overrides[s]
    BY <1>5, <2>2 DEF DeleteOverride, SrvInv, FreshReads, ReadsAreFresh, Midway
  <2>4. SpansOf(overrides'[s]) = wanted'[s]
    BY <1>2, <2>1, <2>3 DEF SpansOf, OneRow, OneEach
  <2>5. OneEach(overrides'[s])
    BY <1>2, <2>1 DEF OneEach, OneRow
  <2>6. IsFiniteSet(wanted'[s])
    <3>1. IsFiniteSet(wanted[s]) /\ wanted'[s] \in SUBSET wanted[s]
      BY <1>2, <2>1 DEF OneRow
    <3> QED BY <3>1, FS_Subset
  <2> QED BY <2>4, <2>5, <2>6 DEF OneRow
<1>6. CASE overrides'[s] = {} /\ wanted'[s] = {}
  BY <1>6, FS_EmptySet DEF OneRow, OneEach, SpansOf
<1>7. CASE StoreAnalysis(p) /\ s = job[p].s
  <2>1. p \notin outdated
    BY <1>7, UnmarkedIsFresh DEF StoreAnalysis
  <2>2. /\ job[p].rows = IF job[p].op = "reset" THEN {} ELSE overrides[s]
        /\ overrides'[s] = Rewritten(p, job[p].rows)
    BY <1>7, <2>1, FreshStore
  <2>3. wanted'[s] = IF job[p].op = "reset" THEN {} ELSE wanted[s]
    BY <1>0, <1>7 DEF StoreAnalysis
  <2>4. job[p].rows \in SUBSET Rows /\ IsFiniteSet(job[p].rows) /\ OneEach(job[p].rows)
    <3>1. IsFiniteSet(overrides[s]) /\ OneEach(overrides[s])
      BY <1>2, OneRowEach DEF OneRow
    <3>2. IsFiniteSet({}) /\ OneEach({})
      BY FS_EmptySet DEF OneEach
    <3> QED BY <1>0, <2>2, <3>1, <3>2
  <2>5. SpansOf(overrides'[s]) = SpansOf(job[p].rows) /\ OneEach(overrides'[s])
    BY <2>2, <2>4, RewrittenKeeps
  <2>6. SpansOf(job[p].rows) = wanted'[s]
    <3>1. SpansOf({}) = {}
      BY DEF SpansOf
    <3> QED BY <1>2, <2>2, <2>3, <3>1 DEF OneRow
  <2>7. IsFiniteSet(wanted'[s])
    BY <1>2, <2>3, FS_EmptySet DEF OneRow
  <2> QED BY <2>5, <2>6, <2>7 DEF OneRow
<1>8. CASE InsertOverride(p) \/ DeleteOverride(p) \/ DeleteRows(p) \/ StoreAnalysis(p)
  <2>1. CASE s # job[p].s
    <3>1. overrides'[s] = overrides[s] /\ wanted'[s] = wanted[s]
      BY <1>0, <1>8, <2>1 DEF InsertOverride, DeleteOverride, DeleteRows, StoreAnalysis
    <3> QED BY <1>3, <3>1
  <2>2. CASE DeleteRows(p) /\ s = job[p].s
    BY <1>0, <1>6, <2>2 DEF DeleteRows
  <2> QED BY <1>4, <1>5, <1>7, <1>8, <2>1, <2>2
<1>9. CASE InsertPoints(p) \/ Repair(p) \/ ImportFile \/ \E t \in Session : CreateSession(p, t)
  BY <1>3, <1>9 DEF InsertPoints, Repair, ImportFile, CreateSession
<1>10. CASE ~ Writes(p)
  BY <1>3, <1>10, OthersRead
<1> QED BY <1>8, <1>9, <1>10 DEF Writes

-------------------------------------------------------------------------------
(* Points and analyses. *)

(* What the answers of the uploads report is what is stored.                *)
LEMMA AcceptedStep ==
  ASSUME SrvInv, NEW p \in Process, StepOf(p)
  PROVE  AcceptedIsStored'
<1>0. /\ points \in [Session -> SUBSET Offset] /\ accepted \in [Session -> Int]
      /\ SrvTypeOK /\ JobsHaveSessions /\ AcceptedIsStored
  BY DEF SrvInv, SrvTypeOK
<1>1. CASE UNCHANGED <<accepted, points>>
  BY <1>0, <1>1 DEF AcceptedIsStored
<1>2. CASE InsertPoints(p)
  <2> DEFINE s == job[p].s
             new == job[p].batch \ job[p].known
  <2>1. CASE /\ new \cap points[s] = {}
             /\ points' = [points EXCEPT ![s] = @ \cup new]
             /\ accepted' = [accepted EXCEPT ![s] = @ + Cardinality(new)]
    <3>1. s \in Session /\ new \subseteq Offset /\ points[s] \subseteq Offset
      BY <1>0, <1>2, WriterHasSession DEF InsertPoints, Statements
    <3>2. IsFiniteSet(new) /\ IsFiniteSet(points[s])
      BY <3>1, SessionAssumption, FS_Subset
    <3>3. Cardinality(points[s] \cup new) = Cardinality(points[s]) + Cardinality(new)
      <4> HIDE DEF new, s
      <4>1. Cardinality(points[s] \cap new) = 0
        BY <2>1, FS_EmptySet
      <4>2. Cardinality(points[s]) \in Nat /\ Cardinality(new) \in Nat
        BY <3>2, FS_CardinalityType
      <4>3. Cardinality(points[s] \cup new)
              = Cardinality(points[s]) + Cardinality(new) - Cardinality(points[s] \cap new)
        BY <3>2, FS_Union
      <4> QED BY <4>1, <4>2, <4>3
    <3> HIDE DEF new, s
    <3> QED BY <1>0, <2>1, <3>1, <3>3 DEF AcceptedIsStored
  <2> QED BY <1>1, <1>2, <2>1 DEF InsertPoints
<1>3. CASE InsertOverride(p) \/ DeleteOverride(p) \/ StoreAnalysis(p) \/ \E s \in Session : CreateSession(p, s)
  BY <1>1, <1>3 DEF InsertOverride, DeleteOverride, StoreAnalysis, CreateSession
<1>4. CASE DeleteRows(p)
  BY <1>0, <1>4, FS_EmptySet DEF DeleteRows, AcceptedIsStored
<1>5. CASE Repair(p)
  BY <1>0, <1>5 DEF Repair, AcceptedIsStored
<1>6. CASE ImportFile
  BY <1>0, <1>1, <1>6 DEF ImportFile, AcceptedIsStored
<1>7. CASE ~ Writes(p)
  BY <1>1, <1>7, OthersRead
<1> QED BY <1>2, <1>3, <1>4, <1>5, <1>6, <1>7 DEF Writes

Analyzed(s) ==
  /\ actions[s] = IF ride[s].by = Nil THEN {} ELSE ActionsOf(ride[s].by)
  /\ ride[s].status = "completed" /\ ~ NeedsReanalysis(s) /\ s \notin unsettled =>
       ride[s].by = Analysis("current", points[s], SpansOf(overrides[s]))

LEMMA AnalyzedStep ==
  ASSUME SrvInv, NEW p \in Process, StepOf(p), NEW s \in Session, s \notin overlapped'
  PROVE  Analyzed(s)'
<1>0. /\ ride \in [Session -> Rides] /\ points \in [Session -> SUBSET Offset]
      /\ actions \in [Session -> SUBSET ActionRows] /\ overrides \in [Session -> SUBSET Rows]
      /\ SrvTypeOK /\ JobsHaveSessions
  BY DEF SrvInv, SrvTypeOK
<1>1. s \notin overlapped
  BY <1>0, MarksMove
<1>2. Analyzed(s)
  BY <1>1 DEF SrvInv, AnalysisIsOfStoredData, Analyzed
<1>3. CASE SameRows(s) /\ (s \in unsettled => s \in unsettled')
  BY <1>2, <1>3 DEF Analyzed, SameRows, NeedsReanalysis
<1>4. CASE StoreAnalysis(p) /\ s = job[p].s
  <2>1. p \notin outdated
    BY <1>4, UnmarkedIsFresh DEF StoreAnalysis
  <2>2. /\ job[p].points = points[s] /\ job[p].rows = IF job[p].op = "reset" THEN {} ELSE overrides[s]
        /\ actions'[s] = ActionsOf(NewAnalysis(p)) /\ ride'[s].by = NewAnalysis(p)
        /\ overrides'[s] = Rewritten(p, job[p].rows)
    BY <1>4, <2>1, FreshStore
  <2>3. NewAnalysis(p) # Nil
    <3>1. NewAnalysis(p) \in Analyses
      BY <1>0, <1>4, WriterHasSession, AnalysisTyped DEF StoreAnalysis, Statements
    <3> QED BY <3>1, SessionAssumption DEF Analyses, Span
  <2>4. SpansOf(overrides'[s]) = SpansOf(job[p].rows)
    <3>1. CASE job[p].op = "reset"
      <4>1. SpansOf(Rewritten(p, {})) = {} /\ SpansOf({}) = {}
        BY RewrittenHasRow DEF SpansOf
      <4> QED BY <2>2, <3>1, <4>1
    <3>2. CASE job[p].op # "reset"
      <4>1. IsFiniteSet(overrides[s]) /\ OneEach(overrides[s])
        BY <1>1, OneRowEach DEF SrvInv, OneRowPerSpan, OneEach
      <4> QED BY <1>0, <2>2, <3>2, <4>1, RewrittenKeeps
    <3> QED BY <3>1, <3>2
  <2>5. UNCHANGED points
    BY <1>4 DEF StoreAnalysis
  <2> QED BY <2>2, <2>3, <2>4, <2>5 DEF Analyzed, NewAnalysis
<1>5. CASE StoreAnalysis(p) /\ s # job[p].s
  BY <1>0, <1>3, <1>5 DEF StoreAnalysis, SameRows
<1>6. CASE InsertPoints(p)
  <2>1. CASE UNCHANGED <<tables, unsettled>>
    BY <1>3, <2>1 DEF SameRows
  <2>2. CASE /\ points' = [points EXCEPT ![job[p].s] = @ \cup (job[p].batch \ job[p].known)]
             /\ Commits(p, job[p].s) /\ UNCHANGED <<ride, actions, overrides, unsettled>>
    <3>1. CASE s = job[p].s
      <4>1. p \notin outdated
        BY <2>2, <3>1, UnmarkedIsFresh
      <4>2. ride[s].status = "draft"
        BY <1>6, <3>1, <4>1 DEF InsertPoints, SrvInv, FreshReads, ReadsAreFresh, Midway, Uploading
      <4> QED BY <1>2, <2>2, <4>2 DEF Analyzed, NeedsReanalysis
    <3>2. CASE s # job[p].s
      BY <1>0, <1>3, <2>2, <3>2 DEF SameRows
    <3> QED BY <3>1, <3>2
  <2> QED BY <1>6, <2>1, <2>2 DEF InsertPoints
<1>7. CASE InsertOverride(p) \/ DeleteOverride(p)
  BY <1>0, <1>2, <1>3, <1>7 DEF InsertOverride, DeleteOverride, Analyzed, SameRows
<1>8. CASE DeleteRows(p)
  BY <1>0, <1>2, <1>3, <1>8 DEF DeleteRows, Analyzed, SameRows
<1>9. CASE Repair(p) /\ s = job[p].s
  <2>1. p \notin outdated
    BY <1>9, UnmarkedIsFresh DEF Repair
  <2>2. job[p].acts = actions[s]
    BY <1>9, <2>1 DEF Repair, SrvInv, FreshReads, ReadsAreFresh, Midway
  <2>3. ride'[s] = [status |-> "completed", by |-> Nil] /\ actions'[s] = {}
    BY <1>0, <1>9, <2>2 DEF Repair
  <2> QED BY <2>3 DEF Analyzed, NeedsReanalysis
<1>10. CASE Repair(p) /\ s # job[p].s
  BY <1>0, <1>3, <1>10 DEF Repair, SameRows
<1>11. ASSUME NEW t \in Session, ride[t].status = "none", UNCHANGED <<actions, overrides, unsettled>>,
              ride' = [ride EXCEPT ![t].status = "draft"] \/ ride' = [ride EXCEPT ![t] = [status |-> "completed", by |-> Nil]],
              \A r \in Session \ {t} : points'[r] = points[r]
       PROVE  Analyzed(s)'
  <2>1. CASE s = t
    <3>1. ride[s].by = Nil /\ actions[s] = {}
      BY <1>0, <1>11, <2>1 DEF SrvTypeOK
    <3>2. ride'[s].by = Nil
      BY <1>0, <1>11, <2>1, <3>1 DEF Rides
    <3> QED BY <1>11, <3>1, <3>2 DEF Analyzed, NeedsReanalysis
  <2>2. CASE s # t
    BY <1>0, <1>3, <1>11, <2>2 DEF SameRows
  <2> QED BY <2>1, <2>2
<1>12. CASE ImportFile
  <2>1. PICK t \in command.batch :
          \/ /\ ride[t].status = "none" /\ ride' = [ride EXCEPT ![t] = [status |-> "completed", by |-> Nil]]
             /\ points' = [points EXCEPT ![t] = FilePoints] /\ UNCHANGED <<actions, overrides, unsettled>>
          \/ UNCHANGED <<tables, unsettled>>
    BY <1>12 DEF ImportFile
  <2>2. t \in Session
    BY <1>0 DEF SrvTypeOK, Commands
  <2>3. CASE UNCHANGED <<tables, unsettled>>
    BY <1>3, <2>3 DEF SameRows
  <2> QED BY <1>0, <1>11, <2>1, <2>2, <2>3
<1>13. ASSUME NEW t \in Session, CreateSession(p, t) PROVE Analyzed(s)'
  BY <1>11, <1>13 DEF CreateSession
<1>14. CASE ~ Writes(p)
  BY <1>3, <1>14, OthersRead DEF SameRows
<1> QED BY <1>4, <1>5, <1>6, <1>7, <1>8, <1>9, <1>10, <1>12, <1>13, <1>14 DEF Writes

-------------------------------------------------------------------------------
(* Theorems. *)

LEMMA SrvInit == ASSUME Init PROVE SrvInv
<1> USE SessionAssumption DEF Init
<1>1. /\ \A s \in Session : ride[s] \in {NoRide, DraftRide, OldRide} /\ points[s] \in {{}, OldPoints}
      /\ \A s \in Session : actions[s] = (IF ride[s].by = Nil THEN {} ELSE ActionsOf(ride[s].by)) /\ overrides[s] = {}
      /\ \A p \in Process : pc[p] = "idle" /\ job[p] = NoJob
      /\ \A s \in Session : ride[s] = NoRide => points[s] = {}
  OBVIOUS
<1>2. Analysis("old", OldPoints, {}) \in Analyses /\ Analysis("old", OldPoints, {}) # Nil
  BY DEF Analysis, Analyses
<1>3. ActionsOf(Analysis("old", OldPoints, {})) \subseteq ActionRows
  BY <1>2 DEF ActionsOf, ActionRows
<1>4. \A a, b \in ActionsOf(Analysis("old", OldPoints, {})) : a.seq = b.seq => a = b
  BY DEF ActionsOf
<1>5. {NoRide, DraftRide, OldRide} \subseteq Rides
  BY <1>2 DEF NoRide, DraftRide, OldRide, Rides
<1>6. SrvTypeOK
  <2>1. ride \in [Session -> Rides] /\ points \in [Session -> SUBSET Offset] /\ overrides \in [Session -> SUBSET Rows]
    BY <1>5
  <2>2. actions \in [Session -> SUBSET ActionRows]
    BY <1>1, <1>3 DEF NoRide, DraftRide, OldRide
  <2>3. pc \in [Process -> Statements \cup AtRest] /\ job \in [Process -> Jobs]
    BY NewJobTyped DEF AtRest
  <2>4. command \in Commands
    BY DEF Commands
  <2>5. accepted \in [Session -> Int]
    <3>1. \A s \in Session : Cardinality(points[s]) \in Int
      <4> SUFFICES ASSUME NEW s \in Session PROVE Cardinality(points[s]) \in Int
        OBVIOUS
      <4>1. points[s] \in SUBSET Offset /\ IsFiniteSet(Offset)
        BY <1>1
      <4>2. IsFiniteSet(points[s])
        BY <4>1, FS_Subset
      <4> QED BY <4>2, FS_CardinalityType
    <3> QED BY <3>1
  <2>6. \A s \in Session : Childless(s)
    BY <1>1, <1>2, <1>4 DEF Childless, Exists, NoRide, DraftRide, OldRide
  <2> QED BY <2>1, <2>2, <2>3, <2>4, <2>5, <2>6 DEF SrvTypeOK, Childless
<1>7. JobsHaveSessions
  BY <1>1 DEF JobsHaveSessions, JobHasSession, Statements
<1>8. ListedAreCompleted /\ FreshReads
  BY <1>1 DEF ListedAreCompleted, FreshReads, ReadsAreFresh, Midway
<1>9. SpansAreNew
  BY <1>1 DEF SpansAreNew, NoJob
<1>10. OneRowPerSpan
  BY <1>1, FS_EmptySet DEF OneRowPerSpan, SpansOf
<1>11. AcceptedIsStored
  BY DEF AcceptedIsStored
<1>12. AnalysisIsOfStoredData
  BY <1>1 DEF AnalysisIsOfStoredData, NeedsReanalysis, NoRide, DraftRide, OldRide, Analysis
<1> QED BY <1>6, <1>7, <1>8, <1>9, <1>10, <1>11, <1>12 DEF SrvInv

LEMMA SrvNext == ASSUME SrvInv, Next PROVE SrvInv'
<1>0. PICK p \in Process : StepOf(p)
  BY StepsAreOfProcesses
<1>1. SrvTypeOK /\ JobsHaveSessions /\ ListedAreCompleted /\ FreshReads /\ SpansAreNew
  BY DEF SrvInv
<1>2. SrvTypeOK'
  <2>1. TablesTyped' /\ \A s \in Session : Childless(s)'
    BY <1>0, <1>1, TablesStep, ChildlessStep
  <2>2. job' \in [Process -> Jobs] /\ pc' \in [Process -> Statements \cup AtRest]
    BY <1>1, JobsStep
  <2>3. command' \in Commands
    BY <1>0, <1>1, ListedStep
  <2>4. outdated' \subseteq Process /\ overlapped' \subseteq Session /\ unsettled' \subseteq Session
    BY <1>0, <1>1, MarksMove
  <2> QED BY <2>1, <2>2, <2>3, <2>4 DEF SrvTypeOK, TablesTyped, Childless
<1>3. JobsHaveSessions' /\ ListedAreCompleted' /\ FreshReads' /\ SpansAreNew'
  BY <1>0, <1>1, JobsHaveSessionsStep, ListedStep, FreshReadsStep, SpansAreNewStep
<1>4. OneRowPerSpan'
  BY <1>0, OneRowStep DEF OneRowPerSpan, OneRow, OneEach
<1>5. AcceptedIsStored'
  BY <1>0, AcceptedStep
<1>6. AnalysisIsOfStoredData'
  BY <1>0, AnalyzedStep DEF AnalysisIsOfStoredData, Analyzed
<1> QED BY <1>2, <1>3, <1>4, <1>5, <1>6 DEF SrvInv

(* The invariant holds of every execution of any number of requests beside an
   operator's command: rows are typed, work has its session, what has been read
   is what is stored unless the process is outdated, and the properties below. *)
THEOREM SrvInvHolds == Spec => []SrvInv
<1>1. SrvInv /\ UNCHANGED vars => SrvInv'
  <2> SUFFICES ASSUME SrvInv, UNCHANGED vars PROVE SrvInv'
    OBVIOUS
  <2>1. SrvTypeOK' /\ JobsHaveSessions' /\ ListedAreCompleted' /\ FreshReads'
    BY DEF vars, SrvInv, SrvTypeOK, Exists, JobsHaveSessions, JobHasSession, ListedAreCompleted, FreshReads,
       ReadsAreFresh, Midway
  <2>2. SpansAreNew' /\ OneRowPerSpan' /\ AcceptedIsStored' /\ AnalysisIsOfStoredData'
    BY DEF vars, SrvInv, SpansAreNew, OneRowPerSpan, AcceptedIsStored, AnalysisIsOfStoredData, NeedsReanalysis
  <2> QED BY <2>1, <2>2 DEF SrvInv
<1> QED BY <1>1, SrvInit, SrvNext, PTL DEF Spec

(* The number of points that the answers of uploads report is the number that
   is stored, whatever batches overlap or race (SessionService.upload_points). *)
THEOREM AcceptedHolds == Spec => []AcceptedIsStored
<1>1. SrvInv => AcceptedIsStored
  BY DEF SrvInv
<1> QED BY <1>1, SrvInvHolds, PTL

(* The statistics served are those of the points and overrides stored, for a
   session that no overlapping transactions wrote (SessionService._run_analysis). *)
THEOREM AnalysisHolds == Spec => []AnalysisIsOfStoredData
<1>1. SrvInv => AnalysisIsOfStoredData
  BY DEF SrvInv
<1> QED BY <1>1, SrvInvHolds, PTL

(* An override stays, once, until the rider removes it or resets the analysis,
   although every analysis deletes and rewrites the rows, for a session that no
   overlapping transactions wrote (SessionService.apply_override and on). *)
THEOREM OverridesHold == Spec => []RiderOverridesKept
<1>1. SrvInv => RiderOverridesKept
  BY OneRowEach DEF SrvInv, OneRowPerSpan, RiderOverridesKept, OneEach
<1> QED BY <1>1, SrvInvHolds, PTL
-------------------------------------------------------------------------------
(* The command that reanalyzes in batches. *)

(* Every set of sessions that is not empty has an oldest one. *)
LEMMA Oldest ==
  ASSUME NEW S, S \subseteq Nat, S # {}
  PROVE  \E m \in S : \A r \in S : m <= r
<1>1. PICK m \in S : \A r \in S : ~ (<<r, m>> \in OpToRel(<, Nat))
  BY NatLessThanWellFounded, WFMin
<1>2. \A r \in S : ~ (r < m)
  BY <1>1 DEF OpToRel
<1>3. QED
  BY <1>2

(* Numbers up to another are finitely many. *)
LEMMA UpToIsFinite ==
  ASSUME NEW S, S \subseteq Nat, NEW m \in Nat
  PROVE  /\ IsFiniteSet({r \in S : r <= m}) /\ Cardinality({r \in S : r <= m}) \in Nat
         /\ IsFiniteSet({r \in S : r < m}) /\ Cardinality({r \in S : r < m}) \in Nat
<1>1. IsFiniteSet(0..m)
  BY FS_Interval
<1>2. \A r \in S : (r <= m \/ r < m) => r \in 0..m
  OBVIOUS
<1>3. IsFiniteSet({r \in S : r <= m}) /\ IsFiniteSet({r \in S : r < m})
  <2>1. {r \in S : r <= m} \subseteq 0..m
    BY <1>2
  <2>2. {r \in S : r < m} \subseteq 0..m
    BY <1>2
  <2>3. QED
    BY <1>1, <2>1, <2>2, FS_Subset
<1>4. QED
  BY <1>3, FS_CardinalityType

(* When a batch misses somebody, a whole batch comes before. *)
LEMMA FirstOfIsFull ==
  ASSUME NEW S, S \subseteq Nat, NEW n \in Nat, NEW s \in S \ FirstOf(S, n)
  PROVE  Cardinality({r \in FirstOf(S, n) : r < s}) >= n
<1> DEFINE first == FirstOf(S, n)
           upTo(x) == {r \in S : r <= x}
           below(x) == {r \in S : r < x}
<1>1. first \subseteq S /\ \A x \in S : x \in first <=> Cardinality(upTo(x)) <= n
  BY DEF FirstOf
<1> HIDE DEF first
<1>2. PICK m \in S \ first : \A r \in S \ first : m <= r
  BY <1>1, Oldest DEF first
<1>3. m \in Nat /\ m <= s
  BY <1>2 DEF first
<1>4. IsFiniteSet(below(m)) /\ Cardinality(below(m)) \in Nat
  BY <1>3, UpToIsFinite
<1>5. Cardinality(upTo(m)) = Cardinality(below(m)) + 1
  <2>1. \A r \in S : r <= m <=> r < m \/ r = m
    BY <1>3
  <2>2. ~ (m < m)
    BY <1>3
  <2>3. upTo(m) = below(m) \cup {m} /\ m \notin below(m)
    BY <1>2, <2>1, <2>2
  <2> HIDE DEF upTo, below
  <2>4. QED
    BY <1>4, <2>3, FS_AddElement
<1>6. Cardinality(upTo(m)) \in Nat
  BY <1>3, UpToIsFinite
<1>7. Cardinality(below(m)) >= n
  BY <1>1, <1>2, <1>4, <1>5, <1>6
<1>8. below(m) \subseteq {r \in first : r < s}
  <2>1. \A r \in S : r < m => r < s /\ ~ (m <= r)
    BY <1>3
  <2>2. QED
    BY <1>2, <2>1
<1>9. IsFiniteSet({r \in first : r < s}) /\ Cardinality({r \in first : r < s}) \in Nat
  BY <1>1, UpToIsFinite
<1> HIDE DEF below
<1>10. Cardinality(below(m)) <= Cardinality({r \in first : r < s})
  BY <1>8, <1>9, FS_Subset
<1>11. QED
  BY <1>4, <1>7, <1>9, <1>10 DEF first

(* An import has nothing of a reanalysis to do. *)
NothingToDo == command.kind # "reanalyze" => command.todo = {}

LEMMA NothingToDoStep ==
  ASSUME SrvInv, NothingToDo, [Next]_vars PROVE NothingToDo'
<1>1. CASE UNCHANGED command
  BY <1>1 DEF NothingToDo
<1>2. CASE \E kind \in {"reanalyze", "import", "repair"} : StartCommand(kind)
  BY <1>2 DEF StartCommand, NothingToDo
<1>3. command \in Commands
  BY DEF SrvInv, SrvTypeOK
<1>4. CASE CommandProceeds
  BY <1>3, <1>4 DEF CommandProceeds, ListBatch, TakeSession, ImportFile, AnalyzeImported, NothingToDo, Commands
<1>5. ASSUME NEW p \in Process, Proceeds(p) PROVE NothingToDo'
  <2>1. Repair(p) \/ UNCHANGED command
    BY <1>5 DEF Proceeds, CountPoints, ReadKnown, InsertPoints, InsertOverride, OverrideOrphaned, DeleteOverride,
      Reselect, DeleteRows, DeadlockVictim, ReadPoints, ReadOverrides, AnalyzerRaises, DeleteActions, ActionsWoken,
      DeleteOverrides, OverridesWoken, StoreAnalysis, StoreFails, RepairFails, Aborts
  <2>2. QED
    BY <1>1, <1>3, <2>1 DEF Repair, NothingToDo, Commands
<1>6. ASSUME NEW p \in Request, NEW s \in Session, Calls(p, s) PROVE UNCHANGED command
  BY <1>6 DEF Calls, CreateSession, Upload, Complete, Reanalyze, ApplyOverride, RemoveOverride, Delete, Selects
<1>7. ASSUME NEW p \in Process, Dies(p) PROVE UNCHANGED command
  BY <1>7 DEF Dies, Aborts
<1>8. CASE UNCHANGED vars
  BY <1>1, <1>8 DEF vars
<1>9. QED
  BY <1>1, <1>2, <1>4, <1>5, <1>6, <1>7, <1>8 DEF Next

(* The command ends by itself only from these two statements. *)
LEMMA EndsByItself ==
  ASSUME SrvInv, Next, pc[operator] = "next", pc'[operator] = "ended"
  PROVE  ListBatch \/ AnalyzeImported
<1>1. pc \in [Process -> Statements \cup AtRest] /\ operator \in Process /\ operator \notin Request
  BY SessionAssumption DEF SrvInv, SrvTypeOK, Process
<1>2. ASSUME NEW p \in Request, NEW s \in Session, Calls(p, s) PROVE FALSE
  BY <1>1, <1>2 DEF Calls, CreateSession, Upload, Complete, Reanalyze, ApplyOverride, RemoveOverride, Delete,
    Selects, Goto, Process
<1>3. ASSUME NEW p \in Process, Dies(p) PROVE FALSE
  BY <1>1, <1>3 DEF Dies, Aborts, Goto
<1>4. ASSUME NEW p \in Process, Proceeds(p) PROVE FALSE
  <2>1. pc[p] \notin {"next", "ended"}
    BY <1>4 DEF Proceeds, CountPoints, ReadKnown, InsertPoints, InsertOverride, OverrideOrphaned, DeleteOverride,
      Reselect, DeleteRows, DeadlockVictim, ReadPoints, ReadOverrides, AnalyzerRaises, DeleteActions, ActionsWoken,
      DeleteOverrides, OverridesWoken, StoreAnalysis, StoreFails, Repair, RepairFails
  <2>2. \E l : Goto(p, l)
    BY <1>4 DEF Proceeds, CountPoints, ReadKnown, InsertPoints, InsertOverride, OverrideOrphaned, DeleteOverride,
      Reselect, DeleteRows, DeadlockVictim, ReadPoints, ReadOverrides, AnalyzerRaises, DeleteActions, ActionsWoken,
      DeleteOverrides, OverridesWoken, StoreAnalysis, StoreFails, Repair, RepairFails, Ends, Aborts
  <2>3. QED
    BY <1>1, <2>1, <2>2 DEF Goto
<1>5. ASSUME NEW kind, StartCommand(kind) PROVE FALSE
  BY <1>5 DEF StartCommand
<1>6. TakeSession => FALSE
  BY <1>1 DEF TakeSession, Goto
<1>7. ImportFile => FALSE
  BY <1>1 DEF ImportFile, Goto
<1>8. QED
  BY <1>2, <1>3, <1>4, <1>5, <1>6, <1>7 DEF Next, CommandProceeds

(* A reanalyze_sessions command that ends by itself leaves no session that was
   waiting when it began and that it has not attempted, unless a whole batch of
   attempted sessions waits before it: the list has a LIMIT and always begins
   with the oldest (reanalyze_sessions.run). *)
THEOREM CommandHolds == Spec => CommandLeavesOnlyBlocked
<1>1. Init => NothingToDo
  BY DEF Init, NothingToDo
<1>2. SrvInv /\ NothingToDo /\ [Next]_vars => NothingToDo'
  BY NothingToDoStep
<1>3. SrvInv /\ NothingToDo /\ [Next]_vars =>
        [pc[operator] = "next" /\ pc'[operator] = "ended" => LeavesOnlyBlocked]_vars
  <2> SUFFICES ASSUME SrvInv, NothingToDo, Next, pc[operator] = "next", pc'[operator] = "ended"
               PROVE  LeavesOnlyBlocked
    OBVIOUS
  <2> DEFINE waiting == {s \in Session : NeedsReanalysis(s)}
  <2> SUFFICES ASSUME NEW s \in (command.todo \cap waiting) \ command.attempted
               PROVE  Cardinality({r \in waiting \cap command.attempted : r < s}) >= BatchSize
    BY DEF LeavesOnlyBlocked
  <2>1. waiting \subseteq Nat /\ BatchSize \in Nat
    BY SessionAssumption
  <2>2. CASE ListBatch
    <3>1. FirstOf(waiting, BatchSize) \subseteq command.attempted
      BY <2>2 DEF ListBatch, SrvInv, SrvTypeOK, Process, AtRest
    <3>2. FirstOf(waiting, BatchSize) \subseteq waiting
      BY DEF FirstOf
    <3> HIDE DEF waiting
    <3>3. s \in waiting \ FirstOf(waiting, BatchSize)
      BY <3>1
    <3>4. Cardinality({r \in FirstOf(waiting, BatchSize) : r < s}) >= BatchSize
      BY <2>1, <3>3, FirstOfIsFull
    <3>5. {r \in FirstOf(waiting, BatchSize) : r < s} \subseteq {r \in waiting \cap command.attempted : r < s}
      BY <3>1, <3>2
    <3>6. /\ IsFiniteSet({r \in waiting \cap command.attempted : r < s})
          /\ Cardinality({r \in waiting \cap command.attempted : r < s}) \in Nat
          /\ Cardinality({r \in FirstOf(waiting, BatchSize) : r < s}) \in Nat
      BY <2>1, <3>2, UpToIsFinite
    <3>7. Cardinality({r \in FirstOf(waiting, BatchSize) : r < s})
          <= Cardinality({r \in waiting \cap command.attempted : r < s})
      BY <3>5, <3>6, FS_Subset
    <3>8. QED
      BY <2>1, <3>4, <3>6, <3>7
  <2>3. CASE AnalyzeImported
    BY <2>3 DEF AnalyzeImported, Running, NothingToDo
  <2>4. QED
    BY <2>2, <2>3, EndsByItself
<1>4. Spec => [][pc[operator] = "next" /\ pc'[operator] = "ended" => LeavesOnlyBlocked]_vars
  BY <1>1, <1>2, <1>3, SrvInvHolds, PTL DEF Spec
<1>5. QED
  BY <1>4 DEF CommandLeavesOnlyBlocked
===============================================================================
