---------------------------- MODULE MigrationsProofs ----------------------------
(***************************************************************************)
(* Proofs about Migrations, for any resorts, names and external ids: the   *)
(* rows always fit the schema, also the rows that a rollback would bring   *)
(* back, and a resort keeps its external identity along the chain; the     *)
(* schema is the one of its revision, whatever upgrades and downgrades led *)
(* there, and at the head it is the one of the models; a command is        *)
(* refused only where 0016 is undone over two resorts of one name.         *)
(***************************************************************************)
EXTENDS Migrations, TLAPS

USE DEF HeadRev, vars

(* The identity of a resort, of the rows of a database at revision n.       *)
LegacyIn(es, r) ==
  IF \E e \in ExternalId : es[e].resort = r /\ es[e].legacy
  THEN CHOOSE e \in ExternalId : es[e].resort = r /\ es[e].legacy
  ELSE Nil
IdentityIn(n, rs, es, r) == IF n < HeadRev THEN rs[r].ext ELSE LegacyIn(es, r)

(* The rows that a database at revision n may hold: rides since 0003,       *)
(* resorts since 0002, external ids in the columns that 0007 adds and 0016  *)
(* drops, no two resorts with the same one, and records since 0016.         *)
RowsFit(n, v, rs, es) ==
  /\ rs \in [ResortId -> [name : Name \cup {Nil}, ext : ExternalId \cup {Nil}]]
  /\ es \in [ExternalId -> [resort : ResortId \cup {Nil}, legacy : BOOLEAN]]
  /\ v \in BOOLEAN
  /\ v => n >= 3
  /\ \A r \in ResortId : rs[r].name # Nil => n >= 2
  /\ \A r \in ResortId : rs[r].ext # Nil => n \in 6..14 /\ rs[r].name # Nil
  /\ \A r, s \in ResortId : rs[r].ext # Nil /\ rs[r].ext = rs[s].ext => r = s
  /\ \A e \in ExternalId : es[e].resort # Nil => n = HeadRev /\ rs[es[e].resort].name # Nil

RevisionsOK ==
  /\ rev \in 0..HeadRev /\ target \in 0..HeadRev
  /\ Idle <=> saved = <<>>

(* What a rollback brings back is where the command began, behind it on the *)
(* way up and ahead of it on the way down.                                  *)
SavedFits ==
  ~ Idle => /\ saved.rev \in 0..HeadRev
            /\ target > rev => saved.rev <= rev
            /\ target < rev => saved.rev >= rev
            /\ RowsFit(saved.rev, saved.rides, saved.resorts, saved.records)

(* As long as a command stays above 0007, rolling it back changes nobody's   *)
(* identity.                                                                *)
SavedAgrees ==
  ~ Idle /\ rev >= 6 /\ saved.rev >= 6 =>
    \A r \in ResortId :
      /\ Stored(r) <=> saved.resorts[r].name # Nil
      /\ IdentityOf(r) = IdentityIn(saved.rev, saved.resorts, saved.records, r)

RowsInv ==
  /\ RevisionsOK
  /\ RowsFit(rev, rides, resorts, records)
  /\ SavedFits
  /\ SavedAgrees

LEMMA Identities ==
  /\ \A r \in ResortId : IdentityOf(r) = IdentityIn(rev, resorts, records, r)
  /\ \A r \in ResortId : IdentityOf(r)' = IdentityIn(rev', resorts', records', r)
  /\ \A r \in ResortId : LegacyIdOf(r) = LegacyIn(records, r)
BY DEF IdentityOf, IdentityIn, LegacyIdOf, LegacyIn

(* Legacy records decide alone: tables with the same ones give the same     *)
(* identity.                                                                *)
LEMMA SameLegacy ==
  ASSUME NEW es, NEW fs, NEW r \in ResortId,
         \A e \in ExternalId : (es[e].resort = r /\ es[e].legacy) <=> (fs[e].resort = r /\ fs[e].legacy)
  PROVE  LegacyIn(es, r) = LegacyIn(fs, r)
BY DEF LegacyIn

LEMMA LegacyIsAnId == \A es, r : LegacyIn(es, r) \in ExternalId \cup {Nil}
BY DEF LegacyIn

(* An id that a legacy record gives is of one resort.                        *)
LEMMA LegacyIsUnique ==
  ASSUME NEW es, NEW r, NEW s, LegacyIn(es, r) # Nil, LegacyIn(es, r) = LegacyIn(es, s)
  PROVE  r = s
<1>1. ASSUME NEW q, LegacyIn(es, q) # Nil
      PROVE  es[LegacyIn(es, q)].resort = q
  BY <1>1 DEF LegacyIn
<1>2. QED
  BY <1>1

(* 0016: the record made for an id is of the resort that has it.            *)
LEMMA MovedToRecords ==
  ASSUME RowsFit(rev, rides, resorts, records), IdsToRecords
  PROVE  /\ RowsFit(HeadRev, rides, resorts', records') \/ rev # 14
         /\ \A r \in ResortId : /\ resorts'[r].name = resorts[r].name
                                /\ LegacyIn(records', r) = resorts[r].ext
<1> USE NilAssumption
<1>1. \A r \in ResortId : resorts'[r] = [name |-> resorts[r].name, ext |-> Nil]
  BY DEF IdsToRecords, RowsFit
<1>2. ASSUME NEW e \in ExternalId, NEW r \in ResortId, resorts[r].ext = e
      PROVE  records'[e] = [resort |-> r, legacy |-> TRUE]
  <2>1. \A s \in ResortId : resorts[s].ext = e => s = r
    BY <1>2 DEF RowsFit
  <2>2. r = CHOOSE s \in ResortId : resorts[s].ext = e
    BY <1>2, <2>1
  <2>3. QED
    BY <1>2, <2>2 DEF IdsToRecords
<1>3. ASSUME NEW e \in ExternalId, ~ \E r \in ResortId : resorts[r].ext = e
      PROVE  records'[e] = NoRecord
  BY <1>3 DEF IdsToRecords
<1>4. ASSUME NEW r \in ResortId
      PROVE  LegacyIn(records', r) = resorts[r].ext
  <2>1. \A e \in ExternalId : records'[e].resort = r /\ records'[e].legacy <=> resorts[r].ext = e
    <3> TAKE e \in ExternalId
    <3>1. CASE \E s \in ResortId : resorts[s].ext = e
      <4>1. PICK s \in ResortId : resorts[s].ext = e
        BY <3>1
      <4>2. records'[e] = [resort |-> s, legacy |-> TRUE]
        BY <1>2, <4>1
      <4>3. records'[e].resort = s /\ records'[e].legacy = TRUE
        BY <4>2
      <4>4. resorts[r].ext = e => r = s
        BY <4>1 DEF RowsFit
      <4>5. QED
        BY <4>1, <4>3, <4>4
    <3>2. CASE ~ \E s \in ResortId : resorts[s].ext = e
      BY <1>3, <3>2 DEF NoRecord
    <3> QED BY <3>1, <3>2
  <2>2. resorts[r].ext \in ExternalId \cup {Nil}
    BY DEF RowsFit
  <2>3. QED
    BY <2>1, <2>2 DEF LegacyIn
<1>5. ASSUME rev = 14
      PROVE  RowsFit(HeadRev, rides, resorts', records')
  <2>1. \A e \in ExternalId :
          /\ records'[e] \in [resort : ResortId \cup {Nil}, legacy : BOOLEAN]
          /\ records'[e].resort # Nil => resorts'[records'[e].resort].name # Nil
    <3> TAKE e \in ExternalId
    <3>1. CASE \E s \in ResortId : resorts[s].ext = e
      <4>1. PICK s \in ResortId : resorts[s].ext = e
        BY <3>1
      <4>2. records'[e] = [resort |-> s, legacy |-> TRUE]
        BY <1>2, <4>1
      <4>3. resorts'[s] = [name |-> resorts[s].name, ext |-> Nil]
        BY <1>1
      <4>4. resorts'[s].name # Nil
        BY <4>1, <4>3 DEF RowsFit
      <4>5. QED
        BY <4>2, <4>4
    <3>2. CASE ~ \E s \in ResortId : resorts[s].ext = e
      <4>1. records'[e] = [resort |-> Nil, legacy |-> FALSE]
        BY <1>3, <3>2 DEF NoRecord
      <4>2. QED
        BY <4>1
    <3> QED BY <3>1, <3>2
  <2>2. records' \in [ExternalId -> [resort : ResortId \cup {Nil}, legacy : BOOLEAN]]
    BY <2>1 DEF IdsToRecords
  <2>3. resorts' \in [ResortId -> [name : Name \cup {Nil}, ext : ExternalId \cup {Nil}]]
    <3>1. \A r \in ResortId : resorts[r].name \in Name \cup {Nil}
      BY DEF RowsFit
    <3>2. ASSUME NEW r \in ResortId
          PROVE  resorts'[r] \in [name : Name \cup {Nil}, ext : ExternalId \cup {Nil}]
      <4>1. resorts'[r] = [name |-> resorts[r].name, ext |-> Nil]
        BY <1>1
      <4>2. QED
        BY <3>1, <4>1
    <3>3. QED
      BY <3>2 DEF IdsToRecords
  <2>4. QED
    BY <1>1, <1>5, <2>1, <2>2, <2>3 DEF RowsFit
<1>6. ASSUME NEW r \in ResortId
      PROVE  resorts'[r].name = resorts[r].name
  <2>1. resorts'[r] = [name |-> resorts[r].name, ext |-> Nil]
    BY <1>1
  <2>2. QED
    BY <2>1
<1>7. QED
  BY <1>4, <1>5, <1>6

(* 0016 undone: the columns hold what the legacy records say.               *)
LEMMA MovedToColumns ==
  ASSUME RowsFit(rev, rides, resorts, records), RecordsToIds, rev = HeadRev,
         \A r \in ResortId : LegacyIn(records, r) # Nil => Stored(r)
  PROVE  /\ RowsFit(14, rides, resorts', records')
         /\ \A r \in ResortId : /\ resorts'[r].name = resorts[r].name
                                /\ resorts'[r].ext = LegacyIn(records, r)
<1> USE NilAssumption
<1>1. \A r \in ResortId : resorts'[r] = [name |-> resorts[r].name, ext |-> LegacyIn(records, r)]
  BY Identities DEF RecordsToIds, RowsFit
<1>2. ASSUME NEW r \in ResortId
      PROVE  resorts'[r].name = resorts[r].name /\ resorts'[r].ext = LegacyIn(records, r)
  <2>1. resorts'[r] = [name |-> resorts[r].name, ext |-> LegacyIn(records, r)]
    BY <1>1
  <2>2. QED
    BY <2>1
<1>8. \A e \in ExternalId : records'[e].resort = Nil
  BY DEF RecordsToIds, NoRecord
<1>3. resorts' \in [ResortId -> [name : Name \cup {Nil}, ext : ExternalId \cup {Nil}]]
  <2>1. \A r \in ResortId : resorts[r].name \in Name \cup {Nil}
    BY DEF RowsFit
  <2>2. \A r \in ResortId : LegacyIn(records, r) \in ExternalId \cup {Nil}
    BY LegacyIsAnId
  <2>3. ASSUME NEW r \in ResortId
        PROVE  resorts'[r] \in [name : Name \cup {Nil}, ext : ExternalId \cup {Nil}]
    <3>1. resorts'[r] = [name |-> resorts[r].name, ext |-> LegacyIn(records, r)]
      BY <1>1
    <3>2. QED
      BY <2>1, <2>2, <3>1
  <2>4. QED
    BY <2>3 DEF RecordsToIds
<1>4. records' \in [ExternalId -> [resort : ResortId \cup {Nil}, legacy : BOOLEAN]]
  BY DEF RecordsToIds, NoRecord
<1>5. \A r, s \in ResortId : resorts'[r].ext # Nil /\ resorts'[r].ext = resorts'[s].ext => r = s
  BY <1>2, LegacyIsUnique
<1>6. \A r \in ResortId : resorts'[r].ext # Nil => resorts'[r].name # Nil
  BY <1>2 DEF Stored
<1>7. QED
  BY <1>2, <1>8, <1>3, <1>4, <1>5, <1>6 DEF RowsFit

(* Only resorts that are stored have an identity.                           *)
LEMMA IdentifiedIsStored ==
  ASSUME RowsFit(rev, rides, resorts, records), NEW r \in ResortId, LegacyIn(records, r) # Nil
  PROVE  Stored(r)
<1>1. PICK e \in ExternalId : records[e].resort = r
  BY DEF LegacyIn
<1>2. QED
  BY <1>1, NilAssumption DEF RowsFit, Stored

(* A migration moves, drops or leaves the rows, and between revisions that  *)
(* have 0007 no resort gets another identity.                               *)
LEMMA MigrateKeepsRows ==
  ASSUME RevisionsOK, RowsFit(rev, rides, resorts, records), Migrate
  PROVE  /\ RowsFit(rev', rides', resorts', records')
         /\ rev >= 6 /\ rev' >= 6 =>
              \A r \in ResortId : (Stored(r)' <=> Stored(r)) /\ IdentityOf(r)' = IdentityOf(r)
<1> USE NilAssumption
<1> DEFINE Kept == \A r \in ResortId : (Stored(r)' <=> Stored(r)) /\ IdentityOf(r)' = IdentityOf(r)
<1>1. rides' \in BOOLEAN /\ (rides' => rides) /\ rev \in 0..15 /\ target \in 0..15
  BY DEF Migrate, RevisionsOK
<1>2. \A n, v, w, rs, es : RowsFit(n, v, rs, es) /\ w \in BOOLEAN /\ (w => n >= 3) => RowsFit(n, w, rs, es)
  BY DEF RowsFit
<1>3. CASE target > rev
  <2>1. rev' = rev + 1 /\ RowsUp(rev + 1) /\ rev \in 0..14
    <3>1. rev \in 0..14
      BY <1>1, <1>3
    <3>2. RowsUp(rev + 1) /\ rev' = NextRev
      BY <1>3 DEF Migrate
    <3>3. QED
      BY <1>3, <3>1, <3>2 DEF NextRev
  <2>2. rides' => rev' >= 3
    BY <1>1, <2>1 DEF RowsFit
  <2>3. CASE rev = 14
    <3>1. IdsToRecords
      BY <2>1, <2>3 DEF RowsUp
    <3>2. RowsFit(15, rides, resorts', records')
      BY <2>3, <3>1, MovedToRecords
    <3>3. RowsFit(rev', rides', resorts', records')
      BY <1>1, <1>2, <2>1, <2>2, <2>3, <3>2
    <3>4. ASSUME NEW r \in ResortId
          PROVE  (Stored(r)' <=> Stored(r)) /\ IdentityOf(r)' = IdentityOf(r)
      <4>1. resorts'[r].name = resorts[r].name /\ LegacyIn(records', r) = resorts[r].ext
        BY <3>1, MovedToRecords
      <4>2. IdentityOf(r)' = LegacyIn(records', r) /\ IdentityOf(r) = resorts[r].ext
        BY <2>1, <2>3, Identities DEF IdentityIn
      <4>3. QED
        BY <4>1, <4>2 DEF Stored
    <3>5. QED
      BY <3>3, <3>4
  <2>4. CASE rev # 14
    <3>1. resorts' = resorts /\ records' = records
      BY <2>1, <2>4 DEF RowsUp, Unread
    <3>2. RowsFit(rev + 1, rides, resorts, records)
      BY <1>1, <2>1, <2>4 DEF RowsFit
    <3>3. rev >= 6 => Kept
      BY <2>1, <2>4, <3>1, Identities DEF IdentityIn, Stored
    <3>4. QED
      BY <1>1, <1>2, <2>1, <2>2, <3>1, <3>2, <3>3
  <2>5. QED
    BY <2>3, <2>4
<1>4. CASE target < rev
  <2>1. rev' = rev - 1 /\ RowsDown(rev) /\ rev \in 1..15
    <3>1. rev \in 1..15 /\ ~ target > rev
      BY <1>1, <1>4
    <3>2. RowsDown(rev) /\ rev' = NextRev
      BY <3>1 DEF Migrate
    <3>3. QED
      BY <3>1, <3>2 DEF NextRev
  <2>2. rides' => rev' >= 3
    <3>1. CASE rev = 3
      <4>1. Migration = Down0003(db)
        BY <1>1, <1>4, <3>1 DEF Migration, Downgrade
      <4>2. "ride_sessions" \in Migration.truncated
        BY <4>1 DEF Down0003, Step
      <4>3. QED
        BY <4>2 DEF Migrate
    <3>2. QED
      BY <1>1, <2>1, <3>1 DEF RowsFit
  <2>3. CASE rev = 15
    <3>1. RecordsToIds
      BY <2>1, <2>3 DEF RowsDown
    <3>2. RowsFit(14, rides, resorts', records')
      BY <2>3, <3>1, MovedToColumns, IdentifiedIsStored
    <3>3. RowsFit(rev', rides', resorts', records')
      BY <1>1, <1>2, <2>1, <2>2, <2>3, <3>2
    <3>4. ASSUME NEW r \in ResortId
          PROVE  (Stored(r)' <=> Stored(r)) /\ IdentityOf(r)' = IdentityOf(r)
      <4>1. resorts'[r].name = resorts[r].name /\ resorts'[r].ext = LegacyIn(records, r)
        BY <2>3, <3>1, MovedToColumns, IdentifiedIsStored
      <4>2. IdentityOf(r) = LegacyIn(records, r) /\ IdentityOf(r)' = resorts'[r].ext
        BY <2>1, <2>3, Identities DEF IdentityIn
      <4>3. QED
        BY <4>1, <4>2 DEF Stored
    <3>5. QED
      BY <3>3, <3>4
  <2>4. CASE rev = 6
    <3>1. resorts' = [r \in ResortId |-> [resorts[r] EXCEPT !.ext = Nil]] /\ records' = records
      BY <2>1, <2>4 DEF RowsDown
    <3>2. ASSUME NEW r \in ResortId
          PROVE  /\ resorts'[r] \in [name : Name \cup {Nil}, ext : ExternalId \cup {Nil}]
                 /\ resorts'[r].name = resorts[r].name /\ resorts'[r].ext = Nil
      BY <3>1 DEF RowsFit
    <3>3. resorts' \in [ResortId -> [name : Name \cup {Nil}, ext : ExternalId \cup {Nil}]]
      BY <3>1, <3>2
    <3>4. RowsFit(5, rides, resorts', records')
      BY <2>4, <3>1, <3>2, <3>3 DEF RowsFit
    <3>5. QED
      BY <1>1, <1>2, <2>1, <2>2, <2>4, <3>4
  <2>5. CASE rev = 2
    <3>1. resorts' = [r \in ResortId |-> NoResort] /\ records' = records
      BY <2>1, <2>5 DEF RowsDown
    <3>2. \A r \in ResortId : resorts'[r].name = Nil /\ resorts'[r].ext = Nil
      BY <3>1 DEF NoResort
    <3>3. resorts' \in [ResortId -> [name : Name \cup {Nil}, ext : ExternalId \cup {Nil}]]
      BY <3>1 DEF NoResort
    <3>4. \A e \in ExternalId : records'[e].resort = Nil
      BY <2>5, <3>1 DEF RowsFit
    <3>5. ~ rides /\ ~ rides'
      BY <1>1, <2>5 DEF RowsFit
    <3>6. RowsFit(1, rides', resorts', records')
      BY <1>1, <3>1, <3>2, <3>3, <3>4, <3>5 DEF RowsFit
    <3>7. QED
      BY <2>1, <2>5, <3>6
  <2>6. CASE rev \notin {2, 6, 15}
    <3>1. resorts' = resorts /\ records' = records
      BY <2>1, <2>6 DEF RowsDown, Unread
    <3>2. \A r \in ResortId : resorts[r].ext # Nil => rev - 1 \in 6..14
      BY <2>1, <2>6 DEF RowsFit
    <3>3. \A r \in ResortId : resorts[r].name # Nil => rev - 1 >= 2
      BY <2>1, <2>6 DEF RowsFit
    <3>4. RowsFit(rev - 1, rides', resorts, records)
      BY <1>1, <2>1, <2>2, <2>6, <3>2, <3>3 DEF RowsFit
    <3>5. rev' >= 6 => Kept
      BY <2>1, <2>6, <3>1, Identities DEF IdentityIn, Stored
    <3>6. QED
      BY <2>1, <3>1, <3>4, <3>5
  <2>7. QED
    BY <2>3, <2>4, <2>5, <2>6
<1>5. QED
  BY <1>1, <1>3, <1>4 DEF Migrate, Idle

(* The importers of the revisions before 0016 give an id to a new resort.   *)
LEMMA LegacyImportFits ==
  ASSUME RowsInv, NEW r \in ResortId, NEW name \in Name, NEW ext \in ExternalId \cup {Nil},
         LegacyImport(r, name, ext)
  PROVE  /\ RowsFit(rev', rides', resorts', records')
         /\ \A s \in ResortId : Stored(s) => IdentityOf(s)' = IdentityOf(s)
<1> USE NilAssumption
<1>1. /\ resorts' = [resorts EXCEPT ![r] = [name |-> name, ext |-> ext]]
      /\ rev' = rev /\ rides' = rides /\ records' = records /\ rev \in 2..14 /\ ~ Stored(r)
  BY DEF LegacyImport
<1>2. resorts' \in [ResortId -> [name : Name \cup {Nil}, ext : ExternalId \cup {Nil}]]
  BY <1>1 DEF RowsInv, RowsFit
<1>3. resorts'[r].name = name /\ resorts'[r].ext = ext
  BY <1>1 DEF RowsInv, RowsFit
<1>4. \A s \in ResortId : s # r => resorts'[s] = resorts[s]
  BY <1>1 DEF RowsInv, RowsFit
<1>5. \A s, t \in ResortId : resorts'[s].ext # Nil /\ resorts'[s].ext = resorts'[t].ext => s = t
  BY <1>3, <1>4 DEF LegacyImport, RowsInv, RowsFit
<1>6. \A s \in ResortId : resorts'[s].ext # Nil => rev \in 6..14 /\ resorts'[s].name # Nil
  BY <1>1, <1>3, <1>4 DEF LegacyImport, RowsInv, RowsFit
<1>7. \A e \in ExternalId : records[e].resort = Nil
  BY <1>1 DEF RowsInv, RowsFit
<1>8. RowsFit(rev, rides, resorts', records)
  BY <1>1, <1>2, <1>5, <1>6, <1>7 DEF RowsInv, RowsFit
<1>9. \A s \in ResortId : Stored(s) => IdentityOf(s)' = IdentityOf(s)
  BY <1>1, <1>4, Identities DEF IdentityIn
<1>10. QED
  BY <1>1, <1>8, <1>9

(* A record of OpenSkiData is no legacy record and takes none over.         *)
LEMMA CatalogImportFits ==
  ASSUME RowsInv, NEW r \in ResortId, NEW name \in Name, NEW ext \in ExternalId,
         CatalogImport(r, name, ext)
  PROVE  /\ RowsFit(rev', rides', resorts', records')
         /\ \A s \in ResortId : IdentityOf(s)' = IdentityOf(s)
<1> USE NilAssumption
<1>1. /\ resorts' = [resorts EXCEPT ![r].name = name]
      /\ records' = [records EXCEPT ![ext] = [resort |-> r, legacy |-> FALSE]]
      /\ rev' = rev /\ rides' = rides /\ rev = 15 /\ records[ext].resort = Nil
  BY DEF CatalogImport, Linked
<1>2. resorts' \in [ResortId -> [name : Name \cup {Nil}, ext : ExternalId \cup {Nil}]]
  BY <1>1 DEF RowsInv, RowsFit
<1>3. records' \in [ExternalId -> [resort : ResortId \cup {Nil}, legacy : BOOLEAN]]
  BY <1>1 DEF RowsInv, RowsFit
<1>4. \A s \in ResortId : resorts'[s].ext = Nil
  BY <1>1 DEF RowsInv, RowsFit
<1>5. resorts'[r].name # Nil /\ \A s \in ResortId : s # r => resorts'[s].name = resorts[s].name
  BY <1>1 DEF RowsInv, RowsFit
<1>6. records'[ext].resort = r /\ ~ records'[ext].legacy /\ \A e \in ExternalId : e # ext => records'[e] = records[e]
  BY <1>1 DEF RowsInv, RowsFit
<1>7. RowsFit(rev, rides, resorts', records')
  BY <1>1, <1>2, <1>3, <1>4, <1>5, <1>6 DEF RowsInv, RowsFit
<1>8. ASSUME NEW s \in ResortId
      PROVE  LegacyIn(records', s) = LegacyIn(records, s)
  <2>1. \A e \in ExternalId : (records'[e].resort = s /\ records'[e].legacy) <=> (records[e].resort = s /\ records[e].legacy)
    BY <1>1, <1>6
  <2>2. QED
    BY <2>1, SameLegacy
<1>9. ASSUME NEW s \in ResortId
      PROVE  IdentityOf(s)' = IdentityOf(s)
  <2>1. rev = 15 /\ rev' = 15
    BY <1>1
  <2>2. IdentityOf(s)' = LegacyIn(records', s) /\ IdentityOf(s) = LegacyIn(records, s)
    BY <2>1, Identities DEF IdentityIn
  <2>3. QED
    BY <1>8, <2>2
<1>10. QED
  BY <1>1, <1>7, <1>9

LEMMA RowsInvStep == RowsInv /\ [Next]_vars => RowsInv'
<1> SUFFICES ASSUME RowsInv, Next PROVE RowsInv'
  <2>1. ASSUME RowsInv, UNCHANGED vars
        PROVE  RowsInv'
    <3>1. \A r \in ResortId : IdentityOf(r)' = IdentityOf(r)
      BY <2>1, Identities
    <3>2. QED
      BY <2>1, <3>1 DEF RowsInv, RevisionsOK, SavedFits, SavedAgrees, Idle, Stored
  <2>2. QED
    BY <2>1
<1>1. ASSUME NEW t \in 0..HeadRev, Command(t)
      PROVE  RowsInv'
  <2>1. rev' = rev /\ rides' = rides /\ resorts' = resorts /\ records' = records /\ target' = t /\ t # rev
    BY <1>1 DEF Command
  <2>2. saved' = [rev |-> rev, db |-> db, rides |-> rides, resorts |-> resorts, records |-> records]
    BY <1>1 DEF Command, Snapshot
  <2>3. saved' # <<>>
    BY <1>1 DEF Command, Snapshot
  <2>4. RevisionsOK'
    BY <2>1, <2>3 DEF RowsInv, RevisionsOK, Idle
  <2>5. SavedFits'
    BY <2>1, <2>2 DEF RowsInv, SavedFits, RevisionsOK, Idle
  <2>6. SavedAgrees'
    BY <2>1, <2>2, Identities DEF SavedAgrees, Stored
  <2>7. QED
    BY <2>1, <2>4, <2>5, <2>6 DEF RowsInv
<1>2. CASE Migrate
  <2> USE <1>2
  <2>1. /\ RowsFit(rev', rides', resorts', records')
        /\ rev >= 6 /\ rev' >= 6 =>
             \A r \in ResortId : (Stored(r)' <=> Stored(r)) /\ IdentityOf(r)' = IdentityOf(r)
    BY MigrateKeepsRows DEF RowsInv
  <2>2. /\ target' = target /\ rev' = NextRev /\ ~ Idle /\ saved' = IF NextRev = target THEN <<>> ELSE saved
    BY DEF Migrate
  <2>3. RevisionsOK'
    BY <2>2 DEF RowsInv, RevisionsOK, Idle, NextRev
  <2>4. ASSUME ~ Idle'
        PROVE  saved' = saved /\ (target > rev => target' > rev' /\ rev' >= rev) /\ (target < rev => target' < rev' /\ rev' <= rev)
    BY <2>2, <2>4 DEF RowsInv, RevisionsOK, Idle, NextRev
  <2>5. SavedFits'
    <3>1. /\ saved.rev \in 0..HeadRev /\ RowsFit(saved.rev, saved.rides, saved.resorts, saved.records)
          /\ target > rev => saved.rev <= rev
          /\ target < rev => saved.rev >= rev
      BY <2>2 DEF RowsInv, SavedFits
    <3>2. rev \in 0..HeadRev /\ target \in 0..HeadRev /\ target # rev /\ rev' \in 0..HeadRev
      BY <2>2, <2>3 DEF RowsInv, RevisionsOK, Idle
    <3>3. SUFFICES ASSUME ~ Idle'
                   PROVE  /\ saved'.rev \in 0..HeadRev
                          /\ target' > rev' => saved'.rev <= rev'
                          /\ target' < rev' => saved'.rev >= rev'
                          /\ RowsFit(saved'.rev, saved'.rides, saved'.resorts, saved'.records)
      BY DEF SavedFits
    <3>4. QED
      BY <2>2, <2>4, <3>1, <3>2, <3>3
  <2>6. ASSUME ~ Idle', rev' >= 6, saved'.rev >= 6
        PROVE  \A r \in ResortId :
                 /\ Stored(r)' <=> saved'.resorts[r].name # Nil
                 /\ IdentityOf(r)' = IdentityIn(saved'.rev, saved'.resorts, saved'.records, r)
    <3>1. saved' = saved /\ rev >= 6
      BY <2>2, <2>4, <2>6 DEF RowsInv, SavedFits, RevisionsOK, Idle, NextRev
    <3>2. QED
      BY <2>1, <2>2, <2>6, <3>1 DEF RowsInv, SavedAgrees
  <2>7. SavedAgrees'
    BY <2>6 DEF SavedAgrees
  <2>8. QED
    BY <2>1, <2>3, <2>5, <2>7 DEF RowsInv
<1>3. CASE RollBack
  BY <1>3 DEF RollBack, RowsInv, RevisionsOK, SavedFits, SavedAgrees, Idle
<1>4. CASE StoreRide
  <2>1. rev' = rev /\ target' = rev' /\ saved' = <<>> /\ rides' = TRUE /\ rev >= 3
        /\ resorts' = resorts /\ records' = records
    BY <1>4 DEF StoreRide, RowsInv, RevisionsOK, Idle
  <2>2. RowsFit(rev', rides', resorts', records')
    BY <2>1 DEF RowsInv, RowsFit
  <2>3. QED
    BY <2>1, <2>2 DEF RowsInv, RevisionsOK, SavedFits, SavedAgrees, Idle
<1>5. ASSUME NEW r \in ResortId, NEW name \in Name,
             \/ \E ext \in ExternalId \cup {Nil} : LegacyImport(r, name, ext)
             \/ \E ext \in ExternalId : CatalogImport(r, name, ext)
      PROVE  RowsInv'
  <2>1. RowsFit(rev', rides', resorts', records')
    BY <1>5, LegacyImportFits, CatalogImportFits
  <2>2. rev' = rev /\ target' = rev' /\ saved' = <<>>
    BY <1>5 DEF LegacyImport, CatalogImport, RowsInv, RevisionsOK, Idle
  <2>3. QED
    BY <2>1, <2>2 DEF RowsInv, RevisionsOK, SavedFits, SavedAgrees, Idle
<1>6. QED
  BY <1>1, <1>2, <1>3, <1>4, <1>5 DEF Next

LEMMA RowsInvHolds == Spec => []RowsInv
<1>1. Init => RowsInv
  <2> SUFFICES ASSUME Init PROVE RowsInv
    OBVIOUS
  <2>1. resorts \in [ResortId -> [name : Name \cup {Nil}, ext : ExternalId \cup {Nil}]]
    BY DEF Init, NoResort
  <2>2. records \in [ExternalId -> [resort : ResortId \cup {Nil}, legacy : BOOLEAN]]
    BY DEF Init, NoRecord
  <2>3. /\ \A r \in ResortId : resorts[r].name = Nil /\ resorts[r].ext = Nil
        /\ \A e \in ExternalId : records[e].resort = Nil
    BY DEF Init, NoResort, NoRecord
  <2>4. RowsFit(rev, rides, resorts, records)
    BY <2>1, <2>2, <2>3 DEF RowsFit, Init
  <2>5. QED
    BY <2>4 DEF Init, RowsInv, RevisionsOK, SavedFits, SavedAgrees, Idle
<1>2. QED
  BY <1>1, RowsInvStep, PTL DEF Spec

KeepsIdentities == \A r \in ResortId : Stored(r) => IdentityOf(r)' = IdentityOf(r)

(* As long as 0007 is applied a resort keeps its external identity, whatever *)
(* revisions a command goes through and wherever it is rolled back           *)
(* (0016_resort_catalog_sources.py, upgrade and downgrade).                  *)
THEOREM IdentityHolds == Spec => LegacyIdentityKept
<1>1. RowsInv /\ [Next]_vars => [rev >= 6 /\ rev' >= 6 => KeepsIdentities]_vars
  <2> SUFFICES ASSUME RowsInv, Next, rev >= 6, rev' >= 6 PROVE KeepsIdentities
    OBVIOUS
  <2>1. CASE rev' = rev /\ resorts' = resorts /\ records' = records
    BY <2>1, Identities DEF KeepsIdentities
  <2>2. CASE Migrate
    BY <2>2, MigrateKeepsRows DEF KeepsIdentities, RowsInv
  <2>3. CASE RollBack
    <3>1. rev' = saved.rev /\ resorts' = saved.resorts /\ records' = saved.records /\ ~ Idle
      BY <2>3 DEF RollBack
    <3>2. \A r \in ResortId : IdentityOf(r) = IdentityIn(rev', resorts', records', r)
      BY <3>1 DEF RowsInv, SavedAgrees
    <3>3. QED
      BY <3>2, Identities DEF KeepsIdentities
  <2>4. CASE \E r \in ResortId, name \in Name :
               \/ \E ext \in ExternalId \cup {Nil} : LegacyImport(r, name, ext)
               \/ \E ext \in ExternalId : CatalogImport(r, name, ext)
    BY <2>4, LegacyImportFits, CatalogImportFits DEF KeepsIdentities
  <2>5. QED
    BY <2>1, <2>2, <2>3, <2>4 DEF Next, Command, StoreRide
<1>2. Spec => [][rev >= 6 /\ rev' >= 6 => KeepsIdentities]_vars
  BY <1>1, RowsInvHolds, PTL DEF Spec
<1>3. QED
  BY <1>2 DEF LegacyIdentityKept, KeepsIdentities

-------------------------------------------------------------------------------
(* The tables and columns that the rows need. *)

RideTable == <<"col", "ride_sessions", "id">>
ResortTable == <<"col", "resorts", "id">>
IdColumn == <<"col", "resorts", "external_id">>
RecordTable == <<"col", "resort_source_records", "id">>

SchemaFits(n, d) ==
  /\ WellFormed(d)
  /\ n >= 2 => ResortTable \in d
  /\ n >= 3 => RideTable \in d
  /\ n \in 6..14 => IdColumn \in d
  /\ n = HeadRev => RecordTable \in d

(* What the helpers of Schema make is of the table they name.               *)
LEMMA FactsAreOfTheirTable ==
  ASSUME NEW t, NEW f
  PROVE  /\ \A names : f \in Uniques(t, names) => f[1] = "unique" /\ f[2] = t
         /\ \A names : f \in Indexes(t, names) => f[1] = "index" /\ f[2] = t
         /\ \A names : f \in Checks(t, names) => f[1] = "check" /\ f[2] = t
         /\ \A cs : f \in PrimaryKey(t, cs) => f[1] = "pk" /\ f[2] = t
         /\ \A c, u, a : f \in Ref(t, c, u, a) => f[1] = "fk" /\ f[2] = t
         /\ \A c, e : f \in EnumColumn(t, c, e) => f[1] = "uses" /\ f[2] = t
         /\ \A r, w, o : f \in Columns(t, r, w, o) => f[2] = t /\ f[3] \in r \cup w \cup o
BY DEF Uniques, Indexes, Checks, PrimaryKey, Ref, EnumColumn, Columns

MadeFor(t, f) ==
  \/ \E r, w, o : f \in Columns(t, r, w, o)
  \/ \E cs : f \in PrimaryKey(t, cs)
  \/ \E c, u, a : f \in Ref(t, c, u, a)
  \/ \E c, e : f \in EnumColumn(t, c, e)
  \/ \E names : f \in Uniques(t, names)
  \/ \E names : f \in Checks(t, names)
  \/ \E names : f \in Indexes(t, names)

(* What the helpers drop is of the tables and columns they name.            *)
LEMMA DroppedTables ==
  ASSUME NEW d, NEW ts, NEW f \in DropsTables(d, ts).drop
  PROVE  f[2] \in ts
BY DEF DropsTables, Step, FactsOfTable

LEMMA DroppedColumns ==
  ASSUME NEW d, NEW t, NEW cs, NEW f \in DropsColumns(d, t, cs).drop
  PROVE  f[2] = t /\ f[3] \in cs
BY DEF DropsColumns, Step, FactsOfTable, FactsOfColumn

(* Two upgrades drop anything.                                              *)
LEMMA UpgradesThatDrop ==
  ASSUME NEW n \in 1..HeadRev, NEW d, NEW f \in Upgrade(n, d).drop
  PROVE  (n = 10 /\ f \in Up0011(d).drop) \/ (n = 15 /\ f \in Up0016(d).drop)
<1>1. \A add : Adds(add).drop = {}
  BY DEF Adds, Step
<1>2. /\ Up0001.drop = {} /\ Up0002.drop = {} /\ Up0003.drop = {} /\ Up0004.drop = {}
      /\ Up0006(d).drop = {} /\ Up0007.drop = {} /\ Up0009.drop = {} /\ Up0010.drop = {}
      /\ Up0012.drop = {} /\ Up0013.drop = {} /\ Up0014.drop = {} /\ Up0015.drop = {}
  BY <1>1 DEF Up0001, Up0002, Up0003, Up0004, Up0006, Up0007, Up0009, Up0010, Up0012, Up0013,
              Up0014, Up0015
<1>3. Up0008(d).drop = {}
  BY <1>1 DEF Up0008
<1>4. CASE n <= 7
  BY <1>2, <1>3, <1>4 DEF Upgrade
<1>5. CASE n \in {8, 9, 11, 12, 13, 14}
  BY <1>2, <1>5 DEF Upgrade
<1>6. CASE n \in {10, 15}
  BY <1>6 DEF Upgrade
<1>7. QED
  BY <1>4, <1>5, <1>6

(* No upgrade drops what rows need, but 0016 the ids it has moved.          *)
LEMMA UpgradesKeep ==
  ASSUME NEW n \in 1..HeadRev, NEW d, NEW f \in Upgrade(n, d).drop
  PROVE  f # RideTable /\ f # ResortTable /\ (n < 15 => f # IdColumn)
<1>1. CASE n = 10 /\ f \in Up0011(d).drop
  <2>1. \/ f \in FactsOfTable(d, "session_point_analytics")
        \/ f \in DropsColumns(d, "session_points", Derived \cup {"accepted_for_analytics"}).drop
        \/ f \in {<<"enum", "motion_state">>, <<"enum", "quality_class">>}
        \/ f \in DropsColumns(d, "ride_sessions", OldRideTotals).drop
    BY <1>1 DEF Up0011, Step
  <2>2. f[2] = "ride_sessions" => f[3] \in OldRideTotals \/ f \in {<<"enum", "motion_state">>, <<"enum", "quality_class">>}
    BY <2>1, DroppedColumns DEF FactsOfTable
  <2>3. f[2] # "resorts"
    BY <2>1, DroppedColumns DEF FactsOfTable
  <2>4. QED
    BY <2>2, <2>3 DEF RideTable, ResortTable, IdColumn, OldRideTotals
<1>2. CASE n = 15 /\ f \in Up0016(d).drop
  <2>1. \/ f \in ResortIdentityKey \/ f \in ResortNameKey
        \/ f \in DropsColumns(d, "resorts", ResortIdentity).drop
    BY <1>2 DEF Up0016, Step
  <2>2. f[1] = "unique" \/ (f[2] = "resorts" /\ f[3] \in ResortIdentity)
    <3>1. f \in DropsColumns(d, "resorts", ResortIdentity).drop => f[2] = "resorts" /\ f[3] \in ResortIdentity
      BY DroppedColumns
    <3>2. f \in ResortIdentityKey \/ f \in ResortNameKey => f[1] = "unique"
      BY FactsAreOfTheirTable DEF ResortIdentityKey, ResortNameKey
    <3>3. QED
      BY <2>1, <3>1, <3>2
  <2>3. QED
    BY <1>2, <2>2 DEF RideTable, ResortTable, IdColumn, ResortIdentity
<1>3. QED
  BY <1>1, <1>2, UpgradesThatDrop

(* Nor does a downgrade, before the one that drops the rows too.            *)
LEMMA DowngradesKeep ==
  ASSUME NEW n \in 1..HeadRev, NEW d, NEW f \in Downgrade(n, d).drop
  PROVE  /\ n >= 4 => f # RideTable
         /\ n >= 3 => f # ResortTable
         /\ n \in 7..14 => f # IdColumn
<1> USE DEF RideTable, ResortTable, IdColumn
<1>1. CASE n \in {1, 2}
  BY <1>1
<1>2. CASE n = 3
  BY <1>2 DEF Downgrade, Down0003, Step, FactsOfTable
<1>3. CASE n = 4
  BY <1>3 DEF Downgrade, Down0004, Step, FactsOfTable, PointOffsetKey, Uniques
<1>4. CASE n = 5
  <2>1. f[2] = "session_points"
    BY <1>4, DroppedColumns DEF Downgrade, Down0006
  <2>2. QED
    BY <1>4, <2>1
<1>5. CASE n = 6
  <2>1. \/ f \in DropsColumns(d, "resorts", ResortIdentity \cup {"is_active"}).drop
        \/ f \in ResortIdentityKey \/ f \in Indexes("resorts", {"ix_resorts_is_active"})
    BY <1>5 DEF Downgrade, Down0007, DropsColumns, Step
  <2>2. f[1] \in {"unique", "index"} \/ (f[2] = "resorts" /\ f[3] \in ResortIdentity \cup {"is_active"})
    <3>1. f \in DropsColumns(d, "resorts", ResortIdentity \cup {"is_active"}).drop =>
            f[2] = "resorts" /\ f[3] \in ResortIdentity \cup {"is_active"}
      BY DroppedColumns
    <3>2. f \in ResortIdentityKey \/ f \in Indexes("resorts", {"ix_resorts_is_active"}) => f[1] \in {"unique", "index"}
      BY FactsAreOfTheirTable DEF ResortIdentityKey
    <3>3. QED
      BY <2>1, <3>1, <3>2
  <2>3. QED
    BY <1>5, <2>2 DEF ResortIdentity
<1>6. CASE n = 7
  <2>1. f[2] = "session_points"
    BY <1>6, DroppedColumns DEF Downgrade, Down0008
  <2>2. QED
    BY <1>6, <2>1
<1>7. CASE n = 8
  <2>1. f \in PointEnumFacts
    BY <1>7 DEF Downgrade, Down0009, Step
  <2>2. f[1] # "col"
    BY <2>1 DEF PointEnumFacts, EnumColumn
  <2>3. QED
    BY <2>2
<1>8. CASE n = 9
  <2>1. f[2] = "session_point_analytics"
    BY <1>8, DroppedTables DEF Downgrade
  <2>2. QED
    BY <2>1
<1>9. CASE n = 10
  <2>1. \/ f \in DropsTables(d, {"ride_session_overrides", "ride_session_actions", "resort_lifts"}).drop
        \/ f[1] # "col"
        \/ f \in DropsColumns(d, "ride_sessions", Summary \cup RideExtras \cup {"source", "sport"}).drop
    <3>1. \/ f \in DropsTables(d, {"ride_session_overrides", "ride_session_actions", "resort_lifts"}).drop
          \/ f \in Uniques("ride_sessions", {"ix_ride_sessions_external_identifier_unique"})
          \/ f \in DropsColumns(d, "ride_sessions", Summary \cup RideExtras \cup {"source", "sport"}).drop
          \/ f \in Checks("ride_sessions", {"ck_ride_sessions_source", "ck_ride_sessions_sport"})
          \/ f = <<"enum", "session_conditions">>
      BY <1>9 DEF Downgrade, Down0011, Step
    <3>2. f \in Uniques("ride_sessions", {"ix_ride_sessions_external_identifier_unique"})
            \/ f \in Checks("ride_sessions", {"ck_ride_sessions_source", "ck_ride_sessions_sport"}) => f[1] # "col"
      BY FactsAreOfTheirTable
    <3>3. QED
      BY <3>1, <3>2
  <2>2. \/ f[2] \in {"ride_session_overrides", "ride_session_actions", "resort_lifts"}
        \/ f[1] # "col"
        \/ f[2] = "ride_sessions" /\ f[3] \in Summary \cup RideExtras \cup {"source", "sport"}
    BY <2>1, DroppedTables, DroppedColumns
  <2>3. QED
    BY <2>2 DEF Summary, RideExtras
<1>10. CASE n = 11
  <2>1. f[1] = "default"
    BY <1>10 DEF Downgrade, Down0012, Step, SummaryDefaults
  <2>2. QED
    BY <2>1
<1>11. CASE n = 12
  <2>1. f[2] = "refresh_tokens"
    BY <1>11, DroppedTables DEF Downgrade
  <2>2. QED
    BY <2>1
<1>12. CASE n = 13
  <2>1. f[2] = "session_points"
    BY <1>12, DroppedColumns DEF Downgrade
  <2>2. QED
    BY <2>1
<1>13. CASE n = 14
  <2>1. \/ f \in DropsColumns(d, "ride_sessions", {"break_count", "break_duration_s"}).drop
        \/ f \in DropsColumns(d, "ride_session_actions", {"lift_name"}).drop
        \/ f \in DropsColumns(d, "resort_lifts", {"osm_aerialway"}).drop
    BY <1>13 DEF Downgrade, Down0015, Step
  <2>2. \/ f[2] = "ride_sessions" /\ f[3] \in {"break_count", "break_duration_s"}
        \/ f[2] \in {"ride_session_actions", "resort_lifts"}
    BY <2>1, DroppedColumns
  <2>3. QED
    BY <2>2
<1>14. CASE n = 15
  <2>1. f \in LiftOrigin \/ f \in CatalogColumns \/ f \in CatalogTables
    BY <1>14 DEF Downgrade, Down0016, Step
  <2>2. f \in LiftOrigin => f[2] = "resort_lifts"
    BY FactsAreOfTheirTable DEF LiftOrigin
  <2>3. f \in CatalogTables => f[2] \in {"resort_source_records", "resort_field_overrides"}
    <3>1. MadeFor("resort_source_records", f) \/ MadeFor("resort_field_overrides", f) \/ f \notin CatalogTables
      BY Zenon DEF CatalogTables, MadeFor
    <3>2. QED
      BY <3>1, FactsAreOfTheirTable DEF MadeFor
  <2>4. f \in CatalogColumns => f[3] # "id"
    BY DEF CatalogColumns, Columns
  <2>5. QED
    BY <1>14, <2>1, <2>2, <2>3, <2>4
<1>15. QED
  BY <1>1, <1>2, <1>3, <1>4, <1>5, <1>6, <1>7, <1>8, <1>9, <1>10, <1>11, <1>12, <1>13, <1>14

(* Where they come from.                                                    *)
LEMMA UpgradesAdd ==
  ASSUME NEW d
  PROVE  /\ ResortTable \in Upgrade(2, d).add
         /\ RideTable \in Upgrade(3, d).add
         /\ IdColumn \in Upgrade(6, d).add
         /\ RecordTable \in Upgrade(15, d).add
         /\ IdColumn \in Downgrade(15, d).add
<1>1. ResortTable \in Up0002.add
  BY DEF ResortTable, Up0002, Adds, Step, Columns
<1>2. RideTable \in Up0003.add
  BY DEF RideTable, Up0003, Adds, Step, Columns
<1>3. IdColumn \in Up0007.add
  BY DEF IdColumn, Up0007, Adds, Step, Columns, ResortIdentity
<1>4. RecordTable \in Up0016(d).add
  BY DEF RecordTable, Up0016, Step, CatalogTables, Columns
<1>5. IdColumn \in Down0016.add
  BY DEF IdColumn, Down0016, Step, Columns, ResortIdentity
<1>6. QED
  BY <1>1, <1>2, <1>3, <1>4, <1>5 DEF Upgrade, Downgrade

SchemaInv ==
  /\ SchemaFits(rev, db)
  /\ ~ Idle => SchemaFits(saved.rev, saved.db)

LEMMA MigrateKeepsSchema ==
  ASSUME RevisionsOK, SchemaFits(rev, db), Migrate
  PROVE  SchemaFits(rev', db')
<1>1. db' = (db \ Migration.drop) \cup Migration.add /\ WellFormed(db')
  BY DEF Migrate, Refused, Applied
<1>2. rev \in 0..15 /\ target \in 0..15 /\ target # rev
  BY DEF Migrate, RevisionsOK, Idle
<1>3. CASE target > rev
  <2>1. rev' = rev + 1 /\ rev + 1 \in 1..15 /\ Migration = Upgrade(rev + 1, db)
    BY <1>2, <1>3 DEF Migrate, NextRev, Migration
  <2>2. \A f \in db : f \notin Upgrade(rev + 1, db).drop => f \in db'
    BY <1>1, <2>1
  <2>3. \A f \in Upgrade(rev + 1, db).add : f \in db'
    BY <1>1, <2>1
  <2>4. rev' >= 2 => ResortTable \in db'
    BY <2>1, <2>2, <2>3, UpgradesKeep, UpgradesAdd, <1>2 DEF SchemaFits
  <2>5. rev' >= 3 => RideTable \in db'
    BY <2>1, <2>2, <2>3, UpgradesKeep, UpgradesAdd, <1>2 DEF SchemaFits
  <2>6. rev' \in 6..14 => IdColumn \in db'
    BY <2>1, <2>2, <2>3, UpgradesKeep, UpgradesAdd, <1>2 DEF SchemaFits
  <2>7. rev' = 15 => RecordTable \in db'
    BY <2>1, <2>3, UpgradesAdd, <1>2
  <2>8. QED
    BY <1>1, <2>4, <2>5, <2>6, <2>7 DEF SchemaFits
<1>4. CASE target < rev
  <2>1. rev' = rev - 1 /\ rev \in 1..15 /\ Migration = Downgrade(rev, db)
    BY <1>2, <1>4 DEF Migrate, NextRev, Migration
  <2>2. \A f \in db : f \notin Downgrade(rev, db).drop => f \in db'
    BY <1>1, <2>1
  <2>3. \A f \in Downgrade(rev, db).add : f \in db'
    BY <1>1, <2>1
  <2>4. rev' >= 2 => ResortTable \in db'
    BY <2>1, <2>2, DowngradesKeep, <1>2 DEF SchemaFits
  <2>5. rev' >= 3 => RideTable \in db'
    BY <2>1, <2>2, DowngradesKeep, <1>2 DEF SchemaFits
  <2>6. rev' \in 6..14 => IdColumn \in db'
    BY <2>1, <2>2, <2>3, DowngradesKeep, UpgradesAdd, <1>2 DEF SchemaFits
  <2>7. QED
    BY <1>1, <2>1, <2>4, <2>5, <2>6 DEF SchemaFits
<1>5. QED
  BY <1>2, <1>3, <1>4

LEMMA SchemaInvStep == RowsInv /\ SchemaInv /\ [Next]_vars => SchemaInv'
<1> SUFFICES ASSUME RowsInv, SchemaInv, [Next]_vars PROVE SchemaInv'
    OBVIOUS
<1>1. ASSUME NEW t \in 0..HeadRev, Command(t)
      PROVE  SchemaInv'
  <2>1. saved'.rev = rev /\ saved'.db = db /\ rev' = rev /\ db' = db
    BY <1>1 DEF Command, Snapshot
  <2>2. QED
    BY <2>1 DEF SchemaInv
<1>2. CASE Migrate
  <2>1. SchemaFits(rev', db')
    BY <1>2, MigrateKeepsSchema DEF RowsInv, SchemaInv
  <2>2. ~ Idle' => saved' = saved /\ ~ Idle
    BY <1>2 DEF Migrate, Idle
  <2>3. QED
    BY <2>1, <2>2 DEF SchemaInv
<1>3. CASE RollBack
  BY <1>3 DEF RollBack, SchemaInv, Idle
<1>4. CASE UNCHANGED <<rev, db, target, saved>>
  BY <1>4 DEF SchemaInv, Idle
<1>5. QED
  BY <1>1, <1>2, <1>3, <1>4 DEF Next, StoreRide, LegacyImport, CatalogImport

LEMMA SchemaInvHolds == Spec => []SchemaInv
<1>1. Init => SchemaInv
  BY DEF Init, SchemaInv, SchemaFits, WellFormed, Idle
<1>2. QED
  BY <1>1, RowsInvHolds, SchemaInvStep, PTL DEF Spec

(* Whatever commands run and are rolled back, the schema is one PostgreSQL  *)
(* accepts and no row is without its table or column.                       *)
THEOREM MigTypesHold == Spec => []MigTypeOK
<1>1. RowsInv /\ SchemaInv => MigTypeOK
  <2> SUFFICES ASSUME RowsInv, SchemaInv PROVE MigTypeOK
    OBVIOUS
  <2>1. rev \in 0..15 /\ target \in 0..15 /\ (Idle <=> saved = <<>>) /\ WellFormed(db)
    BY DEF RowsInv, RevisionsOK, SchemaInv, SchemaFits
  <2>2. \A f \in db : f[1] = "col" => f[2] \in Tables(db)
    BY DEF Tables
  <2>3. \A f \in db : f[1] = "col" => f[3] \in ColumnsOf(db, f[2])
    BY DEF ColumnsOf
  <2>4. rides => "ride_sessions" \in Tables(db)
    BY <2>2 DEF RowsInv, RowsFit, SchemaInv, SchemaFits, RideTable
  <2>5. rev >= 2 => "resorts" \in Tables(db)
    BY <2>2 DEF SchemaInv, SchemaFits, ResortTable
  <2>6. rev \in 6..14 => "external_id" \in ColumnsOf(db, "resorts")
    BY <2>3 DEF SchemaInv, SchemaFits, IdColumn
  <2>7. rev = 15 => "resort_source_records" \in Tables(db)
    BY <2>2 DEF SchemaInv, SchemaFits, RecordTable
  <2>8. ASSUME NEW r \in ResortId
        PROVE  /\ resorts[r].name \in Name \cup {Nil}
               /\ resorts[r].ext \in ExternalId \cup {Nil}
               /\ Stored(r) => "resorts" \in Tables(db)
               /\ resorts[r].ext # Nil => Stored(r) /\ "external_id" \in ColumnsOf(db, "resorts")
    BY <2>5, <2>6 DEF RowsInv, RowsFit, Stored
  <2>9. ASSUME NEW e \in ExternalId, Linked(e)
        PROVE  Stored(records[e].resort) /\ "resort_source_records" \in Tables(db)
    BY <2>7, <2>9 DEF RowsInv, RowsFit, Stored, Linked
  <2>10. QED
    BY <2>1, <2>4, <2>8, <2>9 DEF MigTypeOK
<1>2. QED
  BY <1>1, RowsInvHolds, SchemaInvHolds, PTL

-------------------------------------------------------------------------------
(* The chain: what the upgrades alone lead to. *)

(* Clean is defined by its own recursion: the function that goes up the      *)
(* chain by hand satisfies it.                                              *)
LEMMA CleanStep ==
  /\ Clean[0] = {}
  /\ \A n \in 1..HeadRev : Clean[n] = Applied(Upgrade(n, Clean[n - 1]), Clean[n - 1])
<1> DEFINE After(n, d) == Applied(Upgrade(n, d), d)
           c0 == {}
           c1 == After(1, c0)     c2 == After(2, c1)     c3 == After(3, c2)
           c4 == After(4, c3)     c5 == After(5, c4)     c6 == After(6, c5)
           c7 == After(7, c6)     c8 == After(8, c7)     c9 == After(9, c8)
           c10 == After(10, c9)   c11 == After(11, c10)  c12 == After(12, c11)
           c13 == After(13, c12)  c14 == After(14, c13)  c15 == After(15, c14)
           step(c) == [n \in 0..15 |-> IF n = 0 THEN {} ELSE After(n, c[n - 1])]
           byHand == [n \in 0..15 |->
                        CASE n = 0 -> c0   [] n = 1 -> c1   [] n = 2 -> c2   [] n = 3 -> c3
                          [] n = 4 -> c4   [] n = 5 -> c5   [] n = 6 -> c6   [] n = 7 -> c7
                          [] n = 8 -> c8   [] n = 9 -> c9   [] n = 10 -> c10 [] n = 11 -> c11
                          [] n = 12 -> c12 [] n = 13 -> c13 [] n = 14 -> c14 [] n = 15 -> c15]
<1> HIDE DEF c1, c2, c3, c4, c5, c6, c7, c8, c9, c10, c11, c12, c13, c14, c15
<1>1. /\ byHand[0] = c0 /\ byHand[1] = c1 /\ byHand[2] = c2 /\ byHand[3] = c3
      /\ byHand[4] = c4 /\ byHand[5] = c5 /\ byHand[6] = c6 /\ byHand[7] = c7
  OBVIOUS
<1>2. /\ byHand[8] = c8 /\ byHand[9] = c9 /\ byHand[10] = c10 /\ byHand[11] = c11
      /\ byHand[12] = c12 /\ byHand[13] = c13 /\ byHand[14] = c14 /\ byHand[15] = c15
  OBVIOUS
<1>3. /\ c1 = After(1, c0) /\ c2 = After(2, c1) /\ c3 = After(3, c2) /\ c4 = After(4, c3)
      /\ c5 = After(5, c4) /\ c6 = After(6, c5) /\ c7 = After(7, c6) /\ c8 = After(8, c7)
      /\ c9 = After(9, c8) /\ c10 = After(10, c9) /\ c11 = After(11, c10) /\ c12 = After(12, c11)
      /\ c13 = After(13, c12) /\ c14 = After(14, c13) /\ c15 = After(15, c14)
  <2> HIDE DEF After
  <2>1. c1 = After(1, c0)
    BY DEF c1
  <2>2. c2 = After(2, c1)
    BY DEF c2
  <2>3. c3 = After(3, c2)
    BY DEF c3
  <2>4. c4 = After(4, c3)
    BY DEF c4
  <2>5. c5 = After(5, c4)
    BY DEF c5
  <2>6. c6 = After(6, c5)
    BY DEF c6
  <2>7. c7 = After(7, c6)
    BY DEF c7
  <2>8. c8 = After(8, c7)
    BY DEF c8
  <2>9. c9 = After(9, c8)
    BY DEF c9
  <2>10. c10 = After(10, c9)
    BY DEF c10
  <2>11. c11 = After(11, c10)
    BY DEF c11
  <2>12. c12 = After(12, c11)
    BY DEF c12
  <2>13. c13 = After(13, c12)
    BY DEF c13
  <2>14. c14 = After(14, c13)
    BY DEF c14
  <2>15. c15 = After(15, c14)
    BY DEF c15
  <2>16. QED
    BY <2>1, <2>2, <2>3, <2>4, <2>5, <2>6, <2>7, <2>8, <2>9, <2>10, <2>11, <2>12, <2>13, <2>14, <2>15
<1>4. byHand = step(byHand)
  <2> HIDE DEF After, byHand
  <2>1. ASSUME NEW n \in 0..15
        PROVE  byHand[n] = IF n = 0 THEN {} ELSE After(n, byHand[n - 1])
    <3>1. CASE n \in 0..7
      BY <1>1, <1>3, <3>1
    <3>2. CASE n \in 8..15
      BY <1>1, <1>2, <1>3, <3>2
    <3>3. QED
      BY <3>1, <3>2
  <2>2. DOMAIN byHand = 0..15 /\ byHand = [n \in 0..15 |-> byHand[n]]
    BY DEF byHand
  <2>3. QED
    BY <2>1, <2>2
<1>5. Clean = CHOOSE c : c = step(c)
  BY DEF Clean
<1>6. Clean = step(Clean)
  BY <1>4, <1>5
<1>7. QED
  BY <1>6

(* All that the upgrade at a place can add; 0006 and 0008 add the part of it *)
(* that is missing.                                                         *)
Made(n) ==
  CASE n = 5 -> Columns("session_points", {}, {}, Enriched)
    [] n = 7 -> Columns("session_points", {"recorded_at"}, {"accepted_for_analytics"}, {})
    [] OTHER -> Upgrade(n, {}).add

LEMMA UpgradesMake ==
  ASSUME NEW n \in 1..HeadRev, NEW d
  PROVE  /\ Upgrade(n, d).add \subseteq Made(n)
         /\ n \notin {5, 7} => Upgrade(n, d).add = Made(n)
<1>1. CASE n \in {5, 7}
  <2>1. Up0006(d).add \subseteq Columns("session_points", {}, {}, Enriched)
    BY DEF Up0006, Adds, Step, Columns, Missing
  <2>2. Up0008(d).add \subseteq Columns("session_points", {"recorded_at"}, {"accepted_for_analytics"}, {})
    BY DEF Up0008, Adds, Step
  <2>3. QED
    BY <1>1, <2>1, <2>2 DEF Made, Upgrade
<1>2. CASE n \in {1, 2, 3, 4, 6, 8, 9}
  BY <1>2 DEF Made, Upgrade
<1>3. CASE n \in {10, 15}
  BY <1>3 DEF Made, Upgrade, Up0011, Up0016, Step
<1>4. CASE n \in {11, 12, 13, 14}
  BY <1>4 DEF Made, Upgrade
<1>5. QED
  BY <1>1, <1>2, <1>3, <1>4

(* What holds at the bottom and goes up with each revision holds along the   *)
(* chain: there would be a first place where it does not.                   *)
LEMMA UpTheChain ==
  ASSUME NEW S, 0 \in S, \A n \in 0..14 : n \in S => n + 1 \in S
  PROVE  0..HeadRev \subseteq S
<1>1. {0, 1, 2, 3, 4, 5} \subseteq S
  OBVIOUS
<1>2. {6, 7, 8, 9, 10} \subseteq S
  BY <1>1
<1>3. {11, 12, 13, 14, 15} \subseteq S
  BY <1>2
<1>4. QED
  BY <1>1, <1>2, <1>3

(* Whatever the schema holds an upgrade has made.                            *)
LEMMA SomebodyMadeIt ==
  ASSUME NEW n \in 0..HeadRev, NEW f \in Clean[n]
  PROVE  \E k \in 1..n : f \in Made(k)
<1> DEFINE S == {m \in 0..15 : \A g \in Clean[m] : \E k \in 1..m : g \in Made(k)}
<1>1. 0 \in S
  BY CleanStep
<1>2. ASSUME NEW m \in 0..14, m \in S
      PROVE  m + 1 \in S
  <2>1. Clean[m + 1] = Applied(Upgrade(m + 1, Clean[m]), Clean[m])
    BY CleanStep
  <2>2. \A g \in Clean[m + 1] : g \in Clean[m] \/ g \in Made(m + 1)
    BY <2>1, UpgradesMake DEF Applied
  <2>3. QED
    BY <1>2, <2>2
<1>3. n \in S
  BY <1>1, <1>2, UpTheChain
<1>4. QED
  BY <1>3

(* It stays until 0011 or 0016 drops it.                                     *)
LEMMA FactsStay ==
  ASSUME NEW n \in 0..14, NEW f \in Clean[n],
         n = 9 => f \notin Up0011(Clean[9]).drop, n = 14 => f \notin Up0016(Clean[14]).drop
  PROVE  f \in Clean[n + 1]
<1>1. Clean[n + 1] = Applied(Upgrade(n + 1, Clean[n]), Clean[n])
  BY CleanStep
<1>2. f \notin Upgrade(n + 1, Clean[n]).drop
  BY UpgradesThatDrop
<1>3. QED
  BY <1>1, <1>2 DEF Applied

LEMMA FactsHaveATable ==
  ASSUME NEW t, NEW f, MadeFor(t, f)
  PROVE  Len(f) > 2 /\ f[2] = t /\ f[1] # "enum"
<1>1. \A r, w, o : f \in Columns(t, r, w, o) => Len(f) > 2 /\ f[2] = t /\ f[1] # "enum"
  BY DEF Columns
<1>2. \A cs : f \in PrimaryKey(t, cs) => Len(f) > 2 /\ f[2] = t /\ f[1] # "enum"
  BY DEF PrimaryKey
<1>3. \A c, u, a : f \in Ref(t, c, u, a) => Len(f) > 2 /\ f[2] = t /\ f[1] # "enum"
  BY DEF Ref
<1>4. \A c, e : f \in EnumColumn(t, c, e) => Len(f) > 2 /\ f[2] = t /\ f[1] # "enum"
  BY DEF EnumColumn
<1>5. \A names : f \in Uniques(t, names) \/ f \in Checks(t, names) \/ f \in Indexes(t, names) => Len(f) > 2 /\ f[2] = t /\ f[1] # "enum"
  BY DEF Uniques, Checks, Indexes
<1>6. QED
  BY <1>1, <1>2, <1>3, <1>4, <1>5 DEF MadeFor

(* The tables and the enum types that each revision makes facts of.          *)
TablesOf(n) ==
  CASE n = 1 -> {"users"}
    [] n = 2 -> {"resorts", "favorite_resorts"}
    [] n = 3 -> {"ride_sessions", "session_points"}
    [] n = 4 -> {"weather_cache", "session_points"}
    [] n \in {5, 7, 8, 13} -> {"session_points"}
    [] n = 6 -> {"resorts"}
    [] n = 9 -> {"session_point_analytics"}
    [] n = 10 -> {"ride_session_actions", "ride_session_overrides", "resort_lifts", "ride_sessions"}
    [] n = 11 -> {"ride_sessions"}
    [] n = 12 -> {"refresh_tokens"}
    [] n = 14 -> {"resort_lifts", "ride_session_actions", "ride_sessions"}
    [] n = 15 -> {"resort_source_records", "resort_field_overrides", "resorts", "resort_lifts"}

EnumsOf(n) ==
  CASE n = 3 -> {"ride_session_status"}
    [] n = 8 -> {"provider_type", "motion_state", "quality_class"}
    [] n = 10 -> {"session_conditions"}
    [] OTHER -> {}

LEMMA MadeOfTables ==
  ASSUME NEW n \in 1..HeadRev, NEW f \in Made(n)
  PROVE  (\E t \in TablesOf(n) : MadeFor(t, f)) \/ (\E e \in EnumsOf(n) : f = <<"enum", e>>)
<1>0. n \notin {5, 7} => Made(n) = Upgrade(n, {}).add
  BY UpgradesMake
<1>1. CASE n = 1
  <2>1. f \in Up0001.add
    BY <1>0, <1>1 DEF Upgrade
  <2>2. MadeFor("users", f)
    BY <2>1 DEF MadeFor, Up0001, Adds, Step
  <2>3. QED
    BY <1>1, <2>2 DEF TablesOf
<1>2. CASE n = 2
  <2>1. f \in Up0002.add
    BY <1>0, <1>2 DEF Upgrade
  <2>2. MadeFor("resorts", f) \/ MadeFor("favorite_resorts", f)
    BY <2>1 DEF MadeFor, Up0002, Adds, Step
  <2>3. QED
    BY <1>2, <2>2 DEF TablesOf
<1>3. CASE n = 3
  <2>1. f \in Up0003.add
    BY <1>0, <1>3 DEF Upgrade
  <2>2. MadeFor("ride_sessions", f) \/ MadeFor("session_points", f) \/ f = <<"enum", "ride_session_status">>
    BY <2>1 DEF MadeFor, Up0003, Adds, Step
  <2>3. QED
    BY <1>3, <2>2 DEF TablesOf, EnumsOf
<1>4. CASE n = 4
  <2>1. f \in Up0004.add
    BY <1>0, <1>4 DEF Upgrade
  <2>2. MadeFor("weather_cache", f) \/ MadeFor("session_points", f)
    BY <2>1 DEF MadeFor, Up0004, PointOffsetKey, Adds, Step
  <2>3. QED
    BY <1>4, <2>2 DEF TablesOf
<1>5. CASE n = 5
  <2>1. MadeFor("session_points", f)
    BY <1>5 DEF Made, MadeFor
  <2>2. QED
    BY <1>5, <2>1 DEF TablesOf
<1>6. CASE n = 6
  <2>1. f \in Up0007.add
    BY <1>0, <1>6 DEF Upgrade
  <2>2. MadeFor("resorts", f)
    BY <2>1 DEF MadeFor, Up0007, ResortIdentityKey, Adds, Step
  <2>3. QED
    BY <1>6, <2>2 DEF TablesOf
<1>7. CASE n = 7
  <2>1. MadeFor("session_points", f)
    BY <1>7 DEF Made, MadeFor
  <2>2. QED
    BY <1>7, <2>1 DEF TablesOf
<1>8. CASE n = 8
  <2>1. f \in PointEnumFacts
    BY <1>0, <1>8 DEF Upgrade, Up0009, Adds, Step
  <2>2. PICK e \in PointEnums : f = <<"enum", e[2]>> \/ f \in EnumColumn("session_points", e[1], e[2])
    BY <2>1 DEF PointEnumFacts
  <2>3. e[2] \in EnumsOf(8)
    BY <2>2 DEF PointEnums, EnumsOf
  <2>4. f \in EnumColumn("session_points", e[1], e[2]) => MadeFor("session_points", f)
    BY DEF MadeFor
  <2>5. QED
    BY <1>8, <2>2, <2>3, <2>4 DEF TablesOf
<1>9. CASE n = 9
  <2>1. f \in Up0010.add
    BY <1>0, <1>9 DEF Upgrade
  <2>2. MadeFor("session_point_analytics", f)
    BY <2>1 DEF MadeFor, Up0010, PointAnalytics, Adds, Step
  <2>3. QED
    BY <1>9, <2>2 DEF TablesOf
<1>10. CASE n = 10
  <2>1. f \in Up0011({}).add
    BY <1>0, <1>10 DEF Upgrade
  <2>2. MadeFor("ride_session_actions", f) \/ MadeFor("ride_session_overrides", f) \/ MadeFor("resort_lifts", f) \/ MadeFor("ride_sessions", f) \/ f = <<"enum", "session_conditions">>
    BY <2>1 DEF MadeFor, Up0011, AnalyzerTables, AnalyzerColumns, Adds, Step
  <2>3. QED
    BY <1>10, <2>2 DEF TablesOf, EnumsOf
<1>11. CASE n = 11
  <2>1. f \in SummaryDefaults
    BY <1>0, <1>11 DEF Upgrade, Up0012, Adds, Step
  <2>2. f \in Columns("ride_sessions", {}, Summary, {})
    BY <2>1 DEF SummaryDefaults, Columns
  <2>3. MadeFor("ride_sessions", f)
    BY <2>2 DEF MadeFor
  <2>4. QED
    BY <1>11, <2>3 DEF TablesOf
<1>12. CASE n = 12
  <2>1. f \in Up0013.add
    BY <1>0, <1>12 DEF Upgrade
  <2>2. MadeFor("refresh_tokens", f)
    BY <2>1 DEF MadeFor, Up0013, Adds, Step
  <2>3. QED
    BY <1>12, <2>2 DEF TablesOf
<1>13. CASE n = 13
  <2>1. f \in Up0014.add
    BY <1>0, <1>13 DEF Upgrade
  <2>2. MadeFor("session_points", f)
    BY <2>1 DEF MadeFor, Up0014, Adds, Step
  <2>3. QED
    BY <1>13, <2>2 DEF TablesOf
<1>14. CASE n = 14
  <2>1. f \in Up0015.add
    BY <1>0, <1>14 DEF Upgrade
  <2>2. MadeFor("resort_lifts", f) \/ MadeFor("ride_session_actions", f) \/ MadeFor("ride_sessions", f)
    BY <2>1 DEF MadeFor, Up0015, Adds, Step
  <2>3. QED
    BY <1>14, <2>2 DEF TablesOf
<1>15. CASE n = 15
  <2>1. f \in Up0016({}).add
    BY <1>0, <1>15 DEF Upgrade
  <2>2. MadeFor("resort_source_records", f) \/ MadeFor("resort_field_overrides", f) \/ MadeFor("resorts", f) \/ MadeFor("resort_lifts", f)
    BY <2>1 DEF MadeFor, Up0016, CatalogTables, CatalogColumns, LiftOrigin, Adds, Step
  <2>3. QED
    BY <1>15, <2>2 DEF TablesOf
<1>16. QED
  BY <1>1, <1>2, <1>3, <1>4, <1>5, <1>6, <1>7, <1>8, <1>9, <1>10, <1>11, <1>12, <1>13, <1>14, <1>15

(* The names that the revisions give to columns, keys, checks and indexes of *)
(* the tables that more than one of them touches.                           *)
LEMMA PointNames ==
  ASSUME NEW n \in 1..HeadRev, NEW f \in Made(n), f[2] = "session_points"
  PROVE  \/ n = 3 /\ f[1] # "uses"
            /\ f[3] \notin Enriched \cup {"recorded_at", "accepted_for_analytics", "pressure_hpa",
                                          "uq_session_points_session_id_t_offset_ms"}
         \/ n = 4 /\ f = <<"unique", "session_points", "uq_session_points_session_id_t_offset_ms">>
         \/ n = 5 /\ f[1] = "col" /\ f[3] \in Enriched /\ f = <<"col", "session_points", f[3]>>
         \/ n = 7 /\ f[1] \in {"col", "notnull", "default"}
            /\ f[3] \in {"recorded_at", "accepted_for_analytics"}
            /\ f = <<f[1], "session_points", f[3]>>
         \/ n = 8 /\ f[1] = "uses" /\ f[3] \in {"provider", "motion_state", "quality_class"}
            /\ f = <<"uses", "session_points", f[3], IF f[3] = "provider" THEN "provider_type" ELSE f[3]>>
         \/ n = 13 /\ f = <<"col", "session_points", "pressure_hpa">>
<1>1. n \in {3, 4, 5, 7, 8, 13}
  <2>1. (\E t \in TablesOf(n) : f[2] = t) \/ (\E e \in EnumsOf(n) : f[2] = e)
    BY MadeOfTables, FactsHaveATable
  <2>2. "session_points" \notin EnumsOf(n)
    BY DEF EnumsOf
  <2>3. "session_points" \in TablesOf(n)
    BY <2>1, <2>2
  <2>4. QED
    BY <2>3 DEF TablesOf
<1>2. CASE n = 3
  <2>1. f \in Up0003.add
    BY <1>2 DEF Made, Upgrade
  <2>2. \/ f \in Columns("session_points", {"id", "session_id", "t_offset_ms", "latitude", "longitude"},
                      {"created_at"}, {"accuracy_m", "altitude_m", "speed_mps", "heading_deg"})
        \/ f \in Ref("session_points", "session_id", "ride_sessions", "CASCADE")
        \/ f \in PrimaryKey("session_points", {"id"})
        \/ f \in Indexes("session_points", {"ix_session_points_session_id",
                                         "ix_session_points_session_id_t_offset_ms"})
    <3>1. MadeFor("ride_sessions", f) => f[2] # "session_points"
      BY FactsHaveATable
    <3>2. f # <<"enum", "ride_session_status">>
      OBVIOUS
    <3>3. QED
      BY <2>1, <3>1, <3>2 DEF Up0003, Adds, Step, MadeFor
  <2>3. f[1] # "uses" /\ f[3] \in {"id", "session_id", "t_offset_ms", "latitude", "longitude", "created_at",
                      "accuracy_m", "altitude_m", "speed_mps", "heading_deg", "ix_session_points_session_id",
                      "ix_session_points_session_id_t_offset_ms"}
    BY <2>2 DEF Columns, Ref, PrimaryKey, Indexes
  <2>4. QED
    BY <1>2, <2>3 DEF Enriched, Derived
<1>3. CASE n = 4
  <2>1. f \in Up0004.add
    BY <1>3 DEF Made, Upgrade
  <2>2. f \in PointOffsetKey
    <3>1. MadeFor("weather_cache", f) => f[2] # "session_points"
      BY FactsHaveATable
    <3>2. QED
      BY <2>1, <3>1 DEF Up0004, Adds, Step, MadeFor
  <2>3. QED
    BY <1>3, <2>2 DEF PointOffsetKey, Uniques
<1>4. CASE n = 5
  BY <1>4 DEF Made, Columns
<1>5. CASE n = 7
  BY <1>5 DEF Made, Columns
<1>6. CASE n = 8
  <2>1. f \in PointEnumFacts
    BY <1>6 DEF Made, Upgrade, Up0009, Adds, Step
  <2>2. QED
    BY <1>6, <2>1 DEF PointEnumFacts, PointEnums, EnumColumn
<1>7. CASE n = 13
  BY <1>7 DEF Made, Upgrade, Up0014, Adds, Step, Columns
<1>8. QED
  BY <1>1, <1>2, <1>3, <1>4, <1>5, <1>6, <1>7

LEMMA ResortNames ==
  ASSUME NEW n \in 1..HeadRev, NEW f \in Made(n), f[2] = "resorts", n < 15
  PROVE  \/ n = 2 /\ f[3] \in {"id", "name", "country", "region", "created_at", "city", "latitude",
                               "longitude", "elevation_base_m", "elevation_top_m",
                               "uq_resorts_name_country_region", "ix_resorts_name", "ix_resorts_region"}
         \/ n = 6 /\ \/ f \in Columns("resorts", {}, {"is_active"}, ResortIdentity)
                     \/ f \in ResortIdentityKey \/ f \in Indexes("resorts", {"ix_resorts_is_active"})
<1>1. n \in {2, 6}
  <2>1. (\E t \in TablesOf(n) : f[2] = t) \/ (\E e \in EnumsOf(n) : f[2] = e)
    BY MadeOfTables, FactsHaveATable
  <2>2. "resorts" \notin EnumsOf(n)
    BY DEF EnumsOf
  <2>3. "resorts" \in TablesOf(n)
    BY <2>1, <2>2
  <2>4. QED
    BY <2>3 DEF TablesOf
<1>2. CASE n = 2
  <2>1. f \in Up0002.add
    BY <1>2 DEF Made, Upgrade
  <2>2. \/ f \in Columns("resorts", {"id", "name", "country", "region"}, {"created_at"},
               {"city", "latitude", "longitude", "elevation_base_m", "elevation_top_m"})
        \/ f \in PrimaryKey("resorts", {"id"})
        \/ f \in Uniques("resorts", {"uq_resorts_name_country_region"})
        \/ f \in Indexes("resorts", {"ix_resorts_name", "ix_resorts_region"})
    <3>1. MadeFor("favorite_resorts", f) => f[2] # "resorts"
      BY FactsHaveATable
    <3>2. QED
      BY <2>1, <3>1 DEF Up0002, Adds, Step, MadeFor
  <2>3. QED
    BY <1>2, <2>2 DEF Columns, Uniques, PrimaryKey, Indexes
<1>3. CASE n = 6
  BY <1>3 DEF Made, Upgrade, Up0007, Adds, Step
<1>4. QED
  BY <1>1, <1>2, <1>3

LEMMA FactsHaveAName ==
  ASSUME NEW t, NEW f
  PROVE  /\ \A names : f \in Uniques(t, names) \/ f \in Indexes(t, names) \/ f \in Checks(t, names) => f[3] \in names
         /\ \A cs : f \in PrimaryKey(t, cs) => f[3] \in cs
         /\ \A c, u, a : f \in Ref(t, c, u, a) => f[3] = c
         /\ \A c, e : f \in EnumColumn(t, c, e) => f[3] = c
BY DEF Uniques, Indexes, Checks, PrimaryKey, Ref, EnumColumn

LEMMA RideNames ==
  ASSUME NEW n \in 1..HeadRev, NEW f \in Made(n), f[2] = "ride_sessions"
  PROVE  \/ n = 3 /\ f[3] \notin Summary \cup RideExtras
            /\ f[3] \notin {"source", "sport", "break_count", "break_duration_s",
                            "ix_ride_sessions_external_identifier_unique",
                            "ck_ride_sessions_source", "ck_ride_sessions_sport"}
            /\ (f[3] \in OldRideTotals => f = <<"col", "ride_sessions", f[3]>>)
         \/ n = 10 /\ f \in AnalyzerColumns
         \/ n = 11 /\ f \in SummaryDefaults
         \/ n = 14 /\ f \in Columns("ride_sessions", {}, {"break_count", "break_duration_s"}, {})
<1>1. n \in {3, 10, 11, 14}
  <2>1. (\E t \in TablesOf(n) : f[2] = t) \/ (\E e \in EnumsOf(n) : f[2] = e)
    BY MadeOfTables, FactsHaveATable
  <2>2. "ride_sessions" \notin EnumsOf(n)
    BY DEF EnumsOf
  <2>3. "ride_sessions" \in TablesOf(n)
    BY <2>1, <2>2
  <2>4. QED
    BY <2>3 DEF TablesOf
<1>2. CASE n = 3
  <2>1. f \in Up0003.add
    BY <1>2 DEF Made, Upgrade
  <2>2. \/ f \in Columns("ride_sessions", {"id", "user_id"}, {"started_at", "status", "created_at"},
                         {"resort_id", "ended_at", "max_speed_mps"} \cup OldRideTotals)
        \/ f \in EnumColumn("ride_sessions", "status", "ride_session_status")
        \/ f \in Ref("ride_sessions", "resort_id", "resorts", "SET NULL")
        \/ f \in Ref("ride_sessions", "user_id", "users", "CASCADE")
        \/ f \in PrimaryKey("ride_sessions", {"id"})
        \/ f \in Indexes("ride_sessions", {"ix_ride_sessions_user_id", "ix_ride_sessions_resort_id",
                                           "ix_ride_sessions_user_id_started_at"})
    <3>1. MadeFor("session_points", f) => f[2] # "ride_sessions"
      BY FactsHaveATable
    <3>2. f # <<"enum", "ride_session_status">>
      OBVIOUS
    <3>3. QED
      BY <2>1, <3>1, <3>2 DEF Up0003, Adds, Step, MadeFor
  <2>3. \/ f[3] \in {"id", "user_id", "started_at", "status", "created_at", "resort_id", "ended_at",
                     "max_speed_mps", "ix_ride_sessions_user_id", "ix_ride_sessions_resort_id",
                     "ix_ride_sessions_user_id_started_at"}
        \/ f[3] \in OldRideTotals /\ f = <<"col", "ride_sessions", f[3]>>
    <3>1. CASE f \in Columns("ride_sessions", {"id", "user_id"}, {"started_at", "status", "created_at"},
                             {"resort_id", "ended_at", "max_speed_mps"} \cup OldRideTotals)
      BY <3>1 DEF Columns, OldRideTotals
    <3>2. CASE f \notin Columns("ride_sessions", {"id", "user_id"}, {"started_at", "status", "created_at"},
                                {"resort_id", "ended_at", "max_speed_mps"} \cup OldRideTotals)
      BY <2>2, <3>2, FactsHaveAName
    <3>3. QED
      BY <3>1, <3>2
  <2>4. QED
    BY <1>2, <2>3 DEF Summary, RideExtras, OldRideTotals
<1>3. CASE n = 10
  <2>1. f \in Up0011({}).add
    BY <1>3 DEF Made, Upgrade
  <2>2. f # <<"enum", "session_conditions">>
    OBVIOUS
  <2>3. f \notin AnalyzerTables
    <3>1. \A t \in {"ride_session_actions", "ride_session_overrides", "resort_lifts"} : ~ MadeFor(t, f)
      BY FactsHaveATable
    <3>2. QED
      BY <3>1 DEF AnalyzerTables, MadeFor
  <2>4. QED
    BY <1>3, <2>1, <2>2, <2>3 DEF Up0011, Step
<1>4. CASE n = 11
  BY <1>4 DEF Made, Upgrade, Up0012, Adds, Step
<1>5. CASE n = 14
  <2>1. f \in Up0015.add
    BY <1>5 DEF Made, Upgrade
  <2>2. ~ MadeFor("resort_lifts", f) /\ ~ MadeFor("ride_session_actions", f)
    BY FactsHaveATable
  <2>3. QED
    BY <1>5, <2>1, <2>2 DEF Up0015, Adds, Step, MadeFor
<1>6. QED
  BY <1>1, <1>2, <1>3, <1>4, <1>5

(* The columns of the actions and the lifts before 0015 and 0016.            *)
LEMMA AnalyzerNames ==
  ASSUME NEW n \in 1..HeadRev, NEW f \in Made(n), n < 15
  PROVE  /\ f[2] = "ride_session_actions" =>
              \/ n = 10 /\ f[3] # "lift_name"
              \/ n = 14 /\ f = <<"col", "ride_session_actions", "lift_name">>
         /\ f[2] = "resort_lifts" =>
              \/ n = 10 /\ f[3] \notin {"osm_aerialway", "source", "status", "source_record_id",
                                        "ck_resort_lifts_source", "ix_resort_lifts_resort_track_unique"}
              \/ n = 14 /\ f = <<"col", "resort_lifts", "osm_aerialway">>
<1> SUFFICES ASSUME f[2] \in {"ride_session_actions", "resort_lifts"}
             PROVE  /\ f[2] = "ride_session_actions" =>
                         \/ n = 10 /\ f[3] # "lift_name"
                         \/ n = 14 /\ f = <<"col", "ride_session_actions", "lift_name">>
                    /\ f[2] = "resort_lifts" =>
                         \/ n = 10 /\ f[3] \notin {"osm_aerialway", "source", "status", "source_record_id",
                                                   "ck_resort_lifts_source", "ix_resort_lifts_resort_track_unique"}
                         \/ n = 14 /\ f = <<"col", "resort_lifts", "osm_aerialway">>
    OBVIOUS
<1>1. n \in {10, 14}
  <2>1. (\E t \in TablesOf(n) : f[2] = t) \/ (\E e \in EnumsOf(n) : f[2] = e)
    BY MadeOfTables, FactsHaveATable
  <2>2. f[2] \notin EnumsOf(n)
    BY DEF EnumsOf
  <2>3. f[2] \in TablesOf(n)
    BY <2>1, <2>2
  <2>4. QED
    BY <2>3 DEF TablesOf
<1>2. CASE n = 10
  <2>1. f \in Up0011({}).add
    BY <1>2 DEF Made, Upgrade
  <2>2. f \in AnalyzerTables
    <3>1. ~ MadeFor("ride_sessions", f) /\ f # <<"enum", "session_conditions">>
      BY FactsHaveATable
    <3>2. QED
      BY <2>1, <3>1 DEF Up0011, Step, AnalyzerColumns, MadeFor
  <2>3. ~ MadeFor("ride_session_overrides", f)
    BY FactsHaveATable
  <2>4. ASSUME f[2] = "ride_session_actions"
        PROVE  f[3] # "lift_name"
    <3> DEFINE t == "ride_session_actions"
    <3>1. ~ MadeFor("resort_lifts", f)
      BY <2>4, FactsHaveATable
    <3>2. \/ f \in Columns(t, {"id", "session_id", "action_type", "sequence_index", "started_at",
                              "ended_at", "duration_s", "distance_m", "avg_speed_mps", "max_speed_mps",
                              "source"}, {"created_at"},
                           {"min_speed_mps", "vertical_m", "min_altitude_m", "max_altitude_m", "min_lat",
                            "max_lat", "min_long", "max_long", "top_speed_lat", "top_speed_long",
                            "top_speed_alt_m", "time_of_day", "external_track_id"})
          \/ f \in Checks(t, {"ck_ride_session_actions_action_type",
                             "ck_ride_session_actions_sequence_index",
                             "ck_ride_session_actions_time_of_day", "ck_ride_session_actions_source"})
          \/ f \in Ref(t, "session_id", "ride_sessions", "CASCADE")
          \/ f \in PrimaryKey(t, {"id"})
          \/ f \in Uniques(t, {"uq_ride_session_actions_session_id_action_type_sequence_index"})
          \/ f \in Indexes(t, {"ix_ride_session_actions_session_id_started_at"})
      BY <2>2, <2>3, <3>1 DEF AnalyzerTables, MadeFor
    <3>3. QED
      BY <3>2 DEF Columns, Checks, Ref, PrimaryKey, Uniques, Indexes
  <2>5. ASSUME f[2] = "resort_lifts"
        PROVE  f[3] \notin {"osm_aerialway", "source", "status", "source_record_id",
                            "ck_resort_lifts_source", "ix_resort_lifts_resort_track_unique"}
    <3> DEFINE t == "resort_lifts"
    <3>1. ~ MadeFor("ride_session_actions", f)
      BY <2>5, FactsHaveATable
    <3>2. \/ f \in Columns(t, {"id", "resort_id", "name"}, {"created_at"},
                           {"lift_type", "polyline", "base_altitude_m", "top_altitude_m",
                            "external_track_id"})
          \/ f \in Checks(t, {"ck_resort_lifts_lift_type"})
          \/ f \in Ref(t, "resort_id", "resorts", "CASCADE")
          \/ f \in PrimaryKey(t, {"id"})
          \/ f \in Indexes(t, {"ix_resort_lifts_resort_id", "ix_resort_lifts_external_track_id"})
      BY <2>2, <2>3, <3>1 DEF AnalyzerTables, MadeFor
    <3>3. QED
      BY <3>2 DEF Columns, Checks, Ref, PrimaryKey, Indexes
  <2>6. QED
    BY <1>2, <2>4, <2>5
<1>3. CASE n = 14
  <2>1. f \in Up0015.add
    BY <1>3 DEF Made, Upgrade
  <2>2. ~ MadeFor("ride_sessions", f)
    BY FactsHaveATable
  <2>3. \/ f \in Columns("resort_lifts", {}, {}, {"osm_aerialway"})
        \/ f \in Columns("ride_session_actions", {}, {}, {"lift_name"})
    BY <2>1, <2>2 DEF Up0015, Adds, Step, MadeFor
  <2>4. QED
    BY <1>3, <2>3 DEF Columns
<1>4. QED
  BY <1>1, <1>2, <1>3

-------------------------------------------------------------------------------
(* Each downgrade takes back its upgrade. *)

LEMMA Grows ==
  ASSUME NEW n \in 1..HeadRev, NEW m, m = n - 1, n \notin {10, 15}
  PROVE  Clean[n] = Clean[m] \cup Upgrade(n, Clean[m]).add
<1>1. Clean[n] = Applied(Upgrade(n, Clean[m]), Clean[m])
  BY CleanStep
<1>2. \A f : f \notin Upgrade(n, Clean[m]).drop
  BY UpgradesThatDrop
<1>3. QED
  BY <1>1, <1>2 DEF Applied

LEMMA DowngradesThatAdd ==
  ASSUME NEW n \in 1..HeadRev, n \notin {10, 15}, NEW d
  PROVE  Downgrade(n, d).add = {}
<1>1. \A ts : DropsTables(d, ts).add = {}
  BY DEF DropsTables, Step
<1>2. \A t, cs : DropsColumns(d, t, cs).add = {}
  BY DEF DropsColumns, Step
<1>3. /\ Down0003(d).add = {} /\ Down0004(d).add = {} /\ Down0006(d).add = {} /\ Down0007(d).add = {}
      /\ Down0008(d).add = {} /\ Down0009(d).add = {} /\ Down0012.add = {} /\ Down0015(d).add = {}
  BY <1>2 DEF Down0003, Down0004, Down0006, Down0007, Down0008, Down0009, Down0012, Down0015, Step, DropsColumns
<1>4. CASE n <= 7
  BY <1>1, <1>3, <1>4 DEF Downgrade
<1>5. CASE n > 7
  BY <1>1, <1>2, <1>3, <1>5 DEF Downgrade
<1>6. QED
  BY <1>4, <1>5

Undone(n) == Applied(Downgrade(n, Clean[n]), Clean[n])

(* An upgrade makes nothing that was there before.                           *)
Fresh(n, m) == Upgrade(n, Clean[m]).add \cap Clean[m] = {}

(* What undoes a revision that only adds is to drop all of that and nothing  *)
(* older.                                                                   *)
LEMMA UndoesAdding ==
  ASSUME NEW n \in 1..HeadRev, NEW m, m = n - 1, n \notin {10, 15},
         \A f \in Upgrade(n, Clean[m]).add : f \in Downgrade(n, Clean[n]).drop,
         \A f \in Clean[m] : f \notin Downgrade(n, Clean[n]).drop
  PROVE  Undone(n) = Clean[m] /\ Fresh(n, m)
BY Grows, DowngradesThatAdd DEF Undone, Applied, Fresh

(* A fact of a table that was there before has been made for that table.     *)
LEMMA OlderFacts ==
  ASSUME NEW n \in 0..14, NEW f \in Clean[n], NEW t, NEW d, f \in FactsOfTable(d, t)
  PROVE  \E k \in 1..n : f \in Made(k) /\ t \in TablesOf(k) /\ f[2] = t
<1>1. PICK k \in 1..n : f \in Made(k)
  BY SomebodyMadeIt
<1>2. f[2] = t /\ Len(f) > 2
  BY DEF FactsOfTable
<1>3. \A e : f # <<"enum", e>>
  <2>1. ASSUME NEW e, f = <<"enum", e>>
        PROVE  FALSE
    <3>1. Len(<<"enum", e>>) = 2
      OBVIOUS
    <3>2. ~ (2 > 2)
      OBVIOUS
    <3>3. QED
      BY <1>2, <2>1, <3>1, <3>2
  <2>2. QED
    BY <2>1
<1>4. QED
  BY <1>1, <1>2, <1>3, MadeOfTables, FactsHaveATable

LEMMA OlderColumns ==
  ASSUME NEW n \in 0..14, NEW f \in Clean[n], NEW t, NEW d, NEW c, f \in FactsOfColumn(d, t, c)
  PROVE  /\ \E k \in 1..n : f \in Made(k) /\ t \in TablesOf(k) /\ f[2] = t
         /\ f[3] = c /\ f[1] \in {"col", "notnull", "default", "pk", "fk", "uses"}
BY OlderFacts DEF FactsOfColumn

LEMMA OlderEnums ==
  ASSUME NEW n \in 0..14, NEW e, <<"enum", e>> \in Clean[n]
  PROVE  \E k \in 1..n : e \in EnumsOf(k)
<1>1. PICK k \in 1..n : <<"enum", e>> \in Made(k)
  BY SomebodyMadeIt
<1>2. \A t : ~ MadeFor(t, <<"enum", e>>)
  BY FactsHaveATable
<1>3. PICK g \in EnumsOf(k) : <<"enum", e>> = <<"enum", g>>
  BY <1>1, <1>2, MadeOfTables
<1>4. e = g
  BY <1>3
<1>5. QED
  BY <1>3, <1>4

(* DROP TABLE takes all that was made for the table.                         *)
LEMMA DropsWhatWasMade ==
  ASSUME NEW d, NEW ts, NEW t \in ts, NEW f \in d, MadeFor(t, f)
  PROVE  f \in DropsTables(d, ts).drop /\ f \in FactsOfTable(d, t)
BY FactsHaveATable DEF DropsTables, Step, FactsOfTable

LEMMA Undo1 == Undone(1) = Clean[0] /\ Fresh(1, 0)
<1>1. ASSUME NEW f \in Upgrade(1, Clean[0]).add
      PROVE  f \in Downgrade(1, Clean[1]).drop
  <2>1. f \in Clean[1]
    BY Grows
  <2>2. MadeFor("users", f)
    BY UpgradesMake, MadeOfTables DEF TablesOf, EnumsOf
  <2>3. QED
    BY <2>1, <2>2, DropsWhatWasMade DEF Downgrade
<1>2. \A f \in Clean[0] : f \notin Downgrade(1, Clean[1]).drop
  BY CleanStep
<1>3. QED
  BY <1>1, <1>2, UndoesAdding

LEMMA Undo2 == Undone(2) = Clean[1] /\ Fresh(2, 1)
<1>1. ASSUME NEW f \in Upgrade(2, Clean[1]).add
      PROVE  f \in Downgrade(2, Clean[2]).drop
  <2>1. f \in Clean[2]
    BY Grows
  <2>2. \E t \in {"resorts", "favorite_resorts"} : MadeFor(t, f)
    BY UpgradesMake, MadeOfTables DEF TablesOf, EnumsOf
  <2>3. QED
    BY <2>1, <2>2, DropsWhatWasMade DEF Downgrade
<1>2. ASSUME NEW f \in Clean[1], f \in Downgrade(2, Clean[2]).drop
      PROVE  FALSE
  <2>1. PICK t \in {"favorite_resorts", "resorts"} : f \in FactsOfTable(Clean[2], t)
    BY <1>2 DEF Downgrade, DropsTables, Step
  <2>2. PICK k \in 1..1 : t \in TablesOf(k)
    BY <2>1, OlderFacts
  <2>3. QED
    BY <2>2 DEF TablesOf
<1>3. QED
  BY <1>1, <1>2, UndoesAdding

LEMMA Undo3 == Undone(3) = Clean[2] /\ Fresh(3, 2)
<1>1. ASSUME NEW f \in Upgrade(3, Clean[2]).add
      PROVE  f \in Down0003(Clean[3]).drop
  <2>1. f \in Clean[3]
    BY Grows
  <2>2. (\E t \in {"ride_sessions", "session_points"} : MadeFor(t, f)) \/ f = <<"enum", "ride_session_status">>
    BY UpgradesMake, MadeOfTables DEF TablesOf, EnumsOf
  <2>3. \A t : MadeFor(t, f) => f \in FactsOfTable(Clean[3], t)
    BY <2>1, FactsHaveATable DEF FactsOfTable
  <2>4. QED
    BY <2>2, <2>3 DEF Down0003, Step
<1>2. ASSUME NEW f \in Clean[2], f \in Down0003(Clean[3]).drop
      PROVE  FALSE
  <2>1. CASE f = <<"enum", "ride_session_status">>
    <3>1. PICK k \in 1..2 : "ride_session_status" \in EnumsOf(k)
      BY <2>1, OlderEnums
    <3>2. QED
      BY <3>1 DEF EnumsOf
  <2>2. CASE \E t \in {"ride_sessions", "session_points"} : f \in FactsOfTable(Clean[3], t)
    <3>1. PICK t \in {"ride_sessions", "session_points"}, k \in 1..2 : t \in TablesOf(k)
      BY <2>2, OlderFacts
    <3>2. QED
      BY <3>1 DEF TablesOf
  <2>3. QED
    BY <1>2, <2>1, <2>2 DEF Down0003, Step
<1>3. Downgrade(3, Clean[3]) = Down0003(Clean[3])
  BY DEF Downgrade
<1>4. QED
  BY <1>1, <1>2, <1>3, UndoesAdding

LEMMA Undo4 == Undone(4) = Clean[3] /\ Fresh(4, 3)
<1>1. ASSUME NEW f \in Upgrade(4, Clean[3]).add
      PROVE  f \in Down0004(Clean[4]).drop
  <2>1. f \in Clean[4] /\ f \in Made(4)
    BY Grows, UpgradesMake
  <2>2. MadeFor("weather_cache", f) \/ MadeFor("session_points", f)
    BY <2>1, MadeOfTables DEF TablesOf, EnumsOf
  <2>3. MadeFor("session_points", f) => f \in PointOffsetKey
    BY <2>1, FactsHaveATable, PointNames DEF PointOffsetKey, Uniques
  <2>4. MadeFor("weather_cache", f) => f \in FactsOfTable(Clean[4], "weather_cache")
    BY <2>1, FactsHaveATable DEF FactsOfTable
  <2>5. QED
    BY <2>2, <2>3, <2>4 DEF Down0004, Step
<1>2. ASSUME NEW f \in Clean[3], f \in Down0004(Clean[4]).drop
      PROVE  FALSE
  <2>1. CASE f \in PointOffsetKey
    <3>1. PICK k \in 1..3 : f \in Made(k)
      BY SomebodyMadeIt
    <3>2. f[2] = "session_points" /\ f[3] = "uq_session_points_session_id_t_offset_ms"
      BY <2>1 DEF PointOffsetKey, Uniques
    <3>3. QED
      BY <3>1, <3>2, PointNames
  <2>2. CASE f \in FactsOfTable(Clean[4], "weather_cache")
    <3>1. PICK k \in 1..3 : "weather_cache" \in TablesOf(k)
      BY <2>2, OlderFacts
    <3>2. QED
      BY <3>1 DEF TablesOf
  <2>3. QED
    BY <1>2, <2>1, <2>2 DEF Down0004, Step
<1>3. Downgrade(4, Clean[4]) = Down0004(Clean[4])
  BY DEF Downgrade
<1>4. QED
  BY <1>1, <1>2, <1>3, UndoesAdding

ColumnHead == {"col", "notnull", "default", "pk", "fk", "uses"}

(* DROP COLUMN takes all that was made for the columns.                      *)
LEMMA DropsColumnFacts ==
  ASSUME NEW d, NEW t, NEW cs
  PROVE  /\ \A f \in d : Len(f) > 2 /\ f[2] = t /\ f[1] \in ColumnHead /\ f[3] \in cs => f \in DropsColumns(d, t, cs).drop
         /\ \A f \in DropsColumns(d, t, cs).drop : \E c \in cs : f \in FactsOfColumn(d, t, c)
BY DEF DropsColumns, Step, FactsOfColumn, FactsOfTable, ColumnHead

LEMMA ColumnsAreHeaded ==
  ASSUME NEW t, NEW r, NEW w, NEW o, NEW f \in Columns(t, r, w, o)
  PROVE  Len(f) > 2 /\ f[2] = t /\ f[1] \in ColumnHead /\ f[3] \in r \cup w \cup o
BY DEF Columns, ColumnHead

LEMMA Undo5 == Undone(5) = Clean[4] /\ Fresh(5, 4)
<1> DEFINE gone == Enriched \cap ColumnsOf(Clean[5], "session_points")
<1>1. ASSUME NEW f \in Upgrade(5, Clean[4]).add
      PROVE  f \in Down0006(Clean[5]).drop
  <2>1. f \in Clean[5] /\ f \in Made(5)
    BY Grows, UpgradesMake
  <2>2. f \in Columns("session_points", {}, {}, Enriched)
    BY <2>1 DEF Made
  <2>3. f = <<"col", "session_points", f[3]>> /\ f[3] \in Enriched
    BY <2>2 DEF Columns
  <2>4. f[3] \in gone
    BY <2>1, <2>3 DEF ColumnsOf
  <2>5. QED
    BY <2>1, <2>2, <2>4, ColumnsAreHeaded, DropsColumnFacts DEF Down0006
<1>2. ASSUME NEW f \in Clean[4], f \in Down0006(Clean[5]).drop
      PROVE  FALSE
  <2>1. PICK c \in gone : f \in FactsOfColumn(Clean[5], "session_points", c)
    BY <1>2, DropsColumnFacts DEF Down0006
  <2>2. PICK k \in 1..4 : f \in Made(k)
    BY SomebodyMadeIt
  <2>3. f[2] = "session_points" /\ f[3] \in Enriched /\ f[1] # "unique"
    BY <2>1, OlderColumns
  <2>4. QED
    BY <2>2, <2>3, PointNames
<1>3. Downgrade(5, Clean[5]) = Down0006(Clean[5])
  BY DEF Downgrade
<1>4. QED
  BY <1>1, <1>2, <1>3, UndoesAdding

LEMMA Undo6 == Undone(6) = Clean[5] /\ Fresh(6, 5)
<1> DEFINE cs == ResortIdentity \cup {"is_active"}
<1>1. Down0007(Clean[6]).drop = DropsColumns(Clean[6], "resorts", cs).drop \cup ResortIdentityKey
                                  \cup Indexes("resorts", {"ix_resorts_is_active"})
  BY DEF Down0007, DropsColumns, Step
<1>2. ASSUME NEW f \in Upgrade(6, Clean[5]).add
      PROVE  f \in Down0007(Clean[6]).drop
  <2>1. f \in Clean[6]
    BY Grows
  <2>2. f \in Up0007.add
    BY DEF Upgrade
  <2>3. \/ f \in Columns("resorts", {}, {"is_active"}, ResortIdentity)
        \/ f \in Indexes("resorts", {"ix_resorts_is_active"})
        \/ f \in ResortIdentityKey
    BY <2>2 DEF Up0007, Adds, Step
  <2>4. f \in Columns("resorts", {}, {"is_active"}, ResortIdentity) => f \in DropsColumns(Clean[6], "resorts", cs).drop
    BY <2>1, ColumnsAreHeaded, DropsColumnFacts
  <2>5. QED
    BY <1>1, <2>3, <2>4
<1>3. ASSUME NEW f \in Clean[5], f \in Down0007(Clean[6]).drop
      PROVE  FALSE
  <2>1. f[2] = "resorts" /\ f[3] \in cs \cup {"uq_resorts_external_source_external_id", "ix_resorts_is_active"}
    <3>1. f \in DropsColumns(Clean[6], "resorts", cs).drop => f[2] = "resorts" /\ f[3] \in cs
      BY DroppedColumns
    <3>2. f \in ResortIdentityKey => f[2] = "resorts" /\ f[3] = "uq_resorts_external_source_external_id"
      BY DEF ResortIdentityKey, Uniques
    <3>3. f \in Indexes("resorts", {"ix_resorts_is_active"}) => f[2] = "resorts" /\ f[3] = "ix_resorts_is_active"
      BY DEF Indexes
    <3>4. QED
      BY <1>1, <1>3, <3>1, <3>2, <3>3
  <2>2. PICK k \in 1..5 : f \in Made(k)
    BY SomebodyMadeIt
  <2>3. f[3] \in {"id", "name", "country", "region", "created_at", "city", "latitude", "longitude",
                  "elevation_base_m", "elevation_top_m", "uq_resorts_name_country_region",
                  "ix_resorts_name", "ix_resorts_region"}
    BY <2>1, <2>2, ResortNames
  <2>4. QED
    BY <2>1, <2>3 DEF ResortIdentity
<1>4. Downgrade(6, Clean[6]) = Down0007(Clean[6])
  BY DEF Downgrade
<1>5. QED
  BY <1>2, <1>3, <1>4, UndoesAdding

LEMMA Undo7 == Undone(7) = Clean[6] /\ Fresh(7, 6)
<1> DEFINE cs == {"recorded_at", "accepted_for_analytics"}
           gone == cs \cap ColumnsOf(Clean[7], "session_points")
           wanted == Columns("session_points", {"recorded_at"}, {"accepted_for_analytics"}, {})
<1>1. ASSUME NEW f \in Upgrade(7, Clean[6]).add
      PROVE  f \in Down0008(Clean[7]).drop
  <2>1. f \in Clean[7] /\ f \in Made(7)
    BY Grows, UpgradesMake
  <2>2. f \in wanted
    BY <2>1 DEF Made
  <2>3. f \in Up0008(Clean[6]).add
    BY DEF Upgrade
  <2>4. <<"col", "session_points", f[3]>> \in wanted
    BY <2>2 DEF Columns
  <2>5. <<"col", "session_points", f[3]>> \in Clean[6] \/ <<"col", "session_points", f[3]>> \in Up0008(Clean[6]).add
    BY <2>3, <2>4 DEF Up0008, Adds, Step
  <2>6. <<"col", "session_points", f[3]>> \in Clean[7]
    BY <2>5, Grows DEF Upgrade
  <2>7. f[3] \in ColumnsOf(Clean[7], "session_points")
    BY <2>6 DEF ColumnsOf
  <2>8. Len(f) > 2 /\ f[2] = "session_points" /\ f[1] \in ColumnHead /\ f[3] \in cs
    BY <2>2, ColumnsAreHeaded
  <2>9. QED
    BY <2>1, <2>7, <2>8, DropsColumnFacts DEF Down0008
<1>2. ASSUME NEW f \in Clean[6], f \in Down0008(Clean[7]).drop
      PROVE  FALSE
  <2>1. PICK c \in gone : f \in FactsOfColumn(Clean[7], "session_points", c)
    BY <1>2, DropsColumnFacts DEF Down0008
  <2>2. PICK k \in 1..6 : f \in Made(k)
    BY SomebodyMadeIt
  <2>3. f[2] = "session_points" /\ f[3] \in cs /\ f[1] # "unique"
    BY <2>1, OlderColumns
  <2>4. QED
    BY <2>2, <2>3, PointNames DEF Enriched, Derived
<1>3. Downgrade(7, Clean[7]) = Down0008(Clean[7])
  BY DEF Downgrade
<1>4. QED
  BY <1>1, <1>2, <1>3, UndoesAdding

LEMMA Undo8 == Undone(8) = Clean[7] /\ Fresh(8, 7)
<1>1. ASSUME NEW f \in Upgrade(8, Clean[7]).add
      PROVE  f \in Down0009(Clean[8]).drop
  <2>1. f \in Clean[8]
    BY Grows
  <2>2. QED
    BY <2>1 DEF Upgrade, Up0009, Down0009, Adds, Step
<1>2. ASSUME NEW f \in Clean[7], f \in Down0009(Clean[8]).drop
      PROVE  FALSE
  <2>1. PICK e \in PointEnums : f = <<"enum", e[2]>> \/ f \in EnumColumn("session_points", e[1], e[2])
    BY <1>2 DEF Down0009, Step, PointEnumFacts
  <2>2. CASE f = <<"enum", e[2]>>
    <3>1. PICK k \in 1..7 : e[2] \in EnumsOf(k)
      BY <2>2, OlderEnums
    <3>2. e[2] # "ride_session_status"
      BY DEF PointEnums
    <3>3. QED
      BY <3>1, <3>2 DEF EnumsOf
  <2>3. CASE f \in EnumColumn("session_points", e[1], e[2])
    <3>1. PICK k \in 1..7 : f \in Made(k)
      BY SomebodyMadeIt
    <3>2. f[1] = "uses" /\ f[2] = "session_points"
      BY <2>3 DEF EnumColumn
    <3>3. QED
      BY <3>1, <3>2, PointNames
  <2>4. QED
    BY <2>1, <2>2, <2>3
<1>3. Downgrade(8, Clean[8]) = Down0009(Clean[8])
  BY DEF Downgrade
<1>4. QED
  BY <1>1, <1>2, <1>3, UndoesAdding

LEMMA Undo9 == Undone(9) = Clean[8] /\ Fresh(9, 8)
<1>1. ASSUME NEW f \in Upgrade(9, Clean[8]).add
      PROVE  f \in Downgrade(9, Clean[9]).drop
  <2>1. f \in Clean[9]
    BY Grows
  <2>2. MadeFor("session_point_analytics", f)
    BY UpgradesMake, MadeOfTables DEF TablesOf, EnumsOf
  <2>3. QED
    BY <2>1, <2>2, DropsWhatWasMade DEF Downgrade
<1>2. ASSUME NEW f \in Clean[8], f \in Downgrade(9, Clean[9]).drop
      PROVE  FALSE
  <2>1. f \in FactsOfTable(Clean[9], "session_point_analytics")
    BY <1>2 DEF Downgrade, DropsTables, Step
  <2>2. PICK k \in 1..8 : "session_point_analytics" \in TablesOf(k)
    BY <2>1, OlderFacts
  <2>3. QED
    BY <2>2 DEF TablesOf
<1>3. QED
  BY <1>1, <1>2, UndoesAdding

LEMMA Undo11 == Undone(11) = Clean[10] /\ Fresh(11, 10)
<1>1. ASSUME NEW f \in Upgrade(11, Clean[10]).add
      PROVE  f \in Downgrade(11, Clean[11]).drop
  BY DEF Upgrade, Downgrade, Up0012, Down0012, Adds, Step
<1>2. ASSUME NEW f \in Clean[10], f \in Downgrade(11, Clean[11]).drop
      PROVE  FALSE
  <2>1. f \in SummaryDefaults
    BY <1>2 DEF Downgrade, Down0012, Step
  <2>2. f[1] = "default" /\ f[2] = "ride_sessions" /\ f[3] \in Summary
    BY <2>1 DEF SummaryDefaults
  <2>3. PICK k \in 1..10 : f \in Made(k)
    BY SomebodyMadeIt
  <2>4. f \in AnalyzerColumns
    BY <2>2, <2>3, RideNames
  <2>5. f \in Columns("ride_sessions", Summary, {"source", "sport"}, RideExtras)
    BY <2>2, <2>4, FactsAreOfTheirTable DEF AnalyzerColumns
  <2>6. f[3] \in {"source", "sport"}
    BY <2>2, <2>5 DEF Columns
  <2>7. QED
    BY <2>2, <2>6 DEF Summary
<1>3. QED
  BY <1>1, <1>2, UndoesAdding

LEMMA Undo12 == Undone(12) = Clean[11] /\ Fresh(12, 11)
<1>1. ASSUME NEW f \in Upgrade(12, Clean[11]).add
      PROVE  f \in Downgrade(12, Clean[12]).drop
  <2>1. f \in Clean[12]
    BY Grows
  <2>2. MadeFor("refresh_tokens", f)
    BY UpgradesMake, MadeOfTables DEF TablesOf, EnumsOf
  <2>3. QED
    BY <2>1, <2>2, DropsWhatWasMade DEF Downgrade
<1>2. ASSUME NEW f \in Clean[11], f \in Downgrade(12, Clean[12]).drop
      PROVE  FALSE
  <2>1. f \in FactsOfTable(Clean[12], "refresh_tokens")
    BY <1>2 DEF Downgrade, DropsTables, Step
  <2>2. PICK k \in 1..11 : "refresh_tokens" \in TablesOf(k)
    BY <2>1, OlderFacts
  <2>3. QED
    BY <2>2 DEF TablesOf
<1>3. QED
  BY <1>1, <1>2, UndoesAdding

LEMMA Undo13 == Undone(13) = Clean[12] /\ Fresh(13, 12)
<1>1. Downgrade(13, Clean[13]) = DropsColumns(Clean[13], "session_points", {"pressure_hpa"})
  BY DEF Downgrade
<1>2. ASSUME NEW f \in Upgrade(13, Clean[12]).add
      PROVE  f \in Downgrade(13, Clean[13]).drop
  <2>1. f \in Clean[13]
    BY Grows
  <2>2. f \in Columns("session_points", {}, {}, {"pressure_hpa"})
    BY DEF Upgrade, Up0014, Adds, Step
  <2>3. QED
    BY <1>1, <2>1, <2>2, ColumnsAreHeaded, DropsColumnFacts
<1>3. ASSUME NEW f \in Clean[12], f \in Downgrade(13, Clean[13]).drop
      PROVE  FALSE
  <2>1. f \in FactsOfColumn(Clean[13], "session_points", "pressure_hpa")
    BY <1>1, <1>3, DropsColumnFacts
  <2>2. PICK k \in 1..12 : f \in Made(k)
    BY SomebodyMadeIt
  <2>3. f[2] = "session_points" /\ f[3] = "pressure_hpa" /\ f[1] # "unique"
    BY <2>1, OlderColumns
  <2>4. QED
    BY <2>2, <2>3, PointNames DEF Enriched, Derived
<1>4. QED
  BY <1>2, <1>3, UndoesAdding

LEMMA Undo14 == Undone(14) = Clean[13] /\ Fresh(14, 13)
<1> DEFINE r == DropsColumns(Clean[14], "ride_sessions", {"break_count", "break_duration_s"}).drop
           a == DropsColumns(Clean[14], "ride_session_actions", {"lift_name"}).drop
           l == DropsColumns(Clean[14], "resort_lifts", {"osm_aerialway"}).drop
<1>1. Downgrade(14, Clean[14]).drop = r \cup a \cup l
  BY DEF Downgrade, Down0015, Step
<1>2. ASSUME NEW f \in Upgrade(14, Clean[13]).add
      PROVE  f \in Downgrade(14, Clean[14]).drop
  <2>1. f \in Clean[14]
    BY Grows
  <2>2. \/ f \in Columns("resort_lifts", {}, {}, {"osm_aerialway"})
        \/ f \in Columns("ride_session_actions", {}, {}, {"lift_name"})
        \/ f \in Columns("ride_sessions", {}, {"break_count", "break_duration_s"}, {})
    BY DEF Upgrade, Up0015, Adds, Step
  <2>3. f \in Columns("resort_lifts", {}, {}, {"osm_aerialway"}) => f \in l
    BY <2>1, ColumnsAreHeaded, DropsColumnFacts
  <2>4. f \in Columns("ride_session_actions", {}, {}, {"lift_name"}) => f \in a
    BY <2>1, ColumnsAreHeaded, DropsColumnFacts
  <2>5. f \in Columns("ride_sessions", {}, {"break_count", "break_duration_s"}, {}) => f \in r
    BY <2>1, ColumnsAreHeaded, DropsColumnFacts
  <2>6. QED
    BY <1>1, <2>2, <2>3, <2>4, <2>5
<1>3. ASSUME NEW f \in Clean[13], f \in Downgrade(14, Clean[14]).drop
      PROVE  FALSE
  <2>1. PICK k \in 1..13 : f \in Made(k)
    BY SomebodyMadeIt
  <2>2. f \notin a
    BY <2>1, DroppedColumns, AnalyzerNames
  <2>3. f \notin l
    BY <2>1, DroppedColumns, AnalyzerNames
  <2>4. ASSUME f \in r
        PROVE  FALSE
    <3>1. f[2] = "ride_sessions" /\ f[3] \in {"break_count", "break_duration_s"}
      BY <2>4, DroppedColumns
    <3>2. f \in AnalyzerColumns \/ f \in SummaryDefaults
      BY <2>1, <3>1, RideNames
    <3>3. f \in SummaryDefaults => f[3] \in Summary
      BY DEF SummaryDefaults
    <3>4. f \in AnalyzerColumns => f[3] \in Summary \cup RideExtras \cup {"source", "sport",
            "ck_ride_sessions_source", "ck_ride_sessions_sport", "conditions", "ix_ride_sessions_external_identifier_unique"}
      <4>1. f \in Columns("ride_sessions", Summary, {"source", "sport"}, RideExtras) =>
              f[3] \in Summary \cup RideExtras \cup {"source", "sport"}
        BY FactsAreOfTheirTable
      <4>2. f \in Checks("ride_sessions", {"ck_ride_sessions_source", "ck_ride_sessions_sport"}) =>
              f[3] \in {"ck_ride_sessions_source", "ck_ride_sessions_sport"}
        BY FactsHaveAName
      <4>3. f \in EnumColumn("ride_sessions", "conditions", "session_conditions") => f[3] = "conditions"
        BY FactsHaveAName
      <4>4. f \in Uniques("ride_sessions", {"ix_ride_sessions_external_identifier_unique"}) =>
              f[3] = "ix_ride_sessions_external_identifier_unique"
        BY FactsHaveAName
      <4>5. QED
        BY <4>1, <4>2, <4>3, <4>4 DEF AnalyzerColumns
    <3>5. QED
      BY <3>1, <3>2, <3>3, <3>4 DEF Summary, RideExtras
  <2>5. QED
    BY <1>1, <1>3, <2>2, <2>3, <2>4
<1>4. QED
  BY <1>2, <1>3, UndoesAdding

(* Facts stay along the chain as long as 0011 and 0016 leave them.           *)
LEMMA FactsLast ==
  ASSUME NEW m \in 0..HeadRev, NEW f \in Clean[m], NEW n \in m..HeadRev,
         m < 10 /\ n >= 10 => f \notin Up0011(Clean[9]).drop,
         m < 15 /\ n = 15 => f \notin Up0016(Clean[14]).drop
  PROVE  f \in Clean[n]
<1> DEFINE S == {k \in 0..15 : m <= k /\ k <= n => f \in Clean[k]}
<1>1. 0 \in S
  OBVIOUS
<1>2. ASSUME NEW k \in 0..14, k \in S
      PROVE  k + 1 \in S
  <2>1. CASE m <= k /\ k + 1 <= n
    <3>1. f \in Clean[k]
      BY <1>2, <2>1
    <3>2. f \in Clean[k + 1]
      BY <2>1, <3>1, FactsStay
    <3>3. QED
      BY <3>2
  <2>2. CASE ~ (m <= k /\ k + 1 <= n)
    BY <2>2
  <2>3. QED
    BY <2>1, <2>2
<1>3. n \in S
  BY <1>1, <1>2, UpTheChain
<1>4. QED
  BY <1>3

(* Nothing that an upgrade can add was there before, so that it adds it all. *)
LEMMA MadeIsThere ==
  ASSUME NEW n \in 1..HeadRev, NEW f \in Made(n)
  PROVE  f \in Clean[n]
<1>1. ASSUME NEW k \in 1..HeadRev
      PROVE  Upgrade(k, Clean[k - 1]).add \subseteq Clean[k]
  BY CleanStep DEF Applied
<1>2. ASSUME NEW k \in 1..HeadRev, k \notin {5, 7}
      PROVE  Made(k) \subseteq Clean[k]
  BY <1>1, <1>2, UpgradesMake
<1>3. CASE n = 5
  <2>1. f[3] \in Enriched /\ f = <<"col", "session_points", f[3]>>
    BY <1>3 DEF Made, Columns
  <2>2. f[3] \notin ColumnsOf(Clean[4], "session_points")
    <3>1. ASSUME f[3] \in ColumnsOf(Clean[4], "session_points")
          PROVE  FALSE
      <4>1. PICK g \in Clean[4] : g[1] = "col" /\ g[2] = "session_points" /\ g[3] = f[3]
        BY <3>1 DEF ColumnsOf
      <4>2. PICK k \in 1..4 : g \in Made(k)
        BY SomebodyMadeIt
      <4>3. QED
        BY <2>1, <4>1, <4>2, PointNames
    <3>2. QED
      BY <3>1
  <2>3. f[3] \in Missing(Clean[4], "session_points", Enriched)
    BY <2>1, <2>2 DEF Missing
  <2>4. f \in Up0006(Clean[4]).add
    BY <2>1, <2>3 DEF Up0006, Adds, Step, Columns
  <2>5. QED
    BY <1>1, <1>3, <2>4 DEF Upgrade
<1>4. CASE n = 7
  <2> DEFINE cs == {"recorded_at", "accepted_for_analytics"}
  <2>1. f[3] \in cs /\ f \in Columns("session_points", {"recorded_at"}, {"accepted_for_analytics"}, {})
    BY <1>4 DEF Made, Columns
  <2>2. f[3] \notin ColumnsOf(Clean[6], "session_points")
    <3>1. ASSUME f[3] \in ColumnsOf(Clean[6], "session_points")
          PROVE  FALSE
      <4>1. PICK g \in Clean[6] : g[1] = "col" /\ g[2] = "session_points" /\ g[3] = f[3]
        BY <3>1 DEF ColumnsOf
      <4>2. PICK k \in 1..6 : g \in Made(k)
        BY SomebodyMadeIt
      <4>3. QED
        BY <2>1, <4>1, <4>2, PointNames DEF Enriched, Derived
    <3>2. QED
      BY <3>1
  <2>3. f[3] \in Missing(Clean[6], "session_points", cs)
    BY <2>1, <2>2 DEF Missing
  <2>4. ColumnsOf(Clean[6], "session_points") # {}
    <3>1. <<"col", "session_points", "id">> \in Up0003.add
      BY DEF Up0003, Adds, Step, Columns
    <3>2. <<"col", "session_points", "id">> \in Clean[3]
      BY <1>1, <3>1 DEF Upgrade
    <3>3. <<"col", "session_points", "id">> \in Clean[6]
      BY <3>2, FactsLast
    <3>4. QED
      BY <3>3 DEF ColumnsOf
  <2>5. f \in Up0008(Clean[6]).add
    BY <2>1, <2>3, <2>4 DEF Up0008, Adds, Step
  <2>6. QED
    BY <1>1, <1>4, <2>5 DEF Upgrade
<1>5. QED
  BY <1>2, <1>3, <1>4

(* What 0016 takes from the resorts is what its downgrade brings back.       *)
LEMMA Undo15 == Undone(15) = Clean[14] /\ Fresh(15, 14)
<1> DEFINE x == Clean[14]
           ids == Columns("resorts", {}, {}, ResortIdentity) \cup ResortIdentityKey \cup ResortNameKey
           new == LiftOrigin \cup CatalogColumns \cup CatalogTables
<1>1. Clean[15] = (x \ Up0016(x).drop) \cup new
  <2>1. Clean[15] = Applied(Upgrade(15, x), x)
    BY CleanStep
  <2>2. QED
    BY <2>1 DEF Applied, Upgrade, Up0016, Step
<1>2. Undone(15) = (Clean[15] \ new) \cup ids
  BY DEF Undone, Applied, Downgrade, Down0016, Step
<1>3. ASSUME NEW f \in ids
      PROVE  f \in x
  <2>1. f[2] = "resorts"
    BY ColumnsAreHeaded, FactsAreOfTheirTable DEF ResortIdentityKey, ResortNameKey
  <2>2. f \notin Up0011(Clean[9]).drop
    <3>1. \A t, cs : f \in DropsColumns(Clean[9], t, cs).drop => t = "resorts"
      BY <2>1, DroppedColumns
    <3>2. f \notin FactsOfTable(Clean[9], "session_point_analytics")
      BY <2>1 DEF FactsOfTable
    <3>3. f \notin {<<"enum", "motion_state">>, <<"enum", "quality_class">>}
      BY <2>1
    <3>4. QED
      BY <3>1, <3>2, <3>3 DEF Up0011, Step
  <2>3. f \in Clean[6] \/ f \in Clean[2]
    <3>1. f \in ResortNameKey => f \in Made(2)
      BY DEF ResortNameKey, Made, Upgrade, Up0002, Adds, Step
    <3>2. f \in ResortIdentityKey => f \in Made(6)
      BY DEF Made, Upgrade, Up0007, Adds, Step
    <3>3. f \in Columns("resorts", {}, {}, ResortIdentity) => f \in Columns("resorts", {}, {"is_active"}, ResortIdentity)
      BY DEF Columns
    <3>4. f \in Columns("resorts", {}, {}, ResortIdentity) => f \in Made(6)
      BY <3>3 DEF Made, Upgrade, Up0007, Adds, Step
    <3>5. QED
      BY <3>1, <3>2, <3>4, MadeIsThere
  <2>4. QED
    BY <2>2, <2>3, FactsLast
<1>4. ASSUME NEW f \in x, f \in Up0016(x).drop
      PROVE  f \in ids
  <2>1. f \in ResortIdentityKey \/ f \in ResortNameKey \/ f \in DropsColumns(x, "resorts", ResortIdentity).drop
    BY <1>4 DEF Up0016, Step
  <2>2. CASE f \in DropsColumns(x, "resorts", ResortIdentity).drop
    <3>1. f[2] = "resorts" /\ f[3] \in ResortIdentity
      BY <2>2, DroppedColumns
    <3>2. PICK k \in 1..14 : f \in Made(k)
      BY SomebodyMadeIt
    <3>3. \/ f \in Columns("resorts", {}, {"is_active"}, ResortIdentity)
          \/ f \in ResortIdentityKey \/ f \in Indexes("resorts", {"ix_resorts_is_active"})
      BY <3>1, <3>2, ResortNames DEF ResortIdentity
    <3>4. f \in Indexes("resorts", {"ix_resorts_is_active"}) => f[3] \notin ResortIdentity
      BY DEF Indexes, ResortIdentity
    <3>5. f \in Columns("resorts", {}, {"is_active"}, ResortIdentity) => f \in Columns("resorts", {}, {}, ResortIdentity)
      BY <3>1 DEF Columns, ResortIdentity
    <3>6. QED
      BY <3>1, <3>3, <3>4, <3>5
  <2>3. QED
    BY <2>1, <2>2
<1>5. ASSUME NEW f \in x, f \in new
      PROVE  FALSE
  <2>1. PICK k \in 1..14 : f \in Made(k)
    BY SomebodyMadeIt
  <2>2. CASE f \in LiftOrigin
    <3>1. f[2] = "resort_lifts"
      BY <2>2, FactsAreOfTheirTable DEF LiftOrigin
    <3>2. f[3] \in {"source", "status", "source_record_id", "ck_resort_lifts_source", "ix_resort_lifts_resort_track_unique"}
      <4>1. f \in Columns("resort_lifts", {}, {"source"}, {"status", "source_record_id"}) => f[3] \in {"source", "status", "source_record_id"}
        BY DEF Columns
      <4>2. QED
        BY <2>2, <4>1, FactsHaveAName DEF LiftOrigin
    <3>3. QED
      BY <2>1, <3>1, <3>2, AnalyzerNames
  <2>3. CASE f \in CatalogColumns
    <3>1. f[2] = "resorts" /\ f[3] \in {"name_aliases", "field_provenance", "boundary", "bbox_min_lat", "bbox_min_lon",
                                        "bbox_max_lat", "bbox_max_lon", "country_code", "region_code", "last_merged_at"}
      BY <2>3 DEF CatalogColumns, Columns
    <3>2. \/ f \in Columns("resorts", {}, {"is_active"}, ResortIdentity)
          \/ f \in ResortIdentityKey \/ f \in Indexes("resorts", {"ix_resorts_is_active"})
      BY <2>1, <3>1, ResortNames
    <3>3. f \in Columns("resorts", {}, {"is_active"}, ResortIdentity) => f[3] \in ResortIdentity \cup {"is_active"}
      BY DEF Columns
    <3>4. QED
      BY <3>1, <3>2, <3>3, FactsHaveAName DEF ResortIdentity, ResortIdentityKey
  <2>4. CASE f \in CatalogTables
    <3>1. MadeFor("resort_source_records", f) \/ MadeFor("resort_field_overrides", f)
      BY <2>4, Zenon DEF CatalogTables, MadeFor
    <3>2. (\E t \in TablesOf(k) : f[2] = t) \/ (\E e \in EnumsOf(k) : f = <<"enum", e>>)
      BY <2>1, MadeOfTables, FactsHaveATable
    <3>3. f[2] \in {"resort_source_records", "resort_field_overrides"} /\ f[1] # "enum"
      BY <3>1, FactsHaveATable
    <3>4. f[2] \in TablesOf(k)
      BY <3>2, <3>3
    <3>5. QED
      BY <3>3, <3>4 DEF TablesOf
  <2>5. QED
    BY <1>5, <2>2, <2>3, <2>4
<1>6. Fresh(15, 14)
  <2>1. Upgrade(15, x).add = new
    BY DEF Upgrade, Up0016, Step
  <2> HIDE DEF new
  <2>2. QED
    BY <1>5, <2>1 DEF Fresh
<1>7. QED
  BY <1>1, <1>2, <1>3, <1>4, <1>5, <1>6

(* 0011 undone makes again what 0011 drops, but for NotRestored.             *)
LEMMA Undo10 == Undone(10) \cup NotRestored = Clean[9] \cup NotRestored /\ Fresh(10, 9)
<1> DEFINE x == Clean[9]
           restored == Derived \cup {"accepted_for_analytics"}
           enums == {<<"enum", "motion_state">>, <<"enum", "quality_class">>}
           uses == EnumColumn("session_points", "quality_class", "quality_class")
                     \cup EnumColumn("session_points", "motion_state", "motion_state")
           back == enums \cup PointAnalytics \cup Columns("session_points", {}, {}, restored) \cup uses
                     \cup Columns("ride_sessions", {}, {}, OldRideTotals)
           new == {<<"enum", "session_conditions">>} \cup AnalyzerTables \cup AnalyzerColumns
           undo == Down0011(Clean[10]).drop
           tables == DropsTables(Clean[10], {"ride_session_overrides", "ride_session_actions", "resort_lifts"}).drop
           columns == DropsColumns(Clean[10], "ride_sessions", Summary \cup RideExtras \cup {"source", "sport"}).drop
           key == Uniques("ride_sessions", {"ix_ride_sessions_external_identifier_unique"})
           checks == Checks("ride_sessions", {"ck_ride_sessions_source", "ck_ride_sessions_sport"})
<1>1. Clean[10] = (x \ Up0011(x).drop) \cup new
  <2>1. Clean[10] = Applied(Upgrade(10, x), x)
    BY CleanStep
  <2>2. Upgrade(10, x) = Up0011(x)
    BY DEF Upgrade
  <2>3. Up0011(x).add = new
    BY DEF Up0011, Step
  <2>4. QED
    BY <2>1, <2>2, <2>3 DEF Applied
<1>2. Undone(10) = (Clean[10] \ undo) \cup back
  <2>1. Downgrade(10, Clean[10]) = Down0011(Clean[10])
    BY DEF Downgrade
  <2>2. Down0011(Clean[10]).add = back
    BY DEF Down0011, Step
  <2>3. QED
    BY <2>1, <2>2 DEF Undone, Applied
<1>3. undo = tables \cup key \cup columns \cup checks \cup {<<"enum", "session_conditions">>}
  BY DEF Down0011, Step
<1>4. ASSUME NEW f \in back
      PROVE  f \in x
  <2>1. CASE f \in enums
    <3>1. f \in PointEnumFacts
      <4>1. \A e \in PointEnums : <<"enum", e[2]>> \in PointEnumFacts
        BY DEF PointEnumFacts
      <4>2. <<"motion_state", "motion_state">> \in PointEnums /\ <<"quality_class", "quality_class">> \in PointEnums
        BY DEF PointEnums
      <4>3. QED
        BY <2>1, <4>1, <4>2
    <3>2. f \in Made(8)
      BY <3>1 DEF Made, Upgrade, Up0009, Adds, Step
    <3>3. QED
      BY <3>2, MadeIsThere, FactsLast
  <2>2. CASE f \in PointAnalytics
    <3>1. f \in Made(9)
      BY <2>2 DEF Made, Upgrade, Up0010, Adds, Step
    <3>2. QED
      BY <3>1, MadeIsThere
  <2>3. CASE f \in Columns("session_points", {}, {}, restored)
    <3>1. f = <<"col", "session_points", f[3]>> /\ f[3] \in restored
      BY <2>3 DEF Columns
    <3>2. f[3] \in Derived => f \in Made(5)
      BY <3>1 DEF Made, Columns, Enriched
    <3>3. f[3] = "accepted_for_analytics" => f \in Made(7)
      BY <3>1 DEF Made, Columns
    <3>4. QED
      BY <3>1, <3>2, <3>3, MadeIsThere, FactsLast
  <2>4. CASE f \in uses
    <3>1. f \in PointEnumFacts
      <4>1. \A e \in PointEnums : EnumColumn("session_points", e[1], e[2]) \subseteq PointEnumFacts
        BY DEF PointEnumFacts
      <4>2. <<"motion_state", "motion_state">> \in PointEnums /\ <<"quality_class", "quality_class">> \in PointEnums
        BY DEF PointEnums
      <4>3. QED
        BY <2>4, <4>1, <4>2
    <3>2. f \in Made(8)
      BY <3>1 DEF Made, Upgrade, Up0009, Adds, Step
    <3>3. QED
      BY <3>2, MadeIsThere, FactsLast
  <2>5. CASE f \in Columns("ride_sessions", {}, {}, OldRideTotals)
    <3>1. f \in Columns("ride_sessions", {"id", "user_id"}, {"started_at", "status", "created_at"},
                        {"resort_id", "ended_at", "max_speed_mps"} \cup OldRideTotals)
      BY <2>5 DEF Columns
    <3>2. f \in Up0003.add
      BY <3>1 DEF Up0003, Adds, Step
    <3>3. f \in Made(3)
      BY <3>2 DEF Made, Upgrade
    <3>4. QED
      BY <3>3, MadeIsThere, FactsLast
  <2>6. QED
    BY <2>1, <2>2, <2>3, <2>4, <2>5
<1>5. ASSUME NEW f \in x, f \in Up0011(x).drop
      PROVE  f \in back \cup NotRestored
  <2>1. PICK k \in 1..9 : f \in Made(k)
    BY SomebodyMadeIt
  <2>2. CASE f \in FactsOfTable(x, "session_point_analytics")
    <3>1. PICK j \in 1..9 : f \in Made(j) /\ "session_point_analytics" \in TablesOf(j)
      BY <2>2, OlderFacts
    <3>2. j = 9
      BY <3>1 DEF TablesOf
    <3>3. QED
      BY <3>1, <3>2 DEF Made, Upgrade, Up0010, Adds, Step
  <2>3. CASE f \in DropsColumns(x, "session_points", restored).drop
    <3>1. PICK c \in restored : f \in FactsOfColumn(x, "session_points", c)
      BY <2>3, DropsColumnFacts
    <3>2. f[2] = "session_points" /\ f[3] \in restored /\ f[1] # "unique"
      BY <3>1, OlderColumns
    <3>3. restored \subseteq Enriched \cup {"accepted_for_analytics"} /\ "provider" \notin restored /\ "recorded_at" \notin restored
      BY DEF Enriched, Derived
    <3>4. \/ f = <<"col", "session_points", f[3]>>
          \/ f[3] = "accepted_for_analytics" /\ f[1] \in {"col", "notnull", "default"} /\ f = <<f[1], "session_points", f[3]>>
          \/ f[3] \in {"motion_state", "quality_class"} /\ f = <<"uses", "session_points", f[3], f[3]>>
      BY <2>1, <3>2, <3>3, PointNames
    <3>5. f = <<"col", "session_points", f[3]>> => f \in Columns("session_points", {}, {}, restored)
      BY <3>2 DEF Columns
    <3>6. QED
      BY <3>4, <3>5 DEF NotRestored, EnumColumn
  <2>4. CASE f \in enums
    BY <2>4
  <2>5. CASE f \in DropsColumns(x, "ride_sessions", OldRideTotals).drop
    <3>1. f[2] = "ride_sessions" /\ f[3] \in OldRideTotals
      BY <2>5, DroppedColumns
    <3>2. f = <<"col", "ride_sessions", f[3]>>
      BY <2>1, <3>1, RideNames
    <3>3. QED
      BY <3>1, <3>2 DEF Columns
  <2>6. QED
    BY <1>5, <2>2, <2>3, <2>4, <2>5 DEF Up0011, Step
<1>6. ASSUME NEW f \in x, f \in undo
      PROVE  FALSE
  <2>1. PICK k \in 1..9 : f \in Made(k)
    BY SomebodyMadeIt
  <2>2. CASE f \in tables
    <3>1. PICK t \in {"ride_session_overrides", "ride_session_actions", "resort_lifts"} : f \in FactsOfTable(Clean[10], t)
      BY <2>2 DEF DropsTables, Step
    <3>2. PICK j \in 1..9 : t \in TablesOf(j)
      BY <3>1, OlderFacts
    <3>3. QED
      BY <3>2 DEF TablesOf
  <2>3. CASE f \in key \cup columns \cup checks
    <3>1. f \in columns => f[2] = "ride_sessions" /\ f[3] \in Summary \cup RideExtras \cup {"source", "sport"}
      BY DroppedColumns
    <3>2. f \in key => f[2] = "ride_sessions" /\ f[3] = "ix_ride_sessions_external_identifier_unique"
      BY DEF Uniques
    <3>3. f \in checks => f[2] = "ride_sessions" /\ f[3] \in {"ck_ride_sessions_source", "ck_ride_sessions_sport"}
      BY DEF Checks
    <3>4. QED
      BY <2>1, <2>3, <3>1, <3>2, <3>3, RideNames
  <2>4. CASE f = <<"enum", "session_conditions">>
    <3>1. PICK j \in 1..9 : "session_conditions" \in EnumsOf(j)
      BY <2>4, OlderEnums
    <3>2. QED
      BY <3>1 DEF EnumsOf
  <2>5. QED
    BY <1>3, <1>6, <2>2, <2>3, <2>4
<1>7. ASSUME NEW f \in new
      PROVE  f \in undo
  <2>1. f \in Clean[10]
    BY <1>1
  <2>2. CASE f \in AnalyzerTables
    <3>1. MadeFor("ride_session_actions", f) \/ MadeFor("ride_session_overrides", f) \/ MadeFor("resort_lifts", f)
      BY <2>2, Zenon DEF AnalyzerTables, MadeFor
    <3>2. f \in tables
      BY <2>1, <3>1, DropsWhatWasMade
    <3>3. QED
      BY <1>3, <3>2
  <2>3. CASE f \in AnalyzerColumns
    <3> DEFINE cs == Summary \cup RideExtras \cup {"source", "sport"}
    <3>1. f \in Columns("ride_sessions", Summary, {"source", "sport"}, RideExtras) => f \in columns
      <4>1. f \in Columns("ride_sessions", Summary, {"source", "sport"}, RideExtras) =>
              Len(f) > 2 /\ f[2] = "ride_sessions" /\ f[1] \in ColumnHead /\ f[3] \in cs
        BY ColumnsAreHeaded
      <4>2. QED
        BY <2>1, <4>1, DropsColumnFacts
    <3>2. f \in EnumColumn("ride_sessions", "conditions", "session_conditions") => f \in columns
      <4>1. f \in EnumColumn("ride_sessions", "conditions", "session_conditions") =>
              Len(f) > 2 /\ f[2] = "ride_sessions" /\ f[1] \in ColumnHead /\ f[3] \in cs
        BY DEF EnumColumn, ColumnHead, RideExtras
      <4>2. QED
        BY <2>1, <4>1, DropsColumnFacts
    <3>3. QED
      BY <1>3, <2>3, <3>1, <3>2 DEF AnalyzerColumns
  <2>4. CASE f = <<"enum", "session_conditions">>
    BY <1>3, <2>4
  <2>5. QED
    BY <2>2, <2>3, <2>4
<1> HIDE DEF back, new, undo
<1>8. Fresh(10, 9)
  <2>1. Upgrade(10, x).add = new
    BY DEF Upgrade, Up0011, Step, new
  <2>2. QED
    BY <1>6, <1>7, <2>1 DEF Fresh
<1>9. QED
  BY <1>1, <1>2, <1>4, <1>5, <1>6, <1>7, <1>8

-------------------------------------------------------------------------------
(* A schema is a function of its revision. *)

(* Schemas, and steps on them, that NotRestored alone tells apart.           *)
Alike(c, d) == \A f : f \notin NotRestored => (f \in c <=> f \in d)
StepsAlike(m, w) == Alike(m.drop, w.drop) /\ Alike(m.add, w.add)

LEMMA AlikeIsTheSame ==
  ASSUME NEW c, NEW d
  PROVE  Alike(c, d) <=> c \cup NotRestored = d \cup NotRestored
BY DEF Alike

LEMMA AppliedAlike ==
  ASSUME NEW c, NEW d, NEW m, NEW w, Alike(c, d), StepsAlike(m, w)
  PROVE  Alike(Applied(m, c), Applied(w, d))
BY DEF Alike, StepsAlike, Applied

(* They have the same columns, and dropping tables or columns takes the same *)
(* from them.                                                               *)
LEMMA DropsAlike ==
  ASSUME NEW c, NEW d, Alike(c, d)
  PROVE  /\ \A t : ColumnsOf(c, t) = ColumnsOf(d, t)
         /\ \A t : Alike(FactsOfTable(c, t), FactsOfTable(d, t))
         /\ \A ts : StepsAlike(DropsTables(c, ts), DropsTables(d, ts))
         /\ \A t, cs : StepsAlike(DropsColumns(c, t, cs), DropsColumns(d, t, cs))
<1>1. ASSUME NEW t
      PROVE  ColumnsOf(c, t) = ColumnsOf(d, t)
  <2>1. \A f : f[1] = "col" => (f \in c <=> f \in d)
    BY DEF Alike, NotRestored
  <2>2. QED
    BY <2>1 DEF ColumnsOf
<1>2. ASSUME NEW t
      PROVE  Alike(FactsOfTable(c, t), FactsOfTable(d, t))
  BY DEF Alike, FactsOfTable
<1>3. ASSUME NEW ts
      PROVE  StepsAlike(DropsTables(c, ts), DropsTables(d, ts))
  <2>1. ASSUME NEW f, f \notin NotRestored
        PROVE  f \in DropsTables(c, ts).drop <=> f \in DropsTables(d, ts).drop
    BY <1>2, <2>1 DEF DropsTables, Step, Alike
  <2>2. QED
    BY <2>1 DEF StepsAlike, Alike, DropsTables, Step
<1>4. ASSUME NEW t, NEW cs
      PROVE  StepsAlike(DropsColumns(c, t, cs), DropsColumns(d, t, cs))
  <2>1. ASSUME NEW f, f \notin NotRestored
        PROVE  f \in DropsColumns(c, t, cs).drop <=> f \in DropsColumns(d, t, cs).drop
    <3>1. \A k : f \in FactsOfColumn(c, t, k) <=> f \in FactsOfColumn(d, t, k)
      BY <1>2, <2>1 DEF FactsOfColumn, Alike
    <3>2. QED
      BY <3>1 DEF DropsColumns, Step
  <2>2. QED
    BY <2>1 DEF StepsAlike, Alike, DropsColumns, Step
<1>5. QED
  BY <1>1, <1>2, <1>3, <1>4

LEMMA SameIsAlike == \A m : StepsAlike(m, m)
BY DEF StepsAlike, Alike

LEMMA UpgradesAlike ==
  ASSUME NEW n \in 1..HeadRev, NEW c, NEW d, Alike(c, d)
  PROVE  StepsAlike(Upgrade(n, c), Upgrade(n, d))
<1>1. CASE n \notin {5, 7, 10, 15}
  <2>1. Upgrade(n, c) = Upgrade(n, d)
    BY <1>1 DEF Upgrade
  <2>2. QED
    BY <2>1, SameIsAlike
<1>2. CASE n = 5
  <2>1. Up0006(c) = Up0006(d)
    BY DropsAlike DEF Up0006, Missing
  <2>2. QED
    BY <1>2, <2>1, SameIsAlike DEF Upgrade
<1>3. CASE n = 7
  <2>1. Missing(c, "session_points", {"recorded_at", "accepted_for_analytics"})
          = Missing(d, "session_points", {"recorded_at", "accepted_for_analytics"})
    BY DropsAlike DEF Missing
  <2>2. ColumnsOf(c, "session_points") = ColumnsOf(d, "session_points")
    BY DropsAlike
  <2>3. ASSUME NEW f, f \notin NotRestored
        PROVE  f \in Up0008(c).add <=> f \in Up0008(d).add
    BY <2>1, <2>2, <2>3 DEF Up0008, Adds, Step, Alike
  <2>4. Up0008(c).drop = {} /\ Up0008(d).drop = {}
    BY DEF Up0008, Adds, Step
  <2>5. StepsAlike(Up0008(c), Up0008(d))
    BY <2>3, <2>4 DEF StepsAlike, Alike
  <2>6. QED
    BY <1>3, <2>5 DEF Upgrade
<1>4. CASE n = 10
  <2>1. ASSUME NEW f, f \notin NotRestored
        PROVE  f \in Up0011(c).drop <=> f \in Up0011(d).drop
    <3>1. f \in FactsOfTable(c, "session_point_analytics") <=> f \in FactsOfTable(d, "session_point_analytics")
      BY <2>1, DropsAlike DEF Alike
    <3>2. \A t, cs : f \in DropsColumns(c, t, cs).drop <=> f \in DropsColumns(d, t, cs).drop
      BY <2>1, DropsAlike DEF StepsAlike, Alike
    <3>3. QED
      BY <3>1, <3>2 DEF Up0011, Step
  <2>2. Up0011(c).add = Up0011(d).add
    BY DEF Up0011, Step
  <2>3. StepsAlike(Up0011(c), Up0011(d))
    BY <2>1, <2>2 DEF StepsAlike, Alike
  <2>4. QED
    BY <1>4, <2>3 DEF Upgrade
<1>5. CASE n = 15
  <2>1. ASSUME NEW f, f \notin NotRestored
        PROVE  f \in Up0016(c).drop <=> f \in Up0016(d).drop
    <3>1. \A t, cs : f \in DropsColumns(c, t, cs).drop <=> f \in DropsColumns(d, t, cs).drop
      BY <2>1, DropsAlike DEF StepsAlike, Alike
    <3>2. QED
      BY <3>1 DEF Up0016, Step
  <2>2. Up0016(c).add = Up0016(d).add
    BY DEF Up0016, Step
  <2>3. StepsAlike(Up0016(c), Up0016(d))
    BY <2>1, <2>2 DEF StepsAlike, Alike
  <2>4. QED
    BY <1>5, <2>3 DEF Upgrade
<1>6. QED
  BY <1>1, <1>2, <1>3, <1>4, <1>5

LEMMA DowngradesAlike ==
  ASSUME NEW n \in 1..HeadRev, NEW c, NEW d, Alike(c, d)
  PROVE  StepsAlike(Downgrade(n, c), Downgrade(n, d))
<1>1. CASE n \in {1, 2, 9, 12, 13}
  BY <1>1, DropsAlike DEF Downgrade
<1>2. CASE n \in {11, 15}
  <2>1. Downgrade(n, c) = Downgrade(n, d)
    BY <1>2 DEF Downgrade
  <2>2. QED
    BY <2>1, SameIsAlike
<1>3. CASE n \in {5, 7}
  <2>1. StepsAlike(Down0006(c), Down0006(d)) /\ StepsAlike(Down0008(c), Down0008(d))
    BY DropsAlike DEF Down0006, Down0008
  <2>2. QED
    BY <1>3, <2>1 DEF Downgrade
<1>4. CASE n \in {3, 4, 6, 8, 10, 14}
  <2>1. ASSUME NEW f, f \notin NotRestored
        PROVE  /\ f \in Down0003(c).drop <=> f \in Down0003(d).drop
               /\ f \in Down0004(c).drop <=> f \in Down0004(d).drop
               /\ f \in Down0007(c).drop <=> f \in Down0007(d).drop
               /\ f \in Down0009(c).drop <=> f \in Down0009(d).drop
               /\ f \in Down0011(c).drop <=> f \in Down0011(d).drop
               /\ f \in Down0015(c).drop <=> f \in Down0015(d).drop
    <3>1. f \in c <=> f \in d
      BY <2>1 DEF Alike
    <3>2. \A t : f \in FactsOfTable(c, t) <=> f \in FactsOfTable(d, t)
      BY <2>1, DropsAlike DEF Alike
    <3>3. \A ts : f \in DropsTables(c, ts).drop <=> f \in DropsTables(d, ts).drop
      BY <2>1, DropsAlike DEF StepsAlike, Alike
    <3>4. \A t, cs : f \in DropsColumns(c, t, cs).drop <=> f \in DropsColumns(d, t, cs).drop
      BY <2>1, DropsAlike DEF StepsAlike, Alike
    <3>5. f \in Down0003(c).drop <=> f \in Down0003(d).drop
      BY <3>2 DEF Down0003, Step
    <3>6. f \in Down0004(c).drop <=> f \in Down0004(d).drop
      BY <3>2 DEF Down0004, Step
    <3>7. f \in Down0007(c).drop <=> f \in Down0007(d).drop
      <4>1. \A e : Down0007(e).drop = DropsColumns(e, "resorts", ResortIdentity \cup {"is_active"}).drop
                       \cup ResortIdentityKey \cup Indexes("resorts", {"ix_resorts_is_active"})
        BY DEF Down0007, DropsColumns, Step
      <4>2. QED
        BY <3>4, <4>1
    <3>8. f \in Down0009(c).drop <=> f \in Down0009(d).drop
      BY <3>1 DEF Down0009, Step
    <3>9. f \in Down0011(c).drop <=> f \in Down0011(d).drop
      BY <3>3, <3>4 DEF Down0011, Step
    <3>10. f \in Down0015(c).drop <=> f \in Down0015(d).drop
      BY <3>4 DEF Down0015, Step
    <3>11. QED
      BY <3>5, <3>6, <3>7, <3>8, <3>9, <3>10
  <2>2. \A e : /\ Down0003(e).add = {} /\ Down0004(e).add = {} /\ Down0007(e).add = {}
               /\ Down0009(e).add = {} /\ Down0015(e).add = {}
    BY DEF Down0003, Down0004, Down0007, Down0009, Down0015, DropsColumns, Step
  <2>3. Down0011(c).add = Down0011(d).add
    BY DEF Down0011, Step
  <2>4. /\ StepsAlike(Down0003(c), Down0003(d)) /\ StepsAlike(Down0004(c), Down0004(d))
        /\ StepsAlike(Down0007(c), Down0007(d)) /\ StepsAlike(Down0009(c), Down0009(d))
        /\ StepsAlike(Down0011(c), Down0011(d)) /\ StepsAlike(Down0015(c), Down0015(d))
    BY <2>1, <2>2, <2>3 DEF StepsAlike, Alike
  <2>5. QED
    BY <1>4, <2>4 DEF Downgrade
<1>5. QED
  BY <1>1, <1>2, <1>3, <1>4

(* The fifteen of them together.                                            *)
LEMMA EachIsUndone ==
  ASSUME NEW n \in 1..HeadRev, NEW m, m = n - 1
  PROVE  Alike(Undone(n), Clean[m]) /\ Fresh(n, m)
<1>1. CASE n \in {1, 2, 3, 4, 5, 6, 7}
  BY <1>1, Undo1, Undo2, Undo3, Undo4, Undo5, Undo6, Undo7 DEF Alike
<1>2. CASE n \in {8, 9, 11, 12, 13, 14, 15}
  BY <1>2, Undo8, Undo9, Undo11, Undo12, Undo13, Undo14, Undo15 DEF Alike
<1>3. CASE n = 10
  <2>1. m = 9
    BY <1>3
  <2>2. QED
    BY <1>3, <2>1, Undo10, AlikeIsTheSame
<1>4. QED
  BY <1>1, <1>2, <1>3

LEMMA AlikeIsTransitive ==
  ASSUME NEW a, NEW b, NEW c, Alike(a, b), Alike(b, c)
  PROVE  Alike(a, c)
BY DEF Alike

-------------------------------------------------------------------------------
(* What 0011 and 0016 leave of a schema. *)

(* What 0011 does not drop, and what 0016 does not drop either, by its table *)
(* and its name.                                                            *)
KeptBy0011(f) ==
  /\ f[2] \notin {"session_point_analytics", "motion_state", "quality_class"}
  /\ f[2] = "session_points" => f[3] \notin Derived \cup {"accepted_for_analytics"}
  /\ f[2] = "ride_sessions" => f[3] \notin OldRideTotals
Kept(f) ==
  /\ KeptBy0011(f)
  /\ f[2] = "resorts" => f[3] \notin ResortIdentity \cup {"uq_resorts_external_source_external_id",
                                                        "uq_resorts_name_country_region"}

LEMMA KeptIsNotDropped ==
  ASSUME NEW f, NEW d
  PROVE  /\ KeptBy0011(f) => f \notin Up0011(d).drop
         /\ Kept(f) => f \notin Up0016(d).drop
<1>1. ASSUME KeptBy0011(f), f \in Up0011(d).drop
      PROVE  FALSE
  <2> DEFINE points == DropsColumns(d, "session_points", Derived \cup {"accepted_for_analytics"}).drop
             rides9 == DropsColumns(d, "ride_sessions", OldRideTotals).drop
  <2>1. f \in FactsOfTable(d, "session_point_analytics") => f[2] = "session_point_analytics"
    BY DEF FactsOfTable
  <2>2. f \in points => f[2] = "session_points" /\ f[3] \in Derived \cup {"accepted_for_analytics"}
    BY DroppedColumns
  <2>3. f \in rides9 => f[2] = "ride_sessions" /\ f[3] \in OldRideTotals
    BY DroppedColumns
  <2>4. f \in {<<"enum", "motion_state">>, <<"enum", "quality_class">>} => f[2] \in {"motion_state", "quality_class"}
    OBVIOUS
  <2>5. f \in FactsOfTable(d, "session_point_analytics") \/ f \in points
        \/ f \in {<<"enum", "motion_state">>, <<"enum", "quality_class">>} \/ f \in rides9
    BY <1>1 DEF Up0011, Step
  <2> HIDE DEF points, rides9
  <2>6. QED
    BY <1>1, <2>1, <2>2, <2>3, <2>4, <2>5 DEF KeptBy0011
<1>2. ASSUME Kept(f), f \in Up0016(d).drop
      PROVE  FALSE
  <2> DEFINE ids == DropsColumns(d, "resorts", ResortIdentity).drop
  <2>1. f \in ids => f[2] = "resorts" /\ f[3] \in ResortIdentity
    BY DroppedColumns
  <2>2. f \in ResortIdentityKey \cup ResortNameKey =>
          f[2] = "resorts" /\ f[3] \in {"uq_resorts_external_source_external_id", "uq_resorts_name_country_region"}
    BY DEF ResortIdentityKey, ResortNameKey, Uniques
  <2>3. f \in ids \/ f \in ResortIdentityKey \cup ResortNameKey
    BY <1>2 DEF Up0016, Step
  <2> HIDE DEF ids
  <2>4. QED
    BY <1>2, <2>1, <2>2, <2>3 DEF Kept
<1>3. QED
  BY <1>1, <1>2

(* So it stays.                                                             *)
LEMMA KeptStays ==
  ASSUME NEW k \in 1..HeadRev, NEW f \in Made(k), NEW n \in k..HeadRev,
         n >= 10 /\ k < 10 => KeptBy0011(f), n = 15 /\ k < 15 => Kept(f)
  PROVE  f \in Clean[n]
<1>1. f \in Clean[k]
  BY MadeIsThere
<1>2. QED
  BY <1>1, KeptIsNotDropped, FactsLast

LEMMA KeptToTheHead ==
  ASSUME NEW n \in 1..HeadRev, NEW f \in Made(n), Kept(f)
  PROVE  f \in Clean[15]
BY KeptStays DEF Kept

LEMMA LateFactsAreKept ==
  ASSUME NEW n \in 10..15, NEW f \in Made(n)
  PROVE  Kept(f)
<1>1. (\E t \in TablesOf(n) : f[2] = t) \/ (\E e \in EnumsOf(n) : f[2] = e)
  BY MadeOfTables, FactsHaveATable
<1>2. f[2] \notin {"session_point_analytics", "motion_state", "quality_class"}
  BY <1>1 DEF TablesOf, EnumsOf
<1>3. ASSUME f[2] = "session_points"
      PROVE  f[3] \notin Derived \cup {"accepted_for_analytics"}
  <2>1. f[3] = "pressure_hpa"
    BY <1>3, PointNames
  <2>2. QED
    BY <2>1 DEF Derived
<1>4. ASSUME f[2] = "ride_sessions"
      PROVE  f[3] \notin OldRideTotals
  <2>1. f \in AnalyzerColumns \/ f \in SummaryDefaults
        \/ f \in Columns("ride_sessions", {}, {"break_count", "break_duration_s"}, {})
    BY <1>4, RideNames
  <2>2. f \in SummaryDefaults => f[3] \in Summary
    BY DEF SummaryDefaults
  <2>3. f \in Columns("ride_sessions", {}, {"break_count", "break_duration_s"}, {}) =>
          f[3] \in {"break_count", "break_duration_s"}
    BY ColumnsAreHeaded
  <2>4. f \in AnalyzerColumns =>
          f[3] \in Summary \cup RideExtras \cup {"source", "sport", "ck_ride_sessions_source",
                      "ck_ride_sessions_sport", "ix_ride_sessions_external_identifier_unique"}
    <3> DEFINE cols == Columns("ride_sessions", Summary, {"source", "sport"}, RideExtras)
    <3>1. f \in cols => f[3] \in Summary \cup RideExtras \cup {"source", "sport"}
      BY ColumnsAreHeaded
    <3> HIDE DEF cols
    <3>2. f \in AnalyzerColumns =>
            \/ f \in cols
            \/ f \in Checks("ride_sessions", {"ck_ride_sessions_source", "ck_ride_sessions_sport"})
            \/ f \in EnumColumn("ride_sessions", "conditions", "session_conditions")
            \/ f \in Uniques("ride_sessions", {"ix_ride_sessions_external_identifier_unique"})
      BY DEF AnalyzerColumns, cols
    <3>3. QED
      BY <3>1, <3>2, FactsHaveAName DEF RideExtras
  <2>5. QED
    BY <2>1, <2>2, <2>3, <2>4 DEF OldRideTotals, Summary, RideExtras
<1>5. ASSUME f[2] = "resorts"
      PROVE  f[3] \notin ResortIdentity \cup {"uq_resorts_external_source_external_id", "uq_resorts_name_country_region"}
  <2>1. n = 15
    BY <1>5, ResortNames
  <2>2. f \in Up0016({}).add
    BY <2>1 DEF Made, Upgrade
  <2>3. ~ MadeFor("resort_source_records", f) /\ ~ MadeFor("resort_field_overrides", f) /\ ~ MadeFor("resort_lifts", f)
    BY <1>5, FactsHaveATable
  <2>4. f \in CatalogColumns
    BY <2>2, <2>3 DEF Up0016, CatalogTables, LiftOrigin, Step, MadeFor
  <2>5. f[3] \in {"name_aliases", "field_provenance", "boundary", "bbox_min_lat", "bbox_min_lon", "bbox_max_lat",
                  "bbox_max_lon", "country_code", "region_code", "last_merged_at"}
    BY <2>4, ColumnsAreHeaded DEF CatalogColumns
  <2>6. QED
    BY <2>5 DEF ResortIdentity
<1>6. QED
  BY <1>2, <1>3, <1>4, <1>5 DEF Kept, KeptBy0011

(* Whatever there is from 0011 on has come through its drops.                *)
LEMMA AfterTheDrop ==
  ASSUME NEW n \in 10..15, NEW f \in Clean[n]
  PROVE  KeptBy0011(f)
<1> SUFFICES ASSUME ~ KeptBy0011(f) PROVE FALSE
  OBVIOUS
<1> DEFINE x == Clean[9]
<1>1. \A k \in 10..15 : f \notin Made(k)
  BY LateFactsAreKept DEF Kept
<1>2. ASSUME NEW k \in 11..15, NEW m, m = k - 1, f \in Clean[k]
      PROVE  f \in Clean[m]
  <2>1. Clean[k] = Applied(Upgrade(k, Clean[m]), Clean[m])
    BY <1>2, CleanStep
  <2>2. Upgrade(k, Clean[m]).add \subseteq Made(k)
    BY UpgradesMake
  <2>3. QED
    BY <1>1, <1>2, <2>1, <2>2 DEF Applied
<1>3. f \in Clean[10]
  <2>1. n = 15 => f \in Clean[14]
    BY <1>2
  <2>2. n \in 14..15 => f \in Clean[13]
    BY <1>2, <2>1
  <2>3. n \in 13..15 => f \in Clean[12]
    BY <1>2, <2>2
  <2>4. n \in 12..15 => f \in Clean[11]
    BY <1>2, <2>3
  <2>5. n \in 11..15 => f \in Clean[10]
    BY <1>2, <2>4
  <2>6. QED
    BY <2>5
<1>4. f \in x /\ f \notin Up0011(x).drop
  <2>1. Clean[10] = (x \ Up0011(x).drop) \cup Up0011(x).add
    BY CleanStep DEF Upgrade, Applied
  <2>2. Up0011(x).add \subseteq Made(10)
    <3>1. Upgrade(10, x).add \subseteq Made(10)
      BY UpgradesMake
    <3>2. QED
      BY <3>1 DEF Upgrade
  <2>3. QED
    BY <1>1, <1>3, <2>1, <2>2
<1>5. PICK k \in 1..9 : f \in Made(k)
  BY <1>4, SomebodyMadeIt
<1>6. (\E t \in TablesOf(k) : MadeFor(t, f)) \/ (\E e \in EnumsOf(k) : f = <<"enum", e>>)
  BY <1>5, MadeOfTables
<1>7. CASE f[2] = "session_point_analytics"
  <2>1. Len(f) > 2
    <3>1. f \notin {<<"enum", "ride_session_status">>, <<"enum", "provider_type">>, <<"enum", "motion_state">>,
                    <<"enum", "quality_class">>}
      BY <1>7
    <3>2. ~ \E e \in EnumsOf(k) : f = <<"enum", e>>
      BY <3>1 DEF EnumsOf
    <3>3. QED
      BY <1>6, <3>2, FactsHaveATable
  <2>2. f \in FactsOfTable(x, "session_point_analytics")
    BY <1>4, <1>7, <2>1 DEF FactsOfTable
  <2>3. QED
    BY <1>4, <2>2 DEF Up0011, Step
<1>8. CASE f[2] \in {"motion_state", "quality_class"}
  <2>1. f[2] \notin TablesOf(k)
    BY <1>8 DEF TablesOf
  <2>2. f \in {<<"enum", "motion_state">>, <<"enum", "quality_class">>}
    BY <1>6, <1>8, <2>1, FactsHaveATable
  <2>3. QED
    BY <1>4, <2>2 DEF Up0011, Step
<1>9. CASE f[2] = "session_points" /\ f[3] \in Derived \cup {"accepted_for_analytics"}
  <2> DEFINE cs == Derived \cup {"accepted_for_analytics"}
  <2>1. cs \subseteq Enriched \cup {"accepted_for_analytics"} /\ f[3] # "uq_session_points_session_id_t_offset_ms"
    BY <1>9 DEF Derived, Enriched
  <2>2. f[1] \in {"col", "notnull", "default", "uses"}
    BY <1>5, <1>9, <2>1, PointNames
  <2>3. Len(f) > 2
    <3>1. \A e \in EnumsOf(k) : f # <<"enum", e>>
      BY <2>2
    <3>2. QED
      BY <1>6, <3>1, FactsHaveATable
  <2>4. f \in DropsColumns(x, "session_points", cs).drop
    BY <1>4, <1>9, <2>2, <2>3, DropsColumnFacts DEF ColumnHead
  <2>5. QED
    BY <1>4, <2>4 DEF Up0011, Step
<1>10. CASE f[2] = "ride_sessions" /\ f[3] \in OldRideTotals
  <2>1. f = <<"col", "ride_sessions", f[3]>>
    BY <1>5, <1>10, RideNames
  <2>2. Len(f) > 2 /\ f[1] \in ColumnHead
    <3>1. \A e \in EnumsOf(k) : f # <<"enum", e>>
      BY <2>1
    <3>2. QED
      BY <1>6, <2>1, <3>1, FactsHaveATable DEF ColumnHead
  <2>3. f \in DropsColumns(x, "ride_sessions", OldRideTotals).drop
    BY <1>4, <1>10, <2>2, DropsColumnFacts
  <2>4. QED
    BY <1>4, <2>3 DEF Up0011, Step
<1>11. QED
  BY <1>7, <1>8, <1>9, <1>10 DEF KeptBy0011

LEMMA TheHeadIsKept ==
  ASSUME NEW f \in Clean[15]
  PROVE  Kept(f)
<1> SUFFICES ASSUME f[2] = "resorts", f[3] \in ResortIdentity \cup {"uq_resorts_external_source_external_id",
                                                                  "uq_resorts_name_country_region"}
             PROVE  FALSE
  BY AfterTheDrop DEF Kept
<1> DEFINE y == Clean[14]
<1>1. \A n \in 10..15 : f \notin Made(n)
  BY LateFactsAreKept DEF Kept
<1>2. f \in y /\ f \notin Up0016(y).drop
  <2>1. Clean[15] = (y \ Up0016(y).drop) \cup Up0016(y).add
    BY CleanStep DEF Upgrade, Applied
  <2>2. Up0016(y).add \subseteq Made(15)
    <3>1. Upgrade(15, y).add \subseteq Made(15)
      BY UpgradesMake
    <3>2. QED
      BY <3>1 DEF Upgrade
  <2>3. QED
    BY <1>1, <2>1, <2>2
<1>3. PICK k \in 1..14 : f \in Made(k)
  BY <1>2, SomebodyMadeIt
<1>4. CASE k = 2
  <2>1. f[3] = "uq_resorts_name_country_region"
    BY <1>3, <1>4, ResortNames DEF ResortIdentity
  <2>2. f \in ResortNameKey
    <3>1. f \in Up0002.add /\ ~ MadeFor("favorite_resorts", f)
      BY <1>3, <1>4, FactsHaveATable DEF Made, Upgrade
    <3>2. \/ f \in Columns("resorts", {"id", "name", "country", "region"}, {"created_at"},
                           {"city", "latitude", "longitude", "elevation_base_m", "elevation_top_m"})
          \/ f \in PrimaryKey("resorts", {"id"})
          \/ f \in Uniques("resorts", {"uq_resorts_name_country_region"})
          \/ f \in Indexes("resorts", {"ix_resorts_name", "ix_resorts_region"})
      BY <3>1 DEF Up0002, Adds, Step, MadeFor
    <3>3. QED
      BY <2>1, <3>2 DEF ResortNameKey, Columns, PrimaryKey, Indexes
  <2>3. QED
    BY <1>2, <2>2 DEF Up0016, Step
<1>5. CASE k = 6
  <2>1. \/ f \in Columns("resorts", {}, {"is_active"}, ResortIdentity)
        \/ f \in ResortIdentityKey \/ f \in Indexes("resorts", {"ix_resorts_is_active"})
    BY <1>3, <1>5, ResortNames
  <2>2. f \notin Indexes("resorts", {"ix_resorts_is_active"})
    BY DEF Indexes, ResortIdentity
  <2>3. ASSUME f \in Columns("resorts", {}, {"is_active"}, ResortIdentity)
        PROVE  f \in DropsColumns(y, "resorts", ResortIdentity).drop
    <3>1. Len(f) > 2 /\ f[1] \in ColumnHead /\ f[3] \in ResortIdentity \cup {"is_active"}
      BY <2>3, ColumnsAreHeaded
    <3>2. f[3] \in ResortIdentity
      BY <3>1
    <3>3. QED
      BY <1>2, <3>1, <3>2, DropsColumnFacts
  <2>4. QED
    BY <1>2, <2>1, <2>2, <2>3 DEF Up0016, Step
<1>6. QED
  BY <1>3, <1>4, <1>5, ResortNames

-------------------------------------------------------------------------------
(* The schema follows the revision. *)

(* A schema that only NotRestored tells from that of its revision, and that  *)
(* only while session_points has the column accepted_for_analytics.         *)
Follows(d, n) ==
  /\ Alike(d, Clean[n])
  /\ n \notin 7..9 => d \cap NotRestored = {}

LEMMA UpgradesForget ==
  ASSUME NEW n \in 10..15, NEW d, n > 10 => d \cap NotRestored = {}
  PROVE  Applied(Upgrade(n, d), d) \cap NotRestored = {}
<1>1. Upgrade(n, d).add \cap NotRestored = {}
  <2>1. Upgrade(n, d).add \subseteq Made(n)
    BY UpgradesMake
  <2>2. \A f \in NotRestored : f[2] = "session_points" /\ f[3] = "accepted_for_analytics"
    BY DEF NotRestored
  <2>3. \A f \in NotRestored : ~ Kept(f)
    BY <2>2 DEF Kept, KeptBy0011
  <2>4. QED
    BY <2>1, <2>3, LateFactsAreKept
<1>2. CASE n = 10
  <2>1. ASSUME NEW f \in NotRestored, f \in d
        PROVE  f \in Up0011(d).drop
    <3>1. f[1] \in ColumnHead /\ f[2] = "session_points" /\ f[3] = "accepted_for_analytics" /\ Len(f) > 2
      BY DEF NotRestored, ColumnHead
    <3>2. f \in DropsColumns(d, "session_points", Derived \cup {"accepted_for_analytics"}).drop
      BY <2>1, <3>1, DropsColumnFacts
    <3>3. QED
      BY <3>2 DEF Up0011, Step
  <2>2. QED
    BY <1>1, <1>2, <2>1 DEF Applied, Upgrade
<1>3. CASE n > 10
  BY <1>1, <1>3 DEF Applied
<1>4. QED
  BY <1>2, <1>3

LEMMA DowngradesForget ==
  ASSUME NEW n \in 11..15, NEW d, d \cap NotRestored = {}
  PROVE  Applied(Downgrade(n, d), d) \cap NotRestored = {}
<1>1. Downgrade(n, d).add \cap NotRestored = {}
  <2>1. CASE n = 15
    <3>1. Down0016.add = Columns("resorts", {}, {}, ResortIdentity) \cup ResortIdentityKey \cup ResortNameKey
      BY DEF Down0016, Step
    <3>2. \A f \in Down0016.add : MadeFor("resorts", f)
      BY <3>1 DEF MadeFor, ResortIdentityKey, ResortNameKey
    <3>3. \A f \in NotRestored : f[2] # "resorts"
      BY DEF NotRestored
    <3>4. QED
      BY <2>1, <3>2, <3>3, FactsHaveATable DEF Downgrade
  <2>2. CASE n < 15
    BY <2>2, DowngradesThatAdd
  <2>3. QED
    BY <2>1, <2>2
<1>2. QED
  BY <1>1 DEF Applied

(* So along the chain, up and down.                                          *)
LEMMA UpgradesFollow ==
  ASSUME NEW n \in 1..HeadRev, NEW m, m = n - 1, NEW d, Follows(d, m)
  PROVE  Follows(Applied(Upgrade(n, d), d), n)
<1>1. Alike(Applied(Upgrade(n, d), d), Clean[n])
  <2>1. Alike(Applied(Upgrade(n, d), d), Applied(Upgrade(n, Clean[m]), Clean[m]))
    BY UpgradesAlike, AppliedAlike DEF Follows
  <2>2. Clean[n] = Applied(Upgrade(n, Clean[m]), Clean[m])
    BY CleanStep
  <2>3. QED
    BY <2>1, <2>2
<1>2. CASE n >= 10
  <2>1. n > 10 => d \cap NotRestored = {}
    BY DEF Follows
  <2>2. QED
    BY <1>1, <1>2, <2>1, UpgradesForget DEF Follows
<1>3. CASE n < 7
  <2>1. d \cap NotRestored = {}
    BY <1>3 DEF Follows
  <2>2. ASSUME NEW f \in NotRestored, f \in Upgrade(n, d).add
        PROVE  FALSE
    <3>1. f[2] = "session_points" /\ f[3] = "accepted_for_analytics" /\ f[1] # "uses"
      BY DEF NotRestored
    <3>2. f \in Made(n)
      BY <2>2, UpgradesMake
    <3>3. QED
      BY <1>3, <3>1, <3>2, PointNames DEF Enriched, Derived
  <2>3. QED
    BY <1>1, <2>1, <2>2 DEF Follows, Applied
<1>4. QED
  BY <1>1, <1>2, <1>3 DEF Follows

LEMMA DowngradesFollow ==
  ASSUME NEW n \in 1..HeadRev, NEW m, m = n - 1, NEW d, Follows(d, n)
  PROVE  Follows(Applied(Downgrade(n, d), d), m)
<1>1. Alike(Applied(Downgrade(n, d), d), Clean[m])
  <2>1. Alike(Applied(Downgrade(n, d), d), Undone(n))
    BY DowngradesAlike, AppliedAlike DEF Undone, Follows
  <2>2. QED
    BY <2>1, EachIsUndone, AlikeIsTransitive
<1>2. CASE n > 10
  <2>1. d \cap NotRestored = {}
    BY <1>2 DEF Follows
  <2>2. QED
    BY <1>1, <1>2, <2>1, DowngradesForget DEF Follows
<1>3. CASE n < 7
  <2>1. d \cap NotRestored = {}
    BY <1>3 DEF Follows
  <2>2. Downgrade(n, d).add = {}
    BY <1>3, DowngradesThatAdd
  <2>3. QED
    BY <1>1, <2>1, <2>2 DEF Follows, Applied
<1>4. CASE n = 7
  <2> DEFINE col == <<"col", "session_points", "accepted_for_analytics">>
  <2>1. Downgrade(7, d) = Down0008(d)
    BY DEF Downgrade
  <2>2. Down0008(d).add = {}
    BY DEF Down0008, DropsColumns, Step
  <2>3. col \in Made(7)
    BY DEF Made, Columns
  <2>4. col \in d
    BY <1>4, <2>3, MadeIsThere DEF Follows, Alike, NotRestored
  <2>5. "accepted_for_analytics" \in ColumnsOf(d, "session_points")
    BY <2>4 DEF ColumnsOf
  <2>6. ASSUME NEW f \in NotRestored, f \in d
        PROVE  f \in Down0008(d).drop
    <3>1. f[1] \in ColumnHead /\ f[2] = "session_points" /\ f[3] = "accepted_for_analytics" /\ Len(f) > 2
      BY DEF NotRestored, ColumnHead
    <3>2. QED
      BY <2>5, <2>6, <3>1, DropsColumnFacts DEF Down0008
  <2>7. QED
    BY <1>1, <1>4, <2>1, <2>2, <2>6 DEF Follows, Applied
<1>5. QED
  BY <1>1, <1>2, <1>3, <1>4 DEF Follows

(* The schema is the one of its revision, and so is the one that a rollback  *)
(* would bring back.                                                        *)
ChainInv ==
  /\ Follows(db, rev)
  /\ ~ Idle => Follows(saved.db, saved.rev)

LEMMA MigrateFollowsTheChain ==
  ASSUME RevisionsOK, Follows(db, rev), Migrate
  PROVE  Follows(db', rev')
<1>1. db' = Applied(Migration, db)
  BY DEF Migrate
<1>2. rev \in 0..15 /\ target \in 0..15 /\ target # rev
  BY DEF Migrate, RevisionsOK, Idle
<1>3. CASE target > rev
  <2>1. rev' = rev + 1 /\ rev + 1 \in 1..15 /\ rev = (rev + 1) - 1 /\ Migration = Upgrade(rev + 1, db)
    BY <1>2, <1>3 DEF Migrate, NextRev, Migration
  <2>2. Follows(Applied(Upgrade(rev + 1, db), db), rev + 1)
    BY <2>1, UpgradesFollow
  <2>3. QED
    BY <1>1, <2>1, <2>2
<1>4. CASE target < rev
  <2>1. rev' = rev - 1 /\ rev \in 1..15 /\ Migration = Downgrade(rev, db)
    BY <1>2, <1>4 DEF Migrate, NextRev, Migration
  <2>2. QED
    BY <1>1, <2>1, DowngradesFollow
<1>5. QED
  BY <1>2, <1>3, <1>4

LEMMA ChainInvHolds == Spec => []ChainInv
<1>1. Init => ChainInv
  BY CleanStep DEF Init, ChainInv, Follows, Alike, Idle
<1>2. RowsInv /\ ChainInv /\ [Next]_vars => ChainInv'
  <2> SUFFICES ASSUME RowsInv, ChainInv, [Next]_vars PROVE ChainInv'
    OBVIOUS
  <2>1. ASSUME NEW t \in 0..HeadRev, Command(t)
        PROVE  ChainInv'
    <3>1. saved'.rev = rev /\ saved'.db = db /\ rev' = rev /\ db' = db
      BY <2>1 DEF Command, Snapshot
    <3>2. QED
      BY <3>1 DEF ChainInv
  <2>2. CASE Migrate
    <3>1. Follows(db', rev')
      BY <2>2, MigrateFollowsTheChain DEF RowsInv, ChainInv
    <3>2. ~ Idle' => saved' = saved /\ ~ Idle
      BY <2>2 DEF Migrate, Idle
    <3>3. QED
      BY <3>1, <3>2 DEF ChainInv
  <2>3. CASE RollBack
    BY <2>3 DEF RollBack, ChainInv, Idle
  <2>4. CASE UNCHANGED <<rev, db, target, saved>>
    BY <2>4 DEF ChainInv, Idle
  <2>5. QED
    BY <2>1, <2>2, <2>3, <2>4 DEF Next, StoreRide, LegacyImport, CatalogImport
<1>3. QED
  BY <1>1, <1>2, RowsInvHolds, PTL DEF Spec

(* A downgrade takes back all that its upgrade made and nothing else,        *)
(* wherever in the chain commands begin, end and are rolled back.           *)
THEOREM DowngradesHold == Spec => []DowngradeUndoesUpgrade
<1>1. ChainInv => DowngradeUndoesUpgrade
  BY AlikeIsTheSame DEF ChainInv, Follows, DowngradeUndoesUpgrade
<1>2. QED
  BY <1>1, ChainInvHolds, PTL

-------------------------------------------------------------------------------
(* The head of the chain is what the models declare. *)

LEMMA TablesOfTheModels ==
  /\ User \cup Resort \cup FavoriteResort \cup WeatherCache \cup RefreshToken \cup RideSession \subseteq ModelTables
  /\ RideSessionAction \cup RideSessionOverride \cup SessionPoint \cup ResortLift \subseteq ModelTables
  /\ ResortSourceRecord \cup ResortFieldOverride \subseteq ModelTables
  /\ ModelTables \subseteq Models
<1> USE DEF ModelTables
<1>1. User \cup Resort \cup FavoriteResort \cup WeatherCache \cup RefreshToken \cup RideSession \subseteq ModelTables
  OBVIOUS
<1>2. RideSessionAction \cup RideSessionOverride \cup SessionPoint \cup ResortLift \subseteq ModelTables
  OBVIOUS
<1>3. ResortSourceRecord \cup ResortFieldOverride \subseteq ModelTables
  OBVIOUS
<1>4. ModelTables \subseteq Models
  BY DEF Models
<1>5. QED
  BY <1>1, <1>2, <1>3, <1>4

LEMMA TypesOfTheModels ==
  /\ <<"enum", "ride_session_status">> \in Models
  /\ <<"enum", "session_conditions">> \in Models
  /\ <<"enum", "provider_type">> \in Models
<1> DEFINE types == {<<"enum", f[4]>> : f \in {g \in ModelTables : g[1] = "uses"}}
<1>1. ASSUME NEW t, NEW c, NEW e, EnumColumn(t, c, e) \subseteq ModelTables
      PROVE  <<"enum", e>> \in types
  <2>1. <<"uses", t, c, e>> \in ModelTables
    BY <1>1 DEF EnumColumn
  <2>2. <<"uses", t, c, e>>[1] = "uses" /\ <<"uses", t, c, e>>[4] = e
    OBVIOUS
  <2>3. QED
    BY <2>1, <2>2
<1>2. EnumColumn("ride_sessions", "conditions", "session_conditions") \cup EnumColumn("ride_sessions", "status", "ride_session_status") \subseteq ModelTables
  BY TablesOfTheModels DEF RideSession
<1>3. EnumColumn("session_points", "provider", "provider_type") \subseteq ModelTables
  BY TablesOfTheModels DEF SessionPoint
<1>4. types \subseteq Models
  BY DEF Models
<1> HIDE DEF types
<1>5. QED
  BY <1>1, <1>2, <1>3, <1>4

(* A column is declared as the models have it when it is there, and not null *)
(* and defaulted where they say so.                                         *)
LEMMA FewerColumns ==
  ASSUME NEW t, NEW r, NEW w, NEW o, NEW r2, NEW w2, NEW o2,
         r \cup w \cup o \subseteq r2 \cup w2 \cup o2, r \cup w \subseteq r2 \cup w2, w \subseteq w2
  PROVE  Columns(t, r, w, o) \subseteq Columns(t, r2, w2, o2)
BY DEF Columns

LEMMA FewerNames ==
  ASSUME NEW t, NEW a, NEW b, a \subseteq b
  PROVE  /\ Uniques(t, a) \subseteq Uniques(t, b) /\ Indexes(t, a) \subseteq Indexes(t, b)
         /\ Checks(t, a) \subseteq Checks(t, b)
BY DEF Uniques, Indexes, Checks

(* What is made and kept is declared, but for the two checks.                *)
LEMMA EarlyIsDeclared ==
  ASSUME NEW n \in 1..9, NEW f \in Made(n), Kept(f)
  PROVE  f \in Models \cup KnownDrift
<1>0. n \notin {5, 7} => f \in Upgrade(n, {}).add
  BY DEF Made
<1>1. CASE n \in {1, 4, 12}
  <2>1. Up0001.add = User
    BY DEF Up0001, User, Adds, Step
  <2>2. f \in Up0004.add => f \in WeatherCache \cup PointOffsetKey
    BY DEF Up0004, WeatherCache, Adds, Step
  <2>3. PointOffsetKey \subseteq SessionPoint
    BY DEF PointOffsetKey, SessionPoint
  <2>4. Up0013.add = RefreshToken
    BY DEF Up0013, RefreshToken, Adds, Step
  <2>5. QED
    BY <1>0, <1>1, <2>1, <2>2, <2>3, <2>4, TablesOfTheModels DEF Upgrade
<1>2. CASE n = 2
  <2>1. f \in Up0002.add
    BY <1>0, <1>2 DEF Upgrade
  <2>2. f \notin Uniques("resorts", {"uq_resorts_name_country_region"})
    BY DEF Kept, KeptBy0011, Uniques
  <2>3. Columns("resorts", {"id", "name", "country", "region"}, {"created_at"},
               {"city", "latitude", "longitude", "elevation_base_m", "elevation_top_m"}) \subseteq Resort
    <3>1. Columns("resorts", {"id", "name", "country", "region"}, {"created_at"},
               {"city", "latitude", "longitude", "elevation_base_m", "elevation_top_m"}) \subseteq
          Columns("resorts", {"id", "name", "country", "region"},
          {"name_aliases", "field_provenance", "is_active", "created_at"},
          {"city", "latitude", "longitude", "elevation_base_m", "elevation_top_m",
           "boundary", "bbox_min_lat", "bbox_min_lon", "bbox_max_lat", "bbox_max_lon",
           "country_code", "region_code", "last_merged_at"})
      BY FewerColumns
    <3>2. QED
      BY <3>1 DEF Resort
  <2>4. Indexes("resorts", {"ix_resorts_name", "ix_resorts_region"}) \cup PrimaryKey("resorts", {"id"}) \subseteq Resort
    <3>1. {"ix_resorts_name", "ix_resorts_region"} \subseteq {"ix_resorts_name", "ix_resorts_region", "ix_resorts_is_active"}
      OBVIOUS
    <3>2. Indexes("resorts", {"ix_resorts_name", "ix_resorts_region"}) \subseteq
          Indexes("resorts", {"ix_resorts_name", "ix_resorts_region", "ix_resorts_is_active"})
      BY <3>1, FewerNames
    <3>3. QED
      BY <3>2 DEF Resort
  <2>5. f \in Resort \/ f \in FavoriteResort
    BY <2>1, <2>2, <2>3, <2>4 DEF Up0002, FavoriteResort, Adds, Step
  <2>6. QED
    BY <2>5, TablesOfTheModels
<1>3. CASE n = 3
  <2>1. f \in Up0003.add
    BY <1>0, <1>3 DEF Upgrade
  <2>2. ASSUME f \in Columns("ride_sessions", {"id", "user_id"}, {"started_at", "status", "created_at"},
                      {"resort_id", "ended_at", "max_speed_mps"} \cup OldRideTotals)
        PROVE  f \in RideSession
    <3>1. f \in Columns("ride_sessions", {"id", "user_id"}, {"started_at", "status", "created_at"},
                      {"resort_id", "ended_at", "max_speed_mps"})
      <4>1. f[2] = "ride_sessions"
        BY <2>2, ColumnsAreHeaded
      <4>2. f[3] \notin OldRideTotals
        BY <4>1 DEF Kept, KeptBy0011
      <4>3. QED
        BY <2>2, <4>2 DEF Columns
    <3>2. Columns("ride_sessions", {"id", "user_id"}, {"started_at", "status", "created_at"},
                      {"resort_id", "ended_at", "max_speed_mps"}) \subseteq
          Columns("ride_sessions", {"id", "user_id"},
          {"started_at", "source", "sport", "descent_distance_m", "descent_duration_s",
           "descent_vertical_m", "lift_distance_m", "lift_duration_s", "lift_vertical_m",
           "avg_descent_speed_mps", "total_duration_s", "break_count", "break_duration_s",
           "status", "created_at"},
          {"resort_id", "ended_at", "max_speed_mps", "external_identifier", "conditions",
           "altitude_offset_m", "peak_altitude_m", "center_lat", "center_long",
           "processed_by_version", "processed_at"})
      BY FewerColumns
    <3>3. QED
      BY <3>1, <3>2 DEF RideSession
  <2>3. Columns("session_points", {"id", "session_id", "t_offset_ms", "latitude", "longitude"},
                {"created_at"}, {"accuracy_m", "altitude_m", "speed_mps", "heading_deg"}) \subseteq SessionPoint
    <3>1. Columns("session_points", {"id", "session_id", "t_offset_ms", "latitude", "longitude"},
                {"created_at"}, {"accuracy_m", "altitude_m", "speed_mps", "heading_deg"}) \subseteq
          Columns("session_points", {"id", "session_id", "t_offset_ms", "latitude", "longitude"},
          {"recorded_at", "created_at"},
          {"accuracy_m", "elapsed_realtime_ns", "altitude_m", "vertical_accuracy_m",
           "speed_mps", "speed_accuracy_mps", "heading_deg", "bearing_accuracy_deg",
           "pressure_hpa", "provider", "is_mocked"})
      BY FewerColumns
    <3>2. QED
      BY <3>1 DEF SessionPoint
  <2>4. f \in Models
    <3>1. f \in RideSession \/ f \in SessionPoint \/ f = <<"enum", "ride_session_status">>
      BY <2>1, <2>2, <2>3 DEF Up0003, Adds, Step, RideSession, SessionPoint
    <3>2. QED
      BY <3>1, TablesOfTheModels, TypesOfTheModels
  <2>5. QED
    BY <2>4
<1>4. CASE n = 5
  <2>1. f = <<"col", "session_points", f[3]>> /\ f[3] \in Enriched /\ f[3] \notin Derived
    BY <1>4 DEF Made, Columns, Kept, KeptBy0011
  <2>2. f \in SessionPoint
    BY <2>1 DEF Enriched, SessionPoint, Columns
  <2>3. QED
    BY <2>2, TablesOfTheModels
<1>5. CASE n = 6
  <2>1. f \in Up0007.add
    BY <1>0, <1>5 DEF Upgrade
  <2>2. f \notin ResortIdentityKey
    BY DEF Kept, KeptBy0011, Uniques, ResortIdentityKey
  <2>3. ASSUME f \in Columns("resorts", {}, {"is_active"}, ResortIdentity)
        PROVE  f \in Resort
    <3>1. f[2] = "resorts"
      BY <2>3, ColumnsAreHeaded
    <3>2. f \in Columns("resorts", {}, {"is_active"}, {})
      BY <2>3, <3>1 DEF Kept, KeptBy0011, Columns
    <3>3. Columns("resorts", {}, {"is_active"}, {}) \subseteq
          Columns("resorts", {"id", "name", "country", "region"},
          {"name_aliases", "field_provenance", "is_active", "created_at"},
          {"city", "latitude", "longitude", "elevation_base_m", "elevation_top_m",
           "boundary", "bbox_min_lat", "bbox_min_lon", "bbox_max_lat", "bbox_max_lon",
           "country_code", "region_code", "last_merged_at"})
      BY FewerColumns
    <3>4. QED
      BY <3>2, <3>3 DEF Resort
  <2>4. Indexes("resorts", {"ix_resorts_is_active"}) \subseteq Resort
    <3>1. Indexes("resorts", {"ix_resorts_is_active"}) \subseteq
          Indexes("resorts", {"ix_resorts_name", "ix_resorts_region", "ix_resorts_is_active"})
      BY DEF Indexes
    <3>2. QED
      BY <3>1 DEF Resort
  <2>5. f \in Resort
    BY <2>1, <2>2, <2>3, <2>4 DEF Up0007, Adds, Step
  <2>6. QED
    BY <2>5, TablesOfTheModels
<1>6. CASE n = 7
  <2>1. f \in {<<"col", "session_points", "recorded_at">>, <<"notnull", "session_points", "recorded_at">>}
    BY <1>6 DEF Made, Columns, Kept, KeptBy0011
  <2>2. f \in SessionPoint
    BY <2>1 DEF SessionPoint, Columns
  <2>3. QED
    BY <2>2, TablesOfTheModels
<1>7. CASE n = 8
  <2>1. f \in PointEnumFacts
    BY <1>0, <1>7 DEF Upgrade, Up0009, Adds, Step
  <2>2. PICK e \in PointEnums : f = <<"enum", e[2]>> \/ f \in EnumColumn("session_points", e[1], e[2])
    BY <2>1 DEF PointEnumFacts
  <2>3. e \in {<<"provider", "provider_type">>, <<"motion_state", "motion_state">>, <<"quality_class", "quality_class">>}
    BY <2>2 DEF PointEnums
  <2>4. CASE e = <<"provider", "provider_type">>
    BY <2>2, <2>4, TablesOfTheModels, TypesOfTheModels DEF SessionPoint
  <2>5. CASE e \in {<<"motion_state", "motion_state">>, <<"quality_class", "quality_class">>}
    BY <2>2, <2>5 DEF Kept, KeptBy0011, EnumColumn, Derived
  <2>6. QED
    BY <2>3, <2>4, <2>5
<1>8. CASE n = 9
  <2>1. f[2] = "session_point_analytics"
    BY <1>8, MadeOfTables, FactsHaveATable DEF TablesOf, EnumsOf
  <2>2. QED
    BY <2>1 DEF Kept, KeptBy0011
<1>9. QED
  BY <1>1, <1>2, <1>3, <1>4, <1>5, <1>6, <1>7, <1>8

LEMMA LateIsDeclared ==
  ASSUME NEW n \in 10..15, NEW f \in Made(n)
  PROVE  f \in Models \cup KnownDrift
<1>0. f \in Upgrade(n, {}).add
  BY DEF Made
<1>1. CASE n = 10
  <2>1. f \in Up0011({}).add
    BY <1>0, <1>1 DEF Upgrade
  <2>2. Columns("ride_session_actions",
                {"id", "session_id", "action_type", "sequence_index", "started_at",
                 "ended_at", "duration_s", "distance_m", "avg_speed_mps", "max_speed_mps",
                 "source"}, {"created_at"},
             {"min_speed_mps", "vertical_m", "min_altitude_m", "max_altitude_m", "min_lat",
              "max_lat", "min_long", "max_long", "top_speed_lat", "top_speed_long",
              "top_speed_alt_m", "time_of_day", "external_track_id"}) \subseteq RideSessionAction
    <3>1. Columns("ride_session_actions",
                {"id", "session_id", "action_type", "sequence_index", "started_at",
                 "ended_at", "duration_s", "distance_m", "avg_speed_mps", "max_speed_mps",
                 "source"}, {"created_at"},
             {"min_speed_mps", "vertical_m", "min_altitude_m", "max_altitude_m", "min_lat",
              "max_lat", "min_long", "max_long", "top_speed_lat", "top_speed_long",
              "top_speed_alt_m", "time_of_day", "external_track_id"}) \subseteq
          Columns("ride_session_actions",
          {"id", "session_id", "action_type", "sequence_index", "started_at", "ended_at",
           "duration_s", "distance_m", "avg_speed_mps", "max_speed_mps", "source"},
          {"created_at"},
          {"min_speed_mps", "vertical_m", "min_altitude_m", "max_altitude_m", "min_lat",
           "max_lat", "min_long", "max_long", "top_speed_lat", "top_speed_long",
           "top_speed_alt_m", "time_of_day", "external_track_id", "lift_name"})
      BY FewerColumns
    <3>2. QED
      BY <3>1 DEF RideSessionAction
  <2>3. Columns("resort_lifts", {"id", "resort_id", "name"}, {"created_at"},
                {"lift_type", "polyline", "base_altitude_m", "top_altitude_m",
                 "external_track_id"}) \subseteq ResortLift
    <3>1. Columns("resort_lifts", {"id", "resort_id", "name"}, {"created_at"},
                {"lift_type", "polyline", "base_altitude_m", "top_altitude_m",
                 "external_track_id"}) \subseteq
          Columns("resort_lifts", {"id", "resort_id", "name"}, {"source", "created_at"},
          {"lift_type", "osm_aerialway", "polyline", "base_altitude_m", "top_altitude_m",
           "external_track_id", "status", "source_record_id"})
      BY FewerColumns
    <3>2. QED
      BY <3>1 DEF ResortLift
  <2>4. Checks("resort_lifts", {"ck_resort_lifts_lift_type"}) \subseteq ResortLift
    <3>1. Checks("resort_lifts", {"ck_resort_lifts_lift_type"}) \subseteq
          Checks("resort_lifts", {"ck_resort_lifts_lift_type", "ck_resort_lifts_source"})
      BY FewerNames
    <3>2. QED
      BY <3>1 DEF ResortLift
  <2>5. f \in AnalyzerTables => f \in RideSessionAction \/ f \in RideSessionOverride \/ f \in ResortLift
    BY <2>2, <2>3, <2>4, ZenonT(60) DEF AnalyzerTables, RideSessionAction, RideSessionOverride, ResortLift
  <2>6. Columns("ride_sessions", Summary, {"source", "sport"}, RideExtras) \subseteq RideSession
    <3>1. Columns("ride_sessions", Summary, {"source", "sport"}, RideExtras) \subseteq
          Columns("ride_sessions", {"id", "user_id"},
          {"started_at", "source", "sport", "descent_distance_m", "descent_duration_s",
           "descent_vertical_m", "lift_distance_m", "lift_duration_s", "lift_vertical_m",
           "avg_descent_speed_mps", "total_duration_s", "break_count", "break_duration_s",
           "status", "created_at"},
          {"resort_id", "ended_at", "max_speed_mps", "external_identifier", "conditions",
           "altitude_offset_m", "peak_altitude_m", "center_lat", "center_long",
           "processed_by_version", "processed_at"})
      BY FewerColumns DEF Summary, RideExtras
    <3>2. QED
      BY <3>1 DEF RideSession
  <2>7. f \in AnalyzerColumns => f \in RideSession \/ f \in KnownDrift
    BY <2>6 DEF AnalyzerColumns, RideSession, KnownDrift
  <2>8. f \in AnalyzerTables \/ f \in AnalyzerColumns \/ f = <<"enum", "session_conditions">>
    BY <2>1 DEF Up0011, Step
  <2>9. QED
    BY <2>5, <2>7, <2>8, TablesOfTheModels, TypesOfTheModels
<1>2. CASE n = 11
  <2>1. f \in SummaryDefaults
    BY <1>0, <1>2 DEF Upgrade, Up0012, Adds, Step
  <2>2. Columns("ride_sessions", {}, Summary, {}) \subseteq
        Columns("ride_sessions", {"id", "user_id"},
          {"started_at", "source", "sport", "descent_distance_m", "descent_duration_s",
           "descent_vertical_m", "lift_distance_m", "lift_duration_s", "lift_vertical_m",
           "avg_descent_speed_mps", "total_duration_s", "break_count", "break_duration_s",
           "status", "created_at"},
          {"resort_id", "ended_at", "max_speed_mps", "external_identifier", "conditions",
           "altitude_offset_m", "peak_altitude_m", "center_lat", "center_long",
           "processed_by_version", "processed_at"})
    BY FewerColumns DEF Summary
  <2>3. SummaryDefaults \subseteq Columns("ride_sessions", {}, Summary, {})
    BY DEF SummaryDefaults, Columns
  <2>4. f \in RideSession
    BY <2>1, <2>2, <2>3 DEF RideSession
  <2>5. QED
    BY <2>4, TablesOfTheModels
<1>3. CASE n = 12
  <2>1. Up0013.add = RefreshToken
    BY DEF Up0013, RefreshToken, Adds, Step
  <2>2. QED
    BY <1>0, <1>3, <2>1, TablesOfTheModels DEF Upgrade
<1>4. CASE n = 13
  <2>1. f = <<"col", "session_points", "pressure_hpa">>
    BY <1>0, <1>4 DEF Upgrade, Up0014, Adds, Step, Columns
  <2>2. f \in SessionPoint
    BY <2>1 DEF SessionPoint, Columns
  <2>3. QED
    BY <2>2, TablesOfTheModels
<1>5. CASE n = 14
  <2>1. f \in Up0015.add
    BY <1>0, <1>5 DEF Upgrade
  <2>2. f \in Columns("resort_lifts", {}, {}, {"osm_aerialway"}) => f \in ResortLift
    BY DEF ResortLift, Columns
  <2>3. f \in Columns("ride_session_actions", {}, {}, {"lift_name"}) => f \in RideSessionAction
    BY DEF RideSessionAction, Columns
  <2>4. f \in Columns("ride_sessions", {}, {"break_count", "break_duration_s"}, {}) => f \in RideSession
    BY DEF RideSession, Columns
  <2>5. f \in ResortLift \/ f \in RideSessionAction \/ f \in RideSession
    BY <2>1, <2>2, <2>3, <2>4 DEF Up0015, Adds, Step
  <2>6. QED
    BY <2>5, TablesOfTheModels
<1>6. CASE n = 15
  <2>1. f \in CatalogTables \/ f \in CatalogColumns \/ f \in LiftOrigin
    BY <1>0, <1>6 DEF Upgrade, Up0016, Step
  <2>2. f \in CatalogTables => f \in ResortSourceRecord \/ f \in ResortFieldOverride
    BY DEF CatalogTables, ResortSourceRecord, ResortFieldOverride
  <2>3. CatalogColumns \subseteq Resort
    <3>1. CatalogColumns \subseteq
          Columns("resorts", {"id", "name", "country", "region"},
          {"name_aliases", "field_provenance", "is_active", "created_at"},
          {"city", "latitude", "longitude", "elevation_base_m", "elevation_top_m",
           "boundary", "bbox_min_lat", "bbox_min_lon", "bbox_max_lat", "bbox_max_lon",
           "country_code", "region_code", "last_merged_at"})
      BY FewerColumns DEF CatalogColumns
    <3>2. QED
      BY <3>1 DEF Resort
  <2>4. f \in LiftOrigin => f \in ResortLift
    <3>1. Columns("resort_lifts", {}, {"source"}, {"status", "source_record_id"}) \subseteq
          Columns("resort_lifts", {"id", "resort_id", "name"}, {"source", "created_at"},
          {"lift_type", "osm_aerialway", "polyline", "base_altitude_m", "top_altitude_m",
           "external_track_id", "status", "source_record_id"})
      BY FewerColumns
    <3>2. Checks("resort_lifts", {"ck_resort_lifts_source"}) \subseteq
          Checks("resort_lifts", {"ck_resort_lifts_lift_type", "ck_resort_lifts_source"})
      BY FewerNames
    <3>3. QED
      BY <3>1, <3>2 DEF LiftOrigin, ResortLift
  <2>5. QED
    BY <2>1, <2>2, <2>3, <2>4, TablesOfTheModels
<1>7. QED
  BY <1>1, <1>2, <1>3, <1>4, <1>5, <1>6

(* The tables that only one revision makes facts of.                         *)
LEMMA OtherTablesAreKept ==
  ASSUME NEW f, f[2] \in {"users", "favorite_resorts", "weather_cache", "refresh_tokens"}
  PROVE  Kept(f)
BY DEF Kept, KeptBy0011

LEMMA DeclaredAtOnce ==
  User \cup FavoriteResort \cup WeatherCache \cup RefreshToken \subseteq Clean[15]
<1>1. \A f \in User : MadeFor("users", f)
  BY DEF User, MadeFor
<1>2. \A f \in FavoriteResort : MadeFor("favorite_resorts", f)
  BY DEF FavoriteResort, MadeFor
<1>3. \A f \in WeatherCache : MadeFor("weather_cache", f)
  BY DEF WeatherCache, MadeFor
<1>4. \A f \in RefreshToken : MadeFor("refresh_tokens", f)
  BY DEF RefreshToken, MadeFor
<1>5. \A f \in User \cup FavoriteResort \cup WeatherCache \cup RefreshToken : Kept(f)
  BY <1>1, <1>2, <1>3, <1>4, FactsHaveATable, OtherTablesAreKept
<1>6. User \subseteq Made(1)
  BY DEF Made, Upgrade, Up0001, User, Adds, Step
<1>7. FavoriteResort \subseteq Made(2)
  BY DEF Made, Upgrade, Up0002, FavoriteResort, Adds, Step
<1>8. WeatherCache \subseteq Made(4)
  BY DEF Made, Upgrade, Up0004, WeatherCache, Adds, Step
<1>9. RefreshToken \subseteq Made(12)
  <2>1. Made(12) = Up0013.add
    BY DEF Made, Upgrade
  <2>2. RefreshToken = Up0013.add
    BY DEF Up0013, RefreshToken, Adds, Step
  <2>3. QED
    BY <2>1, <2>2
<1>10. QED
  BY <1>5, <1>6, <1>7, <1>8, <1>9, KeptToTheHead

LEMMA LateMadeIsThere ==
  ASSUME NEW n \in 10..15, NEW f \in Made(n)
  PROVE  f \in Clean[15]
BY LateFactsAreKept, KeptToTheHead

LEMMA DeclaredLate ==
  RideSessionAction \cup RideSessionOverride \cup ResortLift \cup ResortSourceRecord
    \cup ResortFieldOverride \subseteq Clean[15]
<1>1. AnalyzerTables \subseteq Clean[15]
  <2>1. AnalyzerTables \subseteq Made(10)
    BY DEF Made, Upgrade, Up0011, Step
  <2>2. QED
    BY <2>1, LateMadeIsThere
<1>2. Up0015.add \subseteq Clean[15]
  <2>1. Up0015.add \subseteq Made(14)
    BY DEF Made, Upgrade
  <2>2. QED
    BY <2>1, LateMadeIsThere
<1>3. CatalogTables \cup LiftOrigin \subseteq Clean[15]
  <2>1. CatalogTables \cup LiftOrigin \subseteq Made(15)
    BY DEF Made, Upgrade, Up0016, Step
  <2>2. QED
    BY <2>1, LateMadeIsThere
<1>4. RideSessionOverride \subseteq AnalyzerTables
  BY ZenonT(60) DEF RideSessionOverride, AnalyzerTables
<1>5. ResortSourceRecord \cup ResortFieldOverride \subseteq CatalogTables
  BY DEF ResortSourceRecord, ResortFieldOverride, CatalogTables
<1>6. RideSessionAction \subseteq Clean[15]
  <2> DEFINE t == "ride_session_actions"
             old == Columns(t, {"id", "session_id", "action_type", "sequence_index", "started_at",
                 "ended_at", "duration_s", "distance_m", "avg_speed_mps", "max_speed_mps",
                 "source"}, {"created_at"},
             {"min_speed_mps", "vertical_m", "min_altitude_m", "max_altitude_m", "min_lat",
              "max_lat", "min_long", "max_long", "top_speed_lat", "top_speed_long",
              "top_speed_alt_m", "time_of_day", "external_track_id"})
             new == Columns(t, {}, {}, {"lift_name"})
             all == Columns(t,
          {"id", "session_id", "action_type", "sequence_index", "started_at", "ended_at",
           "duration_s", "distance_m", "avg_speed_mps", "max_speed_mps", "source"},
          {"created_at"},
          {"min_speed_mps", "vertical_m", "min_altitude_m", "max_altitude_m", "min_lat",
           "max_lat", "min_long", "max_long", "top_speed_lat", "top_speed_long",
           "top_speed_alt_m", "time_of_day", "external_track_id", "lift_name"})
             rest == RideSessionAction \ all
  <2>1. all \subseteq old \cup new
    BY DEF Columns
  <2>2. old \subseteq AnalyzerTables
    BY DEF AnalyzerTables
  <2>3. new \subseteq Up0015.add
    BY DEF Up0015, Adds, Step
  <2>4. \A f \in RideSessionAction : f \in all \/ f \in AnalyzerTables
    BY ZenonT(60) DEF RideSessionAction, AnalyzerTables
  <2> HIDE DEF all, old, new
  <2>5. QED
    BY <1>1, <1>2, <2>1, <2>2, <2>3, <2>4
<1>7. ResortLift \subseteq Clean[15]
  <2> DEFINE t == "resort_lifts"
             old == Columns(t, {"id", "resort_id", "name"}, {"created_at"},
                {"lift_type", "polyline", "base_altitude_m", "top_altitude_m",
                 "external_track_id"})
             new == Columns(t, {}, {}, {"osm_aerialway"})
             late == Columns(t, {}, {"source"}, {"status", "source_record_id"})
             all == Columns(t, {"id", "resort_id", "name"}, {"source", "created_at"},
          {"lift_type", "osm_aerialway", "polyline", "base_altitude_m", "top_altitude_m",
           "external_track_id", "status", "source_record_id"})
             checks == Checks(t, {"ck_resort_lifts_lift_type", "ck_resort_lifts_source"})
  <2>1. all \subseteq old \cup new \cup late
    BY DEF Columns
  <2>2. old \subseteq AnalyzerTables
    BY DEF AnalyzerTables
  <2>3. new \subseteq Up0015.add
    BY DEF Up0015, Adds, Step
  <2>4. late \subseteq LiftOrigin
    BY DEF LiftOrigin
  <2>5. checks \subseteq AnalyzerTables \cup LiftOrigin
    <3>1. checks = Checks(t, {"ck_resort_lifts_lift_type"}) \cup Checks(t, {"ck_resort_lifts_source"})
      BY DEF Checks
    <3>2. QED
      BY <3>1 DEF AnalyzerTables, LiftOrigin
  <2>6. \A f \in ResortLift : f \in all \/ f \in checks \/ f \in AnalyzerTables \/ f \in LiftOrigin
    BY ZenonT(60) DEF ResortLift, AnalyzerTables, LiftOrigin
  <2> HIDE DEF all, old, new, late, checks
  <2>7. QED
    BY <1>1, <1>2, <1>3, <2>1, <2>2, <2>3, <2>4, <2>5, <2>6
<1>8. QED
  BY <1>1, <1>3, <1>4, <1>5, <1>6, <1>7

LEMMA PointsDeclared ==
  \A f \in SessionPoint : f \in Clean[15] \/ f = <<"default", "session_points", "recorded_at">>
<1> DEFINE t == "session_points"
           left == {"elapsed_realtime_ns", "vertical_accuracy_m", "speed_accuracy_mps",
                    "bearing_accuracy_deg", "provider", "is_mocked"}
           first == Columns(t, {"id", "session_id", "t_offset_ms", "latitude", "longitude"},
                      {"created_at"}, {"accuracy_m", "altitude_m", "speed_mps", "heading_deg"})
           enriched == Columns(t, {}, {}, left)
           recorded == Columns(t, {"recorded_at"}, {}, {})
           pressure == Columns(t, {}, {}, {"pressure_hpa"})
           keys == Ref(t, "session_id", "ride_sessions", "CASCADE")
                     \cup PrimaryKey(t, {"id"})
                     \cup Indexes(t, {"ix_session_points_session_id",
                                      "ix_session_points_session_id_t_offset_ms"})
           all == Columns(t, {"id", "session_id", "t_offset_ms", "latitude", "longitude"},
          {"recorded_at", "created_at"},
          {"accuracy_m", "elapsed_realtime_ns", "altitude_m", "vertical_accuracy_m",
           "speed_mps", "speed_accuracy_mps", "heading_deg", "bearing_accuracy_deg",
           "pressure_hpa", "provider", "is_mocked"})
<1>1. \A f \in all : f \in first \cup enriched \cup recorded \cup pressure
                     \/ f = <<"default", "session_points", "recorded_at">>
  BY DEF Columns
<1>2. \A f \in SessionPoint : f \in all \/ f \in keys \/ f \in PointOffsetKey
                              \/ f \in EnumColumn(t, "provider", "provider_type")
  BY ZenonT(60) DEF SessionPoint, PointOffsetKey
<1>3. first \cup keys \subseteq Clean[15]
  <2>1. first \cup keys \subseteq Made(3)
    <3>1. Made(3) = Up0003.add
      BY DEF Made, Upgrade
    <3>2. first \cup keys \subseteq Up0003.add
      BY DEF Up0003, Adds, Step
    <3>3. QED
      BY <3>1, <3>2
  <2>2. ASSUME NEW f \in first \cup keys
        PROVE  Kept(f)
    <3>1. f[2] = t
      BY DEF Columns, Ref, PrimaryKey, Indexes
    <3>2. f[3] \in {"id", "session_id", "t_offset_ms", "latitude", "longitude", "created_at",
                    "accuracy_m", "altitude_m", "speed_mps", "heading_deg",
                    "ix_session_points_session_id", "ix_session_points_session_id_t_offset_ms"}
      BY DEF Columns, Ref, PrimaryKey, Indexes
    <3>3. QED
      BY <3>1, <3>2 DEF Kept, KeptBy0011, Derived
  <2>3. QED
    BY <2>1, <2>2, KeptToTheHead
<1>4. enriched \subseteq Clean[15]
  <2>1. enriched \subseteq Made(5)
    BY DEF Made, Columns, Enriched
  <2>2. \A f \in enriched : f[2] = t /\ f[3] \in left
    BY ColumnsAreHeaded
  <2>3. \A f \in enriched : Kept(f)
    BY <2>2 DEF Kept, KeptBy0011, Derived
  <2>4. QED
    BY <2>1, <2>3, KeptToTheHead
<1>5. recorded \subseteq Clean[15]
  <2>1. recorded \subseteq Made(7)
    BY DEF Made, Columns
  <2>2. \A f \in recorded : f[2] = t /\ f[3] = "recorded_at"
    BY DEF Columns
  <2>3. \A f \in recorded : Kept(f)
    BY <2>2 DEF Kept, KeptBy0011, Derived
  <2>4. QED
    BY <2>1, <2>3, KeptToTheHead
<1>6. pressure \subseteq Clean[15]
  <2>1. pressure \subseteq Made(13)
    BY DEF Made, Upgrade, Up0014, Adds, Step
  <2>2. QED
    BY <2>1, LateMadeIsThere
<1>7. PointOffsetKey \subseteq Clean[15]
  <2>1. PointOffsetKey \subseteq Made(4)
    BY DEF Made, Upgrade, Up0004, Adds, Step
  <2>2. \A f \in PointOffsetKey : f[2] = t /\ f[3] = "uq_session_points_session_id_t_offset_ms"
    BY DEF PointOffsetKey, Uniques
  <2>3. \A f \in PointOffsetKey : Kept(f)
    BY <2>2 DEF Kept, KeptBy0011, Derived
  <2>4. QED
    BY <2>1, <2>3, KeptToTheHead
<1>8. EnumColumn(t, "provider", "provider_type") \subseteq Clean[15]
  <2> DEFINE e == <<"provider", "provider_type">>
  <2>1. e \in PointEnums
    BY DEF PointEnums
  <2>2. EnumColumn(t, "provider", "provider_type") \subseteq PointEnumFacts
    BY <2>1 DEF PointEnumFacts
  <2>3. PointEnumFacts \subseteq Made(8)
    BY DEF Made, Upgrade, Up0009, Adds, Step
  <2>4. \A f \in EnumColumn(t, "provider", "provider_type") : Kept(f)
    BY DEF EnumColumn, Kept, KeptBy0011, Derived
  <2>5. QED
    BY <2>2, <2>3, <2>4, KeptToTheHead
<1> HIDE DEF first, enriched, recorded, pressure, keys, all
<1>9. QED
  BY <1>1, <1>2, <1>3, <1>4, <1>5, <1>6, <1>7, <1>8

LEMMA ResortsDeclared == Resort \subseteq Clean[15]
<1> DEFINE t == "resorts"
           first == Columns(t, {"id", "name", "country", "region"}, {"created_at"},
               {"city", "latitude", "longitude", "elevation_base_m", "elevation_top_m"})
           active == Columns(t, {}, {"is_active"}, {})
           key == PrimaryKey(t, {"id"})
           names == Indexes(t, {"ix_resorts_name", "ix_resorts_region"})
           activeIndex == Indexes(t, {"ix_resorts_is_active"})
           all == Columns(t, {"id", "name", "country", "region"},
          {"name_aliases", "field_provenance", "is_active", "created_at"},
          {"city", "latitude", "longitude", "elevation_base_m", "elevation_top_m",
           "boundary", "bbox_min_lat", "bbox_min_lon", "bbox_max_lat", "bbox_max_lon",
           "country_code", "region_code", "last_merged_at"})
           indexes == Indexes(t, {"ix_resorts_name", "ix_resorts_region", "ix_resorts_is_active"})
<1>1. all \subseteq first \cup active \cup CatalogColumns
  BY DEF Columns, CatalogColumns
<1>2. indexes \subseteq names \cup activeIndex
  BY DEF Indexes
<1>3. Resort = all \cup key \cup indexes
  BY DEF Resort
<1>4. first \cup key \cup names \subseteq Clean[15]
  <2>1. first \cup key \cup names \subseteq Made(2)
    BY DEF Made, Upgrade, Up0002, Adds, Step
  <2>2. ASSUME NEW f \in first \cup key \cup names
        PROVE  Kept(f)
    <3>1. f[2] = t
      BY DEF Columns, PrimaryKey, Indexes
    <3>2. f[3] \in {"id", "name", "country", "region", "created_at", "city", "latitude", "longitude",
                    "elevation_base_m", "elevation_top_m", "ix_resorts_name", "ix_resorts_region"}
      BY DEF Columns, PrimaryKey, Indexes
    <3>3. QED
      BY <3>1, <3>2 DEF Kept, KeptBy0011, ResortIdentity
  <2>3. QED
    BY <2>1, <2>2, KeptToTheHead
<1>5. active \cup activeIndex \subseteq Clean[15]
  <2>1. active \subseteq Columns(t, {}, {"is_active"}, ResortIdentity)
    BY DEF Columns
  <2>2. active \cup activeIndex \subseteq Made(6)
    BY <2>1 DEF Made, Upgrade, Up0007, Adds, Step
  <2>3. \A f \in active \cup activeIndex : f[2] = t /\ f[3] \in {"is_active", "ix_resorts_is_active"}
    BY DEF Columns, Indexes
  <2>4. \A f \in active \cup activeIndex : Kept(f)
    BY <2>3 DEF Kept, KeptBy0011, ResortIdentity
  <2>5. QED
    BY <2>2, <2>4, KeptToTheHead
<1>6. CatalogColumns \subseteq Clean[15]
  <2>1. CatalogColumns \subseteq Made(15)
    BY DEF Made, Upgrade, Up0016, Step
  <2>2. QED
    BY <2>1, LateMadeIsThere
<1> HIDE DEF first, active, key, names, activeIndex, all, indexes
<1>7. QED
  BY <1>1, <1>2, <1>3, <1>4, <1>5, <1>6

LEMMA RidesDeclared == RideSession \subseteq Clean[15]
<1> DEFINE t == "ride_sessions"
           first == Columns(t, {"id", "user_id"}, {"started_at", "status", "created_at"},
                            {"resort_id", "ended_at", "max_speed_mps"})
           keys == EnumColumn(t, "status", "ride_session_status")
                     \cup Ref(t, "resort_id", "resorts", "SET NULL")
                     \cup Ref(t, "user_id", "users", "CASCADE")
                     \cup PrimaryKey(t, {"id"})
                     \cup Indexes(t, {"ix_ride_sessions_user_id", "ix_ride_sessions_resort_id",
                                      "ix_ride_sessions_user_id_started_at"})
           analyzed == Columns(t, Summary, {"source", "sport"}, RideExtras)
           breaks == Columns(t, {}, {"break_count", "break_duration_s"}, {})
           all == Columns(t, {"id", "user_id"},
          {"started_at", "source", "sport", "descent_distance_m", "descent_duration_s",
           "descent_vertical_m", "lift_distance_m", "lift_duration_s", "lift_vertical_m",
           "avg_descent_speed_mps", "total_duration_s", "break_count", "break_duration_s",
           "status", "created_at"},
          {"resort_id", "ended_at", "max_speed_mps", "external_identifier", "conditions",
           "altitude_offset_m", "peak_altitude_m", "center_lat", "center_long",
           "processed_by_version", "processed_at"})
<1>1. all \subseteq first \cup analyzed \cup SummaryDefaults \cup breaks
  BY DEF Columns, Summary, RideExtras, SummaryDefaults
<1>2. \A f \in RideSession : f \in all \/ f \in keys \/ f \in AnalyzerColumns
  BY ZenonT(60) DEF RideSession, AnalyzerColumns
<1>3. first \cup keys \subseteq Clean[15]
  <2>0. \A g \in first : g[3] \in {"id", "user_id", "started_at", "status", "created_at", "resort_id",
                                  "ended_at", "max_speed_mps"}
    BY DEF Columns
  <2>1. first \subseteq Columns(t, {"id", "user_id"}, {"started_at", "status", "created_at"},
                                {"resort_id", "ended_at", "max_speed_mps"} \cup OldRideTotals)
    BY DEF Columns
  <2>2. first \cup keys \subseteq Made(3)
    <3>1. Made(3) = Up0003.add
      BY DEF Made, Upgrade
    <3>2. keys \subseteq Up0003.add
      BY DEF Up0003, Adds, Step
    <3>3. first \subseteq Up0003.add
      BY <2>1 DEF Up0003, Adds, Step
    <3>4. QED
      BY <3>1, <3>2, <3>3
  <2>3. ASSUME NEW f \in first \cup keys
        PROVE  Kept(f)
    <3>1. f[2] = t
      <4>1. MadeFor(t, f)
        BY DEF MadeFor
      <4>2. QED
        BY <4>1, FactsHaveATable
    <3>2. f[3] \in {"id", "user_id", "started_at", "status", "created_at", "resort_id", "ended_at",
                    "max_speed_mps", "ix_ride_sessions_user_id", "ix_ride_sessions_resort_id",
                    "ix_ride_sessions_user_id_started_at"}
      <4>1. f \in first => f[3] \in {"id", "user_id", "started_at", "status", "created_at", "resort_id",
                                     "ended_at", "max_speed_mps"}
        BY <2>0
      <4>2. f \in keys => f[3] \in {"id", "user_id", "status", "resort_id", "ix_ride_sessions_user_id",
                                    "ix_ride_sessions_resort_id", "ix_ride_sessions_user_id_started_at"}
        BY FactsHaveAName
      <4>3. QED
        BY <4>1, <4>2
    <3>3. QED
      BY <3>1, <3>2 DEF Kept, KeptBy0011, OldRideTotals
  <2> HIDE DEF first, keys
  <2>4. QED
    BY <2>2, <2>3, KeptToTheHead
<1>4. AnalyzerColumns \cup analyzed \subseteq Clean[15]
  <2>1. AnalyzerColumns \subseteq Made(10)
    BY DEF Made, Upgrade, Up0011, Step
  <2>2. analyzed \subseteq AnalyzerColumns
    BY DEF AnalyzerColumns
  <2>3. QED
    BY <2>1, <2>2, LateMadeIsThere
<1>5. SummaryDefaults \cup breaks \subseteq Clean[15]
  <2>1. SummaryDefaults \subseteq Made(11)
    BY DEF Made, Upgrade, Up0012, Adds, Step
  <2>2. breaks \subseteq Made(14)
    BY DEF Made, Upgrade, Up0015, Adds, Step
  <2>3. QED
    BY <2>1, <2>2, LateMadeIsThere
<1> HIDE DEF first, keys, analyzed, breaks, all
<1>6. QED
  BY <1>1, <1>2, <1>3, <1>4, <1>5

LEMMA TypesDeclared ==
  ASSUME NEW f \in ModelTables, f[1] = "uses"
  PROVE  <<"enum", f[4]>> \in Clean[15]
<1>1. ASSUME NEW t
      PROVE  /\ \A r, w, o : f \notin Columns(t, r, w, o)
             /\ \A cs : f \notin PrimaryKey(t, cs)
             /\ \A c, u, a : f \notin Ref(t, c, u, a)
             /\ \A names : f \notin Uniques(t, names) /\ f \notin Checks(t, names) /\ f \notin Indexes(t, names)
             /\ \A c, e : f \in EnumColumn(t, c, e) => f[4] = e
  BY DEF Columns, PrimaryKey, Ref, Uniques, Checks, Indexes, EnumColumn
<1>2. f[4] \in {"ride_session_status", "session_conditions", "provider_type"}
  <2>1. f \in RideSession => f[4] \in {"ride_session_status", "session_conditions"}
    BY <1>1 DEF RideSession
  <2>2. f \in SessionPoint => f[4] = "provider_type"
    BY <1>1 DEF SessionPoint
  <2>3. f \notin User \cup Resort \cup FavoriteResort \cup WeatherCache \cup RefreshToken
    BY <1>1 DEF User, Resort, FavoriteResort, WeatherCache, RefreshToken
  <2>4. f \notin RideSessionAction \cup RideSessionOverride \cup ResortLift
    BY <1>1 DEF RideSessionAction, RideSessionOverride, ResortLift
  <2>5. f \notin ResortSourceRecord \cup ResortFieldOverride
    BY <1>1 DEF ResortSourceRecord, ResortFieldOverride
  <2>6. QED
    BY <2>1, <2>2, <2>3, <2>4, <2>5 DEF ModelTables
<1>3. <<"enum", "ride_session_status">> \in Clean[15]
  <2>1. <<"enum", "ride_session_status">> \in Made(3)
    <3>1. Made(3) = Up0003.add
      BY DEF Made, Upgrade
    <3>2. <<"enum", "ride_session_status">> \in Up0003.add
      BY DEF Up0003, Adds, Step
    <3>3. QED
      BY <3>1, <3>2
  <2>2. Kept(<<"enum", "ride_session_status">>)
    BY DEF Kept, KeptBy0011
  <2>3. QED
    BY <2>1, <2>2, KeptToTheHead
<1>4. <<"enum", "session_conditions">> \in Clean[15]
  <2>1. <<"enum", "session_conditions">> \in Made(10)
    BY DEF Made, Upgrade, Up0011, Step
  <2>2. QED
    BY <2>1, LateMadeIsThere
<1>5. <<"enum", "provider_type">> \in Clean[15]
  <2>1. <<"provider", "provider_type">> \in PointEnums
    BY DEF PointEnums
  <2>2. <<"enum", "provider_type">> \in PointEnumFacts
    BY <2>1 DEF PointEnumFacts
  <2>3. <<"enum", "provider_type">> \in Made(8)
    BY <2>2 DEF Made, Upgrade, Up0009, Adds, Step
  <2>4. Kept(<<"enum", "provider_type">>)
    BY DEF Kept, KeptBy0011
  <2>5. QED
    BY <2>3, <2>4, KeptToTheHead
<1>6. QED
  BY <1>2, <1>3, <1>4, <1>5

(* The upgrades alone lead to what the models declare, but for KnownDrift.   *)
LEMMA TheChainLeadsToTheModels == Clean[15] \cup KnownDrift = Models \cup KnownDrift
<1>1. ASSUME NEW f \in Clean[15]
      PROVE  f \in Models \cup KnownDrift
  <2>1. PICK n \in 1..15 : f \in Made(n)
    BY SomebodyMadeIt
  <2>2. Kept(f)
    BY TheHeadIsKept
  <2>3. QED
    BY <2>1, <2>2, EarlyIsDeclared, LateIsDeclared
<1>2. ASSUME NEW f \in ModelTables
      PROVE  f \in Clean[15] \cup KnownDrift
  <2>1. f \in SessionPoint => f \in Clean[15] \cup KnownDrift
    BY PointsDeclared DEF KnownDrift
  <2>2. f \in User \cup FavoriteResort \cup WeatherCache \cup RefreshToken => f \in Clean[15]
    BY DeclaredAtOnce
  <2>3. f \in RideSessionAction \cup RideSessionOverride \cup ResortLift \cup ResortSourceRecord
                \cup ResortFieldOverride => f \in Clean[15]
    BY DeclaredLate
  <2>4. f \in Resort \cup RideSession => f \in Clean[15]
    BY ResortsDeclared, RidesDeclared
  <2>5. QED
    BY <2>1, <2>2, <2>3, <2>4 DEF ModelTables
<1>3. ASSUME NEW f \in Models
      PROVE  f \in Clean[15] \cup KnownDrift
  BY <1>2, TypesDeclared DEF Models
<1>4. QED
  BY <1>1, <1>3

(* Whatever commands led to the head revision, refused ones among them, the  *)
(* database has the tables, columns, constraints and types that the models   *)
(* of the application declare.                                              *)
THEOREM HeadSchemaHolds == Spec => []HeadSchemaIsTheModels
<1>1. ChainInv => HeadSchemaIsTheModels
  <2> SUFFICES ASSUME ChainInv, rev = 15
               PROVE  db \cup KnownDrift = Models \cup KnownDrift
    BY DEF HeadSchemaIsTheModels
  <2>1. \A f \in NotRestored : f \notin Clean[15]
    <3>1. \A f \in NotRestored : f[2] = "session_points" /\ f[3] = "accepted_for_analytics"
      BY DEF NotRestored
    <3>2. \A f \in NotRestored : ~ Kept(f)
      BY <3>1 DEF Kept, KeptBy0011
    <3>3. QED
      BY <3>2, TheHeadIsKept
  <2>2. db = Clean[15]
    BY <2>1 DEF ChainInv, Follows, Alike
  <2>3. QED
    BY <2>2, TheChainLeadsToTheModels
<1>2. QED
  BY <1>1, ChainInvHolds, PTL

-------------------------------------------------------------------------------
(* What PostgreSQL refuses. *)

LEMMA FollowersHave ==
  ASSUME NEW n \in 0..HeadRev, NEW d, Follows(d, n), NEW f, Kept(f)
  PROVE  f \in d <=> f \in Clean[n]
<1>1. f \notin NotRestored
  <2>1. \A g \in NotRestored : g[2] = "session_points" /\ g[3] = "accepted_for_analytics"
    BY DEF NotRestored
  <2>2. QED
    BY <2>1 DEF Kept, KeptBy0011
<1>2. QED
  BY <1>1 DEF Follows, Alike

(* A drop finds what it drops.                                               *)
LEMMA DropsAreWithin ==
  ASSUME NEW d
  PROVE  /\ \A t : FactsOfTable(d, t) \subseteq d
         /\ \A ts : DropsTables(d, ts).drop \subseteq d
         /\ \A t, cs : DropsColumns(d, t, cs).drop \subseteq d
BY DEF FactsOfTable, FactsOfColumn, DropsTables, DropsColumns, Step

LEMMA UpgradesFind ==
  ASSUME NEW n \in 1..HeadRev, NEW m, m = n - 1, NEW d, Follows(d, m)
  PROVE  Upgrade(n, d).drop \subseteq d
<1>1. CASE n \notin {10, 15}
  BY <1>1, UpgradesThatDrop
<1>2. CASE n = 10
  <2>1. {<<"enum", "motion_state">>, <<"enum", "quality_class">>} \subseteq d
    <3>1. \A e \in PointEnums : <<"enum", e[2]>> \in PointEnumFacts
      BY DEF PointEnumFacts
    <3>2. <<"motion_state", "motion_state">> \in PointEnums /\ <<"quality_class", "quality_class">> \in PointEnums
      BY DEF PointEnums
    <3>3. {<<"enum", "motion_state">>, <<"enum", "quality_class">>} \subseteq Made(8)
      BY <3>1, <3>2 DEF Made, Upgrade, Up0009, Adds, Step
    <3>4. {<<"enum", "motion_state">>, <<"enum", "quality_class">>} \subseteq Clean[9]
      BY <3>3, KeptStays
    <3>5. Alike(d, Clean[9])
      BY <1>2 DEF Follows
    <3>6. \A f \in {<<"enum", "motion_state">>, <<"enum", "quality_class">>} : f \notin NotRestored
      BY DEF NotRestored
    <3>7. QED
      BY <3>4, <3>5, <3>6 DEF Alike
  <2>2. Up0011(d).drop \subseteq d
    BY <2>1, DropsAreWithin DEF Up0011, Step
  <2>3. QED
    BY <1>2, <2>2 DEF Upgrade
<1>3. CASE n = 15
  <2>1. ResortNameKey \subseteq Made(2)
    BY DEF ResortNameKey, Made, Upgrade, Up0002, Adds, Step
  <2>2. ResortIdentityKey \subseteq Made(6)
    BY DEF Made, Upgrade, Up0007, Adds, Step
  <2>3. \A f \in ResortIdentityKey \cup ResortNameKey : f[2] = "resorts"
    BY DEF ResortIdentityKey, ResortNameKey, Uniques
  <2>4. \A f \in ResortIdentityKey \cup ResortNameKey : KeptBy0011(f) /\ f \notin NotRestored
    BY <2>3 DEF KeptBy0011, NotRestored
  <2>5. ResortIdentityKey \cup ResortNameKey \subseteq Clean[14]
    BY <2>1, <2>2, <2>4, KeptStays
  <2>6. Alike(d, Clean[14])
    BY <1>3 DEF Follows
  <2>7. ResortIdentityKey \cup ResortNameKey \subseteq d
    BY <2>4, <2>5, <2>6 DEF Alike
  <2>8. QED
    BY <1>3, <2>7, DropsAreWithin DEF Upgrade, Up0016, Step
<1>4. QED
  BY <1>1, <1>2, <1>3

LEMMA LateFactsAreThere ==
  ASSUME NEW n \in 10..15, NEW d, Follows(d, n)
  PROVE  Made(n) \subseteq d
BY MadeIsThere, LateFactsAreKept, FollowersHave

LEMMA DowngradesFind ==
  ASSUME NEW n \in 1..HeadRev, NEW d, Follows(d, n)
  PROVE  Downgrade(n, d).drop \subseteq d
<1>1. CASE n \in {1, 2, 5, 7, 9, 12, 13}
  <2>1. Down0006(d).drop \subseteq d /\ Down0008(d).drop \subseteq d
    BY DropsAreWithin DEF Down0006, Down0008
  <2>2. CASE n \in {5, 7}
    BY <2>1, <2>2 DEF Downgrade
  <2>3. CASE n \in {1, 2, 9, 12, 13}
    <3>1. \/ \E ts : Downgrade(n, d) = DropsTables(d, ts)
          \/ \E t, cs : Downgrade(n, d) = DropsColumns(d, t, cs)
      BY <2>3 DEF Downgrade
    <3>2. QED
      BY <3>1, DropsAreWithin
  <2>4. QED
    BY <1>1, <2>2, <2>3
<1>2. CASE n = 3
  <2>1. <<"enum", "ride_session_status">> \in Made(3)
    <3>1. Made(3) = Up0003.add
      BY DEF Made, Upgrade
    <3>2. <<"enum", "ride_session_status">> \in Up0003.add
      BY DEF Up0003, Adds, Step
    <3>3. QED
      BY <3>1, <3>2
  <2>2. Kept(<<"enum", "ride_session_status">>)
    BY DEF Kept, KeptBy0011
  <2>3. <<"enum", "ride_session_status">> \in d
    BY <1>2, <2>1, <2>2, MadeIsThere, FollowersHave
  <2>4. Down0003(d).drop \subseteq d
    BY <2>3, DropsAreWithin DEF Down0003, Step
  <2>5. QED
    BY <1>2, <2>4 DEF Downgrade
<1>3. CASE n = 4
  <2>1. PointOffsetKey \subseteq Made(4)
    BY DEF Made, Upgrade, Up0004, Adds, Step
  <2>2. \A f \in PointOffsetKey : Kept(f)
    BY DEF PointOffsetKey, Uniques, Kept, KeptBy0011, Derived
  <2>3. PointOffsetKey \subseteq d
    BY <1>3, <2>1, <2>2, MadeIsThere, FollowersHave
  <2>4. QED
    BY <1>3, <2>3, DropsAreWithin DEF Downgrade, Down0004, Step
<1>4. CASE n = 6
  <2> DEFINE keys == ResortIdentityKey \cup Indexes("resorts", {"ix_resorts_is_active"})
  <2>1. keys \subseteq Made(6)
    BY DEF Made, Upgrade, Up0007, Adds, Step
  <2>2. \A f \in keys : f[2] = "resorts"
    BY DEF ResortIdentityKey, Uniques, Indexes
  <2>3. \A f \in keys : f \notin NotRestored
    BY <2>2 DEF NotRestored
  <2>4. keys \subseteq d
    BY <1>4, <2>1, <2>3, MadeIsThere DEF Follows, Alike
  <2>5. Down0007(d).drop = DropsColumns(d, "resorts", ResortIdentity \cup {"is_active"}).drop \cup keys
    BY DEF Down0007, DropsColumns, Step
  <2> HIDE DEF keys
  <2>6. QED
    BY <1>4, <2>4, <2>5, DropsAreWithin DEF Downgrade
<1>5. CASE n = 8
  BY <1>5 DEF Downgrade, Down0009, Step
<1>6. CASE n = 10
  <2>1. Uniques("ride_sessions", {"ix_ride_sessions_external_identifier_unique"})
          \cup Checks("ride_sessions", {"ck_ride_sessions_source", "ck_ride_sessions_sport"})
          \cup {<<"enum", "session_conditions">>} \subseteq Made(10)
    BY DEF Made, Upgrade, Up0011, AnalyzerColumns, Step
  <2>2. Made(10) \subseteq d
    BY <1>6, LateFactsAreThere
  <2>3. Down0011(d).drop \subseteq d
    BY <2>1, <2>2, DropsAreWithin DEF Down0011, Step
  <2>4. QED
    BY <1>6, <2>3 DEF Downgrade
<1>7. CASE n = 11
  <2>1. Made(11) = SummaryDefaults
    BY DEF Made, Upgrade, Up0012, Adds, Step
  <2>2. QED
    BY <1>7, <2>1, LateFactsAreThere DEF Downgrade, Down0012, Step
<1>8. CASE n = 14
  BY <1>8, DropsAreWithin DEF Downgrade, Down0015, Step
<1>9. CASE n = 15
  <2>1. Made(15) = CatalogTables \cup CatalogColumns \cup LiftOrigin
    BY DEF Made, Upgrade, Up0016, Step
  <2>2. QED
    BY <1>9, <2>1, LateFactsAreThere DEF Downgrade, Down0016, Step
<1>10. QED
  BY <1>1, <1>2, <1>3, <1>4, <1>5, <1>6, <1>7, <1>8, <1>9

(* And what is added was not there.                                          *)
LEMMA UpgradesAddNew ==
  ASSUME NEW n \in 1..HeadRev, NEW m, m = n - 1, NEW d, Follows(d, m)
  PROVE  Upgrade(n, d).add \cap (d \ Upgrade(n, d).drop) = {}
<1> SUFFICES ASSUME NEW f \in Upgrade(n, d).add, f \in d PROVE FALSE
  OBVIOUS
<1>1. CASE f \in NotRestored
  <2>1. f[2] = "session_points" /\ f[3] = "accepted_for_analytics"
    BY <1>1 DEF NotRestored
  <2>2. f \in Made(n)
    BY UpgradesMake
  <2>3. n = 7
    BY <1>1, <2>1, <2>2, PointNames DEF Enriched, Derived, NotRestored
  <2>4. QED
    BY <1>1, <2>3 DEF Follows
<1>2. CASE f \notin NotRestored
  <2>1. f \in Clean[m]
    BY <1>2 DEF Follows, Alike
  <2>2. f \in Upgrade(n, Clean[m]).add
    BY <1>2, UpgradesAlike DEF Follows, StepsAlike, Alike
  <2>3. QED
    BY <2>1, <2>2, EachIsUndone DEF Fresh
<1>3. QED
  BY <1>1, <1>2

LEMMA DowngradesAddNew ==
  ASSUME NEW n \in 1..HeadRev, NEW d, Follows(d, n)
  PROVE  Downgrade(n, d).add \cap (d \ Downgrade(n, d).drop) = {}
<1>1. CASE n \notin {10, 15}
  BY <1>1, DowngradesThatAdd
<1>2. CASE n = 10
  <2> DEFINE back == {<<"enum", "motion_state">>, <<"enum", "quality_class">>} \cup PointAnalytics
                       \cup Columns("session_points", {}, {}, Derived \cup {"accepted_for_analytics"})
                       \cup EnumColumn("session_points", "quality_class", "quality_class")
                       \cup EnumColumn("session_points", "motion_state", "motion_state")
                       \cup Columns("ride_sessions", {}, {}, OldRideTotals)
  <2>1. Downgrade(10, d).add = back
    <3>1. Downgrade(10, d) = Down0011(d)
      BY DEF Downgrade
    <3>2. Down0011(d).add = back
      BY DEF Down0011, Step
    <3>3. QED
      BY <3>1, <3>2
  <2>2. ASSUME NEW f \in back
        PROVE  ~ KeptBy0011(f)
    <3>1. f \in PointAnalytics => MadeFor("session_point_analytics", f)
      BY DEF PointAnalytics, MadeFor
    <3>2. f \in PointAnalytics => f[2] = "session_point_analytics"
      BY <3>1, FactsHaveATable
    <3>3. f \in Columns("session_points", {}, {}, Derived \cup {"accepted_for_analytics"}) =>
            f[2] = "session_points" /\ f[3] \in Derived \cup {"accepted_for_analytics"}
      BY ColumnsAreHeaded
    <3>4. f \in Columns("ride_sessions", {}, {}, OldRideTotals) => f[2] = "ride_sessions" /\ f[3] \in OldRideTotals
      BY ColumnsAreHeaded
    <3>5. f \in EnumColumn("session_points", "quality_class", "quality_class")
             \cup EnumColumn("session_points", "motion_state", "motion_state") =>
            f[2] = "session_points" /\ f[3] \in Derived
      BY DEF EnumColumn, Derived
    <3>6. f \in {<<"enum", "motion_state">>, <<"enum", "quality_class">>} => f[2] \in {"motion_state", "quality_class"}
      OBVIOUS
    <3>7. QED
      BY <3>2, <3>3, <3>4, <3>5, <3>6 DEF KeptBy0011
  <2> HIDE DEF back
  <2>3. ASSUME NEW f \in back, f \in d
        PROVE  FALSE
    <3>1. f \notin Clean[10]
      BY <2>2, AfterTheDrop
    <3>2. f \notin NotRestored
      BY <1>2, <2>3 DEF Follows
    <3>3. QED
      BY <1>2, <2>3, <3>1, <3>2 DEF Follows, Alike
  <2> HIDE DEF back
  <2>4. QED
    BY <1>2, <2>1, <2>3
<1>3. CASE n = 15
  <2> DEFINE back == Columns("resorts", {}, {}, ResortIdentity) \cup ResortIdentityKey \cup ResortNameKey
  <2>1. Downgrade(15, d).add = back
    BY DEF Downgrade, Down0016, Step
  <2>2. ASSUME NEW f \in back
        PROVE  ~ Kept(f) /\ f[2] = "resorts"
    <3>1. f \in Columns("resorts", {}, {}, ResortIdentity) => f[2] = "resorts" /\ f[3] \in ResortIdentity
      BY ColumnsAreHeaded
    <3>2. f \in ResortIdentityKey \cup ResortNameKey =>
            f[2] = "resorts" /\ f[3] \in {"uq_resorts_external_source_external_id", "uq_resorts_name_country_region"}
      BY DEF ResortIdentityKey, ResortNameKey, Uniques
    <3>3. QED
      BY <3>1, <3>2 DEF Kept
  <2>3. ASSUME NEW f \in back, f \in d
        PROVE  FALSE
    <3>1. f \notin Clean[15]
      BY <2>2, TheHeadIsKept
    <3>2. f \notin NotRestored
      BY <2>2 DEF NotRestored
    <3>3. QED
      BY <1>3, <2>3, <3>1, <3>2 DEF Follows, Alike
  <2> HIDE DEF back
  <2>4. QED
    BY <1>3, <2>1, <2>3
<1>4. QED
  BY <1>1, <1>2, <1>3

(* The tables there are at a place in the chain and after it.                *)
BornAt(t) ==
  CASE t = "users" -> 1
    [] t \in {"resorts", "favorite_resorts"} -> 2
    [] t \in {"ride_sessions", "session_points"} -> 3
    [] t = "weather_cache" -> 4
    [] t \in {"ride_session_actions", "ride_session_overrides", "resort_lifts"} -> 10
    [] t = "refresh_tokens" -> 12
    [] t \in {"resort_source_records", "resort_field_overrides"} -> 15
Lasting == {"users", "resorts", "favorite_resorts", "ride_sessions", "session_points", "weather_cache",
            "ride_session_actions", "ride_session_overrides", "resort_lifts", "refresh_tokens",
            "resort_source_records", "resort_field_overrides"}
Standing(k) == {t \in Lasting : BornAt(t) <= k}

(* A fact of a revision has what it needs: its column is of an earlier       *)
(* revision or its own, the table it references stands, the type it uses     *)
(* exists for as long as the fact does.                                     *)
Constrained == {"notnull", "default", "pk", "fk", "uses"}
TypeFor(f, k) ==
  \/ f[4] = "ride_session_status" /\ k >= 3
  \/ f[4] = "provider_type" /\ k >= 8
  \/ f[4] = "session_conditions" /\ k >= 10
  \/ f[4] \in {"motion_state", "quality_class"} /\ k \in {8, 9} /\ ~ KeptBy0011(f)
Supported(f, k) ==
  /\ f[1] \in Constrained => \E j \in 1..k : <<"col", f[2], f[3]>> \in Made(j)
  /\ f[1] = "fk" => f[4] \in Standing(k)
  /\ f[1] = "uses" => TypeFor(f, k)
  /\ f[1] \in {"unique", "index", "check"} => f[2] # "session_point_analytics"

LEMMA ColumnsSupport ==
  ASSUME NEW k \in 1..HeadRev, NEW t, NEW r, NEW w, NEW o, Columns(t, r, w, o) \subseteq Made(k)
  PROVE  /\ \A f \in Columns(t, r, w, o) : Supported(f, k)
         /\ \A cs : cs \subseteq r \cup w \cup o => \A f \in PrimaryKey(t, cs) : Supported(f, k)
<1>1. \A c \in r \cup w \cup o : <<"col", t, c>> \in Made(k)
  BY DEF Columns
<1>2. ASSUME NEW f \in Columns(t, r, w, o)
      PROVE  Supported(f, k)
  <2>1. f[1] \in {"col", "notnull", "default"} /\ f[2] = t /\ f[3] \in r \cup w \cup o
    BY DEF Columns
  <2>2. QED
    BY <1>1, <2>1 DEF Supported
<1>3. ASSUME NEW cs, cs \subseteq r \cup w \cup o, NEW f \in PrimaryKey(t, cs)
      PROVE  Supported(f, k)
  <2>1. f[1] = "pk" /\ f[2] = t /\ f[3] \in r \cup w \cup o
    BY <1>3 DEF PrimaryKey
  <2>2. QED
    BY <1>1, <2>1 DEF Supported
<1>4. QED
  BY <1>2, <1>3

LEMMA ARefSupports ==
  ASSUME NEW k \in 1..HeadRev, NEW t, NEW c, NEW u \in Standing(k), NEW a, <<"col", t, c>> \in Made(k)
  PROVE  \A f \in Ref(t, c, u, a) : Supported(f, k)
<1> SUFFICES ASSUME NEW f \in Ref(t, c, u, a) PROVE Supported(f, k)
  OBVIOUS
<1>1. f[1] = "fk" /\ f[2] = t /\ f[3] = c /\ f[4] = u
  BY DEF Ref
<1>2. QED
  BY <1>1 DEF Supported

LEMMA ATypeSupports ==
  ASSUME NEW k \in 1..HeadRev, NEW t, NEW c, NEW e, TypeFor(<<"uses", t, c, e>>, k), <<"col", t, c>> \in Made(k)
  PROVE  \A f \in EnumColumn(t, c, e) : Supported(f, k)
<1> SUFFICES ASSUME NEW f \in EnumColumn(t, c, e) PROVE Supported(f, k)
  OBVIOUS
<1>1. f = <<"uses", t, c, e>>
  BY DEF EnumColumn
<1>2. f[1] = "uses" /\ f[2] = t /\ f[3] = c
  BY <1>1
<1>3. QED
  BY <1>1, <1>2 DEF Supported

LEMMA NamesSupport ==
  ASSUME NEW k, NEW t, t # "session_point_analytics", NEW names,
         NEW f, f \in Uniques(t, names) \/ f \in Indexes(t, names) \/ f \in Checks(t, names)
  PROVE  Supported(f, k)
<1>1. f[1] \in {"unique", "index", "check"} /\ f[2] = t
  BY DEF Uniques, Indexes, Checks
<1>2. QED
  BY <1>1 DEF Supported, Constrained

LEMMA EarlyIsSupported ==
  ASSUME NEW k \in 1..9, NEW f \in Made(k)
  PROVE  Supported(f, k)
<1>1. CASE k = 1
  <2> DEFINE cols == Columns("users", {"id", "email", "password_hash", "display_name"}, {"created_at"}, {})
  <2>1. Made(1) = Up0001.add
    BY DEF Made, Upgrade
  <2>2. Up0001.add = cols \cup PrimaryKey("users", {"id"}) \cup Uniques("users", {"ix_users_email"})
    BY DEF Up0001, Adds, Step
  <2>3. \A g \in cols \cup PrimaryKey("users", {"id"}) : Supported(g, 1)
    BY <2>1, <2>2, ColumnsSupport
  <2> HIDE DEF cols
  <2>4. QED
    BY <1>1, <2>1, <2>2, <2>3, NamesSupport
<1>2. CASE k = 2
  <2> DEFINE cols == Columns("resorts", {"id", "name", "country", "region"}, {"created_at"},
               {"city", "latitude", "longitude", "elevation_base_m", "elevation_top_m"})
             fav == Columns("favorite_resorts", {"user_id", "resort_id"}, {"created_at"}, {})
             refs == Ref("favorite_resorts", "resort_id", "resorts", "CASCADE")
                       \cup Ref("favorite_resorts", "user_id", "users", "CASCADE")
             pks == PrimaryKey("favorite_resorts", {"user_id", "resort_id"})
  <2>1. Made(2) = Up0002.add
    BY DEF Made, Upgrade
  <2>2. Up0002.add = cols \cup PrimaryKey("resorts", {"id"})
                       \cup Uniques("resorts", {"uq_resorts_name_country_region"})
                       \cup Indexes("resorts", {"ix_resorts_name", "ix_resorts_region"})
                       \cup fav \cup refs \cup pks
                       \cup Indexes("favorite_resorts", {"ix_favorite_resorts_resort_id"})
    BY DEF Up0002, Adds, Step
  <2>3. \A g \in cols \cup PrimaryKey("resorts", {"id"}) : Supported(g, 2)
    BY <2>1, <2>2, ColumnsSupport
  <2>4. "users" \in Standing(2) /\ "resorts" \in Standing(2)
    BY DEF Standing, Lasting, BornAt
  <2>5. \A g \in fav \cup refs \cup pks : Supported(g, 2)
    <3>1. \A g \in fav \cup pks : Supported(g, 2)
      BY <2>1, <2>2, ColumnsSupport
    <3>2. <<"col", "favorite_resorts", "resort_id">> \in Made(2) /\ <<"col", "favorite_resorts", "user_id">> \in Made(2)
      BY <2>1, <2>2 DEF Columns
    <3>3. \A g \in refs : Supported(g, 2)
      BY <2>4, <3>2, ARefSupports
    <3>4. QED
      BY <3>1, <3>3
  <2> HIDE DEF cols, fav, refs, pks
  <2>6. QED
    BY <1>2, <2>1, <2>2, <2>3, <2>5, NamesSupport
<1>3. CASE k = 3
  <2> DEFINE cols == Columns("ride_sessions", {"id", "user_id"}, {"started_at", "status", "created_at"},
                         {"resort_id", "ended_at", "max_speed_mps"} \cup OldRideTotals)
             enums == EnumColumn("ride_sessions", "status", "ride_session_status")
             refs == Ref("ride_sessions", "resort_id", "resorts", "SET NULL")
                       \cup Ref("ride_sessions", "user_id", "users", "CASCADE")
             points == Columns("session_points",
                      {"id", "session_id", "t_offset_ms", "latitude", "longitude"},
                      {"created_at"}, {"accuracy_m", "altitude_m", "speed_mps", "heading_deg"})
             pref == Ref("session_points", "session_id", "ride_sessions", "CASCADE")
  <2>1. Made(3) = Up0003.add
    BY DEF Made, Upgrade
  <2>2. Up0003.add = {<<"enum", "ride_session_status">>} \cup cols \cup enums \cup refs
                       \cup PrimaryKey("ride_sessions", {"id"})
                       \cup Indexes("ride_sessions", {"ix_ride_sessions_user_id", "ix_ride_sessions_resort_id",
                                                      "ix_ride_sessions_user_id_started_at"})
                       \cup points \cup pref \cup PrimaryKey("session_points", {"id"})
                       \cup Indexes("session_points", {"ix_session_points_session_id",
                                                       "ix_session_points_session_id_t_offset_ms"})
    BY Zenon DEF Up0003, Adds, Step
  <2>3. {"users", "resorts", "ride_sessions"} \subseteq Standing(3)
    BY DEF Standing, Lasting, BornAt
  <2>4. TypeFor(<<"uses", "ride_sessions", "status", "ride_session_status">>, 3)
    BY DEF TypeFor
  <2>5. cols \subseteq Made(3) /\ points \subseteq Made(3)
    BY <2>1, <2>2
  <2>6. \A g \in cols \cup enums \cup refs \cup PrimaryKey("ride_sessions", {"id"}) : Supported(g, 3)
    <3>1. \A g \in cols \cup PrimaryKey("ride_sessions", {"id"}) : Supported(g, 3)
      BY <2>5, ColumnsSupport
    <3>2. \A g \in refs : Supported(g, 3)
      <4>0. <<"col", "ride_sessions", "resort_id">> \in Made(3) /\ <<"col", "ride_sessions", "user_id">> \in Made(3)
        BY <2>5 DEF Columns
      <4>1. \A g \in Ref("ride_sessions", "resort_id", "resorts", "SET NULL") : Supported(g, 3)
        <5>1. "resorts" \in Standing(3)
          BY <2>3
        <5>2. <<"col", "ride_sessions", "resort_id">> \in Made(3)
          BY <4>0
        <5>3. \A a : \A g \in Ref("ride_sessions", "resort_id", "resorts", a) : Supported(g, 3)
          BY <5>1, <5>2, ARefSupports
        <5>4. QED
          BY <5>3
      <4>2. \A g \in Ref("ride_sessions", "user_id", "users", "CASCADE") : Supported(g, 3)
        BY <2>3, <4>0, ARefSupports
      <4>3. QED
        BY <4>1, <4>2
    <3>3. \A g \in enums : Supported(g, 3)
      <4>1. <<"col", "ride_sessions", "status">> \in Made(3)
        BY <2>5 DEF Columns
      <4>2. QED
        BY <2>4, <4>1, ATypeSupports
    <3>4. QED
      BY <3>1, <3>2, <3>3
  <2>7. \A g \in points \cup pref \cup PrimaryKey("session_points", {"id"}) : Supported(g, 3)
    <3>1. \A g \in points \cup PrimaryKey("session_points", {"id"}) : Supported(g, 3)
      BY <2>5, ColumnsSupport
    <3>2. <<"col", "session_points", "session_id">> \in Made(3)
      BY <2>5 DEF Columns
    <3>3. \A g \in pref : Supported(g, 3)
      BY <2>3, <3>2, ARefSupports
    <3>4. QED
      BY <3>1, <3>3
  <2>8. Supported(<<"enum", "ride_session_status">>, 3)
    BY DEF Supported, Constrained
  <2> HIDE DEF cols, enums, refs, points, pref
  <2>9. QED
    BY <1>3, <2>1, <2>2, <2>6, <2>7, <2>8, NamesSupport
<1>4. CASE k = 4
  <2> DEFINE cols == Columns("weather_cache", {"id", "resort_id", "observed_at"}, {"fetched_at"},
               {"temp_c", "wind_kph", "snowfall_cm_24h", "conditions_text", "today_high_c",
                "today_low_c", "snowfall_next_24h_cm", "weather_code_text"})
             ref == Ref("weather_cache", "resort_id", "resorts", "CASCADE")
  <2>1. Made(4) = Up0004.add
    BY DEF Made, Upgrade
  <2>2. Up0004.add = cols \cup ref \cup PrimaryKey("weather_cache", {"id"})
                       \cup Uniques("weather_cache", {"uq_weather_cache_resort_id"})
                       \cup Indexes("weather_cache", {"ix_weather_cache_resort_id"})
                       \cup PointOffsetKey
    BY DEF Up0004, Adds, Step
  <2>3. "resorts" \in Standing(4)
    BY DEF Standing, Lasting, BornAt
  <2>4. \A g \in cols \cup ref \cup PrimaryKey("weather_cache", {"id"}) : Supported(g, 4)
    <3>1. \A g \in cols \cup PrimaryKey("weather_cache", {"id"}) : Supported(g, 4)
      BY <2>1, <2>2, ColumnsSupport
    <3>2. <<"col", "weather_cache", "resort_id">> \in Made(4)
      BY <2>1, <2>2 DEF Columns
    <3>3. \A g \in ref : Supported(g, 4)
      BY <2>3, <3>2, ARefSupports
    <3>4. QED
      BY <3>1, <3>3
  <2> HIDE DEF cols, ref
  <2>5. QED
    BY <1>4, <2>1, <2>2, <2>4, NamesSupport DEF PointOffsetKey
<1>5. CASE k = 5
  BY <1>5, ColumnsSupport DEF Made
<1>6. CASE k = 6
  <2> DEFINE cols == Columns("resorts", {}, {"is_active"}, ResortIdentity)
  <2>1. Made(6) = Up0007.add
    BY DEF Made, Upgrade
  <2>2. Up0007.add = cols \cup Indexes("resorts", {"ix_resorts_is_active"}) \cup ResortIdentityKey
    BY DEF Up0007, Adds, Step
  <2>3. \A g \in cols : Supported(g, 6)
    BY <2>1, <2>2, ColumnsSupport
  <2> HIDE DEF cols
  <2>4. QED
    BY <1>6, <2>1, <2>2, <2>3, NamesSupport DEF ResortIdentityKey
<1>7. CASE k = 7
  BY <1>7, ColumnsSupport DEF Made
<1>8. CASE k = 8
  <2>1. f \in PointEnumFacts
    BY <1>8 DEF Made, Upgrade, Up0009, Adds, Step
  <2>2. PICK e \in PointEnums : f = <<"enum", e[2]>> \/ f \in EnumColumn("session_points", e[1], e[2])
    BY <2>1 DEF PointEnumFacts
  <2>3. f = <<"enum", e[2]>> => Supported(f, 8)
    BY DEF Supported, Constrained
  <2>4. ASSUME f \in EnumColumn("session_points", e[1], e[2])
        PROVE  Supported(f, 8)
    <3>1. f = <<"uses", "session_points", e[1], e[2]>>
      BY <2>4 DEF EnumColumn
    <3>2. f[1] = "uses" /\ f[2] = "session_points" /\ f[3] = e[1] /\ f[4] = e[2]
      BY <3>1
    <3>3. e[1] \in Enriched /\ (e[2] = "provider_type" \/ (e[2] \in {"motion_state", "quality_class"} /\ e[1] \in Derived))
      BY <2>2 DEF PointEnums, Enriched, Derived
    <3>4. <<"col", f[2], f[3]>> \in Made(5)
      BY <3>2, <3>3 DEF Made, Columns
    <3>5. TypeFor(f, 8)
      BY <3>2, <3>3 DEF TypeFor, KeptBy0011
    <3>6. QED
      BY <3>2, <3>4, <3>5 DEF Supported
  <2>5. QED
    BY <1>8, <2>2, <2>3, <2>4
<1>9. CASE k = 9
  <2> DEFINE t == "session_point_analytics"
             cols == Columns(t, {"session_point_id"}, {"accepted_for_analytics"}, Derived)
             ref == Ref(t, "session_point_id", "session_points", "CASCADE")
             enums == EnumColumn(t, "quality_class", "quality_class") \cup EnumColumn(t, "motion_state", "motion_state")
  <2>1. Made(9) = PointAnalytics
    BY DEF Made, Upgrade, Up0010, Adds, Step
  <2>2. PointAnalytics = cols \cup ref \cup PrimaryKey(t, {"session_point_id"}) \cup enums
    BY DEF PointAnalytics
  <2>3. "session_points" \in Standing(9)
    BY DEF Standing, Lasting, BornAt
  <2>4. \A c : \A e \in {"quality_class", "motion_state"} : TypeFor(<<"uses", t, c, e>>, 9)
    BY DEF TypeFor, KeptBy0011
  <2>5. "quality_class" \in Derived /\ "motion_state" \in Derived
    BY DEF Derived
  <2>6. \A g \in cols \cup ref \cup PrimaryKey(t, {"session_point_id"}) \cup enums : Supported(g, 9)
    <3>1. cols \subseteq Made(9)
      BY <2>1, <2>2
    <3>2. <<"col", t, "session_point_id">> \in Made(9) /\ <<"col", t, "quality_class">> \in Made(9)
            /\ <<"col", t, "motion_state">> \in Made(9)
      BY <2>5, <3>1 DEF Columns
    <3>3. \A g \in cols \cup PrimaryKey(t, {"session_point_id"}) : Supported(g, 9)
      BY <3>1, ColumnsSupport
    <3>4. \A g \in ref : Supported(g, 9)
      BY <2>3, <3>2, ARefSupports
    <3>5. \A g \in enums : Supported(g, 9)
      <4>1. TypeFor(<<"uses", t, "quality_class", "quality_class">>, 9) /\ TypeFor(<<"uses", t, "motion_state", "motion_state">>, 9)
        BY <2>4
      <4>2. \A g \in EnumColumn(t, "quality_class", "quality_class") : Supported(g, 9)
        BY <3>2, <4>1, ATypeSupports
      <4>3. \A g \in EnumColumn(t, "motion_state", "motion_state") : Supported(g, 9)
        BY <3>2, <4>1, ATypeSupports
      <4>4. QED
        BY <4>2, <4>3
    <3>6. QED
      BY <3>3, <3>4, <3>5
  <2>7. QED
    BY <1>9, <2>1, <2>2, <2>6
<1>10. QED
  BY <1>1, <1>2, <1>3, <1>4, <1>5, <1>6, <1>7, <1>8, <1>9

LEMMA StandingLate ==
  /\ \A k \in 10..15 : {"users", "resorts", "ride_sessions"} \subseteq Standing(k)
  /\ \A k \in 12..15 : "refresh_tokens" \in Standing(k)
  /\ "resort_source_records" \in Standing(15)
<1>1. \A k \in 10..15 : {"users", "resorts", "ride_sessions"} \subseteq Standing(k)
  BY DEF Standing, Lasting, BornAt
<1>2. \A k \in 12..15 : "refresh_tokens" \in Standing(k)
  BY DEF Standing, Lasting, BornAt
<1>3. "resort_source_records" \in Standing(15)
  BY DEF Standing, Lasting, BornAt
<1>4. QED
  BY <1>1, <1>2, <1>3

LEMMA AnalyzerTablesSupported ==
  ASSUME NEW f \in AnalyzerTables
  PROVE  Supported(f, 10)
<1> DEFINE a == "ride_session_actions"
           o == "ride_session_overrides"
           l == "resort_lifts"
           acols == Columns(a, {"id", "session_id", "action_type", "sequence_index", "started_at",
                 "ended_at", "duration_s", "distance_m", "avg_speed_mps", "max_speed_mps",
                 "source"}, {"created_at"},
             {"min_speed_mps", "vertical_m", "min_altitude_m", "max_altitude_m", "min_lat",
              "max_lat", "min_long", "max_long", "top_speed_lat", "top_speed_long",
              "top_speed_alt_m", "time_of_day", "external_track_id"})
           ocols == Columns(o, {"id", "session_id", "started_at", "ended_at", "motion_state",
                        "created_by"}, {"created_at"}, {})
           lcols == Columns(l, {"id", "resort_id", "name"}, {"created_at"},
                    {"lift_type", "polyline", "base_altitude_m", "top_altitude_m",
                     "external_track_id"})
           achecks == Checks(a, {"ck_ride_session_actions_action_type",
                       "ck_ride_session_actions_sequence_index",
                       "ck_ride_session_actions_time_of_day", "ck_ride_session_actions_source"})
           ochecks == Checks(o, {"ck_ride_session_overrides_motion_state",
                               "ck_ride_session_overrides_created_by"})
           lchecks == Checks(l, {"ck_resort_lifts_lift_type"})
           aref == Ref(a, "session_id", "ride_sessions", "CASCADE")
           oref == Ref(o, "session_id", "ride_sessions", "CASCADE")
           lref == Ref(l, "resort_id", "resorts", "CASCADE")
           names == achecks \cup ochecks \cup lchecks
                      \cup Uniques(a, {"uq_ride_session_actions_session_id_action_type_sequence_index"})
                      \cup Indexes(a, {"ix_ride_session_actions_session_id_started_at"})
                      \cup Indexes(o, {"ix_ride_session_overrides_session_id_started_at"})
                      \cup Indexes(l, {"ix_resort_lifts_resort_id", "ix_resort_lifts_external_track_id"})
           refs == aref \cup oref \cup lref
           keys == PrimaryKey(a, {"id"}) \cup PrimaryKey(o, {"id"}) \cup PrimaryKey(l, {"id"})
<1>1. /\ AnalyzerTables \subseteq acols \cup ocols \cup lcols \cup names \cup refs \cup keys
      /\ acols \cup ocols \cup lcols \subseteq AnalyzerTables
  BY ZenonT(60) DEF AnalyzerTables
<1>2. AnalyzerTables \subseteq Made(10)
  BY DEF Made, Upgrade, Up0011, Step
<1>3. \A g \in names : Supported(g, 10)
  <2>1. \A g \in names : \E t \in {a, o, l} : \E ns : g \in Uniques(t, ns) \/ g \in Indexes(t, ns) \/ g \in Checks(t, ns)
    BY ZenonT(60)
  <2>2. QED
    BY <2>1, NamesSupport
<1>4. acols \subseteq Made(10) /\ ocols \subseteq Made(10) /\ lcols \subseteq Made(10)
  BY <1>1, <1>2
<1>5. \A g \in acols \cup PrimaryKey(a, {"id"}) : Supported(g, 10)
  BY <1>4, ColumnsSupport
<1>6. \A g \in ocols \cup PrimaryKey(o, {"id"}) : Supported(g, 10)
  BY <1>4, ColumnsSupport
<1>7. \A g \in lcols \cup PrimaryKey(l, {"id"}) : Supported(g, 10)
  BY <1>4, ColumnsSupport
<1>8. /\ <<"col", a, "session_id">> \in Made(10)
      /\ <<"col", o, "session_id">> \in Made(10)
      /\ <<"col", l, "resort_id">> \in Made(10)
  BY <1>4 DEF Columns
<1>9. \A g \in refs : Supported(g, 10)
  <2>1. "ride_sessions" \in Standing(10) /\ "resorts" \in Standing(10)
    BY StandingLate
  <2>2. \A g \in aref : Supported(g, 10)
    BY <1>8, <2>1, ARefSupports
  <2>3. \A g \in oref : Supported(g, 10)
    BY <1>8, <2>1, ARefSupports
  <2>4. \A g \in lref : Supported(g, 10)
    BY <1>8, <2>1, ARefSupports
  <2>5. QED
    BY <2>2, <2>3, <2>4
<1> HIDE DEF acols, ocols, lcols, names, refs
<1>10. QED
  BY <1>1, <1>3, <1>5, <1>6, <1>7, <1>9

LEMMA CatalogIsSupported ==
  ASSUME NEW f \in CatalogTables \cup CatalogColumns \cup LiftOrigin
  PROVE  Supported(f, 15)
<1> DEFINE s == "resort_source_records"
           o == "resort_field_overrides"
           l == "resort_lifts"
           scols == Columns(s, {"id", "source", "external_id", "payload", "content_hash", "fetched_at",
                 "match_status"}, {"created_at", "updated_at"},
             {"snapshot_built_at", "missing_since", "resort_id", "match_method",
              "match_score", "match_candidates"})
           ocols == Columns(o, {"id", "resort_id", "field", "value"}, {"created_at"}, {"note"})
           lcols == Columns(l, {}, {"source"}, {"status", "source_record_id"})
           sref == Ref(s, "resort_id", "resorts", "SET NULL")
           oref == Ref(o, "resort_id", "resorts", "CASCADE")
           lref == Ref(l, "source_record_id", "resort_source_records", "SET NULL")
           names == Uniques(s, {"uq_resort_source_records_source_ext"})
                      \cup Checks(s, {"ck_resort_source_records_source",
                       "ck_resort_source_records_match_status",
                       "ck_resort_source_records_match_method"})
                      \cup Indexes(s, {"ix_resort_source_records_resort_id",
                        "ix_resort_source_records_source_status"})
                      \cup Uniques(o, {"uq_resort_field_overrides_resort_field"})
                      \cup Checks(o, {"ck_resort_field_overrides_field"})
                      \cup Checks(l, {"ck_resort_lifts_source"})
                      \cup Uniques(l, {"ix_resort_lifts_resort_track_unique"})
           keys == PrimaryKey(s, {"id"}) \cup PrimaryKey(o, {"id"})
<1>1. /\ CatalogTables \cup LiftOrigin \subseteq scols \cup ocols \cup lcols \cup names \cup sref \cup oref \cup lref \cup keys
      /\ scols \cup ocols \cup lcols \subseteq CatalogTables \cup LiftOrigin
  BY ZenonT(60) DEF CatalogTables, LiftOrigin
<1>2. CatalogTables \cup CatalogColumns \cup LiftOrigin \subseteq Made(15)
  BY DEF Made, Upgrade, Up0016, Step
<1>3. \A g \in names : Supported(g, 15)
  <2>1. \A g \in names : \E t \in {s, o, l} : \E ns : g \in Uniques(t, ns) \/ g \in Indexes(t, ns) \/ g \in Checks(t, ns)
    BY ZenonT(60)
  <2>2. QED
    BY <2>1, NamesSupport
<1>4. scols \subseteq Made(15) /\ ocols \subseteq Made(15) /\ lcols \subseteq Made(15)
  BY <1>1, <1>2
<1>5. \A g \in scols \cup PrimaryKey(s, {"id"}) : Supported(g, 15)
  BY <1>4, ColumnsSupport
<1>6. \A g \in ocols \cup PrimaryKey(o, {"id"}) : Supported(g, 15)
  BY <1>4, ColumnsSupport
<1>7. \A g \in lcols : Supported(g, 15)
  BY <1>4, ColumnsSupport
<1>8. /\ <<"col", s, "resort_id">> \in Made(15)
      /\ <<"col", o, "resort_id">> \in Made(15)
      /\ <<"col", l, "source_record_id">> \in Made(15)
  BY <1>4 DEF Columns
<1>9. \A g \in sref \cup oref \cup lref : Supported(g, 15)
  <2>1. "resort_source_records" \in Standing(15) /\ "resorts" \in Standing(15)
    BY StandingLate
  <2>2. \A a : \A g \in Ref(s, "resort_id", "resorts", a) : Supported(g, 15)
    BY <1>8, <2>1, ARefSupports
  <2>3. \A g \in oref : Supported(g, 15)
    BY <1>8, <2>1, ARefSupports
  <2>4. \A a : \A g \in Ref(l, "source_record_id", "resort_source_records", a) : Supported(g, 15)
    BY <1>8, <2>1, ARefSupports
  <2>5. QED
    BY <2>2, <2>3, <2>4
<1>10. \A g \in CatalogColumns : Supported(g, 15)
  BY <1>2, ColumnsSupport DEF CatalogColumns
<1> HIDE DEF scols, ocols, lcols, names, sref, oref, lref
<1>11. QED
  BY <1>1, <1>3, <1>5, <1>6, <1>7, <1>9, <1>10

LEMMA LateIsSupported ==
  ASSUME NEW k \in 10..15, NEW f \in Made(k)
  PROVE  Supported(f, k)
<1>1. CASE k = 10
  <2> DEFINE t == "ride_sessions"
             cols == Columns(t, Summary, {"source", "sport"}, RideExtras)
             checks == Checks(t, {"ck_ride_sessions_source", "ck_ride_sessions_sport"})
             enums == EnumColumn(t, "conditions", "session_conditions")
             key == Uniques(t, {"ix_ride_sessions_external_identifier_unique"})
  <2>1. AnalyzerColumns = cols \cup checks \cup enums \cup key
    BY DEF AnalyzerColumns
  <2>2. Made(10) = {<<"enum", "session_conditions">>} \cup AnalyzerTables \cup AnalyzerColumns
    BY DEF Made, Upgrade, Up0011, Step
  <2>3. cols \subseteq Made(10)
    BY <2>1, <2>2
  <2>4. \A g \in cols : Supported(g, 10)
    BY <2>3, ColumnsSupport
  <2>5. \A g \in enums : Supported(g, 10)
    <3>1. <<"col", t, "conditions">> \in Made(10)
      BY <2>3 DEF Columns, RideExtras
    <3>2. TypeFor(<<"uses", t, "conditions", "session_conditions">>, 10)
      BY DEF TypeFor
    <3>3. QED
      BY <3>1, <3>2, ATypeSupports
  <2>6. \A g \in checks \cup key : Supported(g, 10)
    BY NamesSupport
  <2>7. Supported(<<"enum", "session_conditions">>, 10)
    BY DEF Supported, Constrained
  <2> HIDE DEF cols, checks, enums, key
  <2>8. QED
    BY <1>1, <2>1, <2>2, <2>4, <2>5, <2>6, <2>7, AnalyzerTablesSupported
<1>2. CASE k = 11
  <2>1. f \in SummaryDefaults
    BY <1>2 DEF Made, Upgrade, Up0012, Adds, Step
  <2>2. f[1] = "default" /\ f[2] = "ride_sessions" /\ f[3] \in Summary
    BY <2>1 DEF SummaryDefaults
  <2>3. <<"col", f[2], f[3]>> \in AnalyzerColumns
    BY <2>2 DEF AnalyzerColumns, Columns
  <2>4. <<"col", f[2], f[3]>> \in Made(10)
    BY <2>3 DEF Made, Upgrade, Up0011, Step
  <2>5. QED
    BY <1>2, <2>2, <2>4 DEF Supported
<1>3. CASE k = 12
  <2> DEFINE t == "refresh_tokens"
             cols == Columns(t, {"id", "user_id", "token_hash", "family_id", "expires_at",
                      "family_expires_at"}, {"issued_at"},
                  {"device_label", "last_used_at", "revoked_at", "replaced_by_id"})
             uref == Ref(t, "user_id", "users", "CASCADE")
             tref == Ref(t, "replaced_by_id", "refresh_tokens", "SET NULL")
  <2>1. Made(12) = Up0013.add
    BY DEF Made, Upgrade
  <2>2. Up0013.add = cols \cup PrimaryKey(t, {"id"}) \cup uref \cup tref
                       \cup Uniques(t, {"uq_refresh_tokens_token_hash"})
                       \cup Indexes(t, {"ix_refresh_tokens_user_id", "ix_refresh_tokens_family_id"})
    BY DEF Up0013, Adds, Step
  <2>3. cols \subseteq Made(12)
    BY <2>1, <2>2, Zenon
  <2>4. \A g \in cols \cup PrimaryKey(t, {"id"}) : Supported(g, 12)
    BY <2>3, ColumnsSupport
  <2>5. <<"col", t, "user_id">> \in Made(12) /\ <<"col", t, "replaced_by_id">> \in Made(12)
    BY <2>3 DEF Columns
  <2>6. "users" \in Standing(12) /\ "refresh_tokens" \in Standing(12)
    BY StandingLate
  <2>7. \A g \in uref : Supported(g, 12)
    BY <2>5, <2>6, ARefSupports
  <2>8. \A g \in tref : Supported(g, 12)
    <3>1. \A a : \A g \in Ref(t, "replaced_by_id", "refresh_tokens", a) : Supported(g, 12)
      BY <2>5, <2>6, ARefSupports
    <3>2. QED
      BY <3>1
  <2> HIDE DEF cols, uref, tref
  <2>9. QED
    BY <1>3, <2>1, <2>2, <2>4, <2>7, <2>8, NamesSupport
<1>4. CASE k = 13
  <2>1. Made(13) = Columns("session_points", {}, {}, {"pressure_hpa"})
    BY DEF Made, Upgrade, Up0014, Adds, Step
  <2>2. QED
    BY <1>4, <2>1, ColumnsSupport
<1>5. CASE k = 14
  <2>1. Made(14) = Columns("resort_lifts", {}, {}, {"osm_aerialway"})
                     \cup Columns("ride_session_actions", {}, {}, {"lift_name"})
                     \cup Columns("ride_sessions", {}, {"break_count", "break_duration_s"}, {})
    BY DEF Made, Upgrade, Up0015, Adds, Step
  <2>2. \A g \in Columns("resort_lifts", {}, {}, {"osm_aerialway"}) : Supported(g, 14)
    BY <2>1, ColumnsSupport
  <2>3. \A g \in Columns("ride_session_actions", {}, {}, {"lift_name"}) : Supported(g, 14)
    BY <2>1, ColumnsSupport
  <2>4. \A g \in Columns("ride_sessions", {}, {"break_count", "break_duration_s"}, {}) : Supported(g, 14)
    BY <2>1, ColumnsSupport
  <2>5. QED
    BY <1>5, <2>1, <2>2, <2>3, <2>4
<1>6. CASE k = 15
  <2>1. Made(15) = CatalogTables \cup CatalogColumns \cup LiftOrigin
    BY DEF Made, Upgrade, Up0016, Step
  <2>2. QED
    BY <1>6, <2>1, CatalogIsSupported
<1>7. QED
  BY <1>1, <1>2, <1>3, <1>4, <1>5, <1>6

(* The tables that stand at a place have the column that no revision drops.  *)
RowColumn(t) == IF t = "favorite_resorts" THEN "user_id"
                ELSE "id"

LEMMA BirthMakes ==
  ASSUME NEW t \in Lasting
  PROVE  BornAt(t) \in 1..15 /\ <<"col", t, RowColumn(t)>> \in Made(BornAt(t))
<1>1. BornAt(t) \in 1..15
  BY DEF Lasting, BornAt
<1>2. \A s, r, w, o, c : c \in r \cup w \cup o => <<"col", s, c>> \in Columns(s, r, w, o)
  BY DEF Columns
<1>3. CASE t = "users"
  <2>1. BornAt(t) = 1 /\ RowColumn(t) = "id"
    BY <1>3 DEF BornAt, RowColumn
  <2>2. QED
    BY <1>2, <1>3, <2>1 DEF Made, Upgrade, Up0001, Adds, Step
<1>4. CASE t = "resorts"
  <2>1. BornAt(t) = 2 /\ RowColumn(t) = "id"
    BY <1>4 DEF BornAt, RowColumn
  <2>2. <<"col", "resorts", "id">> \in Up0002.add
    BY <1>2 DEF Up0002, Adds, Step
  <2>3. QED
    BY <1>4, <2>1, <2>2 DEF Made, Upgrade
<1>5. CASE t = "favorite_resorts"
  <2>1. BornAt(t) = 2 /\ RowColumn(t) = "user_id"
    BY <1>5 DEF BornAt, RowColumn
  <2>2. <<"col", "favorite_resorts", "user_id">> \in Up0002.add
    BY <1>2 DEF Up0002, Adds, Step
  <2>3. QED
    BY <1>5, <2>1, <2>2 DEF Made, Upgrade
<1>6. CASE t = "ride_sessions"
  <2>1. BornAt(t) = 3 /\ RowColumn(t) = "id"
    BY <1>6 DEF BornAt, RowColumn
  <2>2. <<"col", "ride_sessions", "id">> \in Up0003.add
    BY <1>2, ZenonT(60) DEF Up0003, Adds, Step
  <2>3. QED
    BY <1>6, <2>1, <2>2 DEF Made, Upgrade
<1>7. CASE t = "session_points"
  <2>1. BornAt(t) = 3 /\ RowColumn(t) = "id"
    BY <1>7 DEF BornAt, RowColumn
  <2>2. <<"col", "session_points", "id">> \in Up0003.add
    BY <1>2, ZenonT(60) DEF Up0003, Adds, Step
  <2>3. QED
    BY <1>7, <2>1, <2>2 DEF Made, Upgrade
<1>8. CASE t = "weather_cache"
  <2>1. BornAt(t) = 4 /\ RowColumn(t) = "id"
    BY <1>8 DEF BornAt, RowColumn
  <2>2. <<"col", "weather_cache", "id">> \in Up0004.add
    BY <1>2 DEF Up0004, Adds, Step
  <2>3. QED
    BY <1>8, <2>1, <2>2 DEF Made, Upgrade
<1>9. CASE t \in {"ride_session_actions", "ride_session_overrides", "resort_lifts"}
  <2>1. BornAt(t) = 10 /\ RowColumn(t) = "id"
    BY <1>9 DEF BornAt, RowColumn
  <2>2. AnalyzerTables \subseteq Made(10)
    BY DEF Made, Upgrade, Up0011, Step
  <2>3. /\ <<"col", "ride_session_actions", "id">> \in AnalyzerTables
        /\ <<"col", "ride_session_overrides", "id">> \in AnalyzerTables
        /\ <<"col", "resort_lifts", "id">> \in AnalyzerTables
    BY <1>2, ZenonT(60) DEF AnalyzerTables
  <2>4. QED
    BY <1>9, <2>1, <2>2, <2>3
<1>10. CASE t = "refresh_tokens"
  <2>1. BornAt(t) = 12 /\ RowColumn(t) = "id"
    BY <1>10 DEF BornAt, RowColumn
  <2>2. <<"col", "refresh_tokens", "id">> \in Up0013.add
    BY <1>2, ZenonT(60) DEF Up0013, Adds, Step
  <2>3. QED
    BY <1>10, <2>1, <2>2 DEF Made, Upgrade
<1>11. CASE t \in {"resort_source_records", "resort_field_overrides"}
  <2>1. BornAt(t) = 15 /\ RowColumn(t) = "id"
    BY <1>11 DEF BornAt, RowColumn
  <2>2. CatalogTables \subseteq Made(15)
    BY DEF Made, Upgrade, Up0016, Step
  <2>3. /\ <<"col", "resort_source_records", "id">> \in CatalogTables
        /\ <<"col", "resort_field_overrides", "id">> \in CatalogTables
    BY <1>2, ZenonT(60) DEF CatalogTables
  <2>4. QED
    BY <1>11, <2>1, <2>2, <2>3
<1>12. QED
  BY <1>1, <1>3, <1>4, <1>5, <1>6, <1>7, <1>8, <1>9, <1>10, <1>11 DEF Lasting

LEMMA TablesStand ==
  ASSUME NEW n \in 0..HeadRev, NEW t \in Standing(n)
  PROVE  t \in Tables(Clean[n])
<1> DEFINE f == <<"col", t, RowColumn(t)>>
<1>1. t \in Lasting /\ BornAt(t) <= n
  BY DEF Standing
<1>2. BornAt(t) \in 1..15 /\ f \in Made(BornAt(t))
  BY <1>1, BirthMakes
<1>3. Kept(f)
  <2>1. f[2] = t /\ f[3] \in {"id", "user_id"}
    BY DEF RowColumn
  <2>2. t \notin {"session_point_analytics", "motion_state", "quality_class"}
    BY <1>1 DEF Lasting
  <2>3. {"id", "user_id"} \cap (Derived \cup {"accepted_for_analytics"} \cup OldRideTotals \cup ResortIdentity
           \cup {"uq_resorts_external_source_external_id", "uq_resorts_name_country_region"}) = {}
    BY DEF Derived, OldRideTotals, ResortIdentity
  <2> HIDE DEF f
  <2>4. QED
    BY <2>1, <2>2, <2>3 DEF Kept, KeptBy0011
<1>4. f \in Clean[n]
  <2>1. BornAt(t) \in 1..HeadRev /\ n \in BornAt(t)..HeadRev
    BY <1>1, <1>2
  <2> HIDE DEF f
  <2>2. QED
    BY <1>2, <1>3, <2>1, KeptStays DEF Kept
<1>5. f[1] = "col" /\ f[2] = t
  OBVIOUS
<1> HIDE DEF f
<1>6. QED
  BY <1>4, <1>5 DEF Tables

LEMMA StandsOn ==
  ASSUME NEW n \in 0..HeadRev, NEW k \in 1..n, NEW t \in Standing(k)
  PROVE  t \in Standing(n)
<1>1. t \in Lasting /\ BornAt(t) <= k
  BY DEF Standing
<1>2. BornAt(t) \in 1..15
  BY <1>1, BirthMakes
<1>3. BornAt(t) <= n
  BY <1>1, <1>2
<1>4. QED
  BY <1>1, <1>3 DEF Standing

(* What a fact needs is there as long as the fact is.                        *)
LEMMA ColumnsStayFor ==
  ASSUME NEW n \in 0..HeadRev, NEW f \in Clean[n], NEW k \in 1..n, f \in Made(k), Supported(f, k),
         f[1] \in Constrained
  PROVE  <<"col", f[2], f[3]>> \in Clean[n]
<1> DEFINE g == <<"col", f[2], f[3]>>
<1>1. PICK j \in 1..k : g \in Made(j)
  BY DEF Supported
<1>2. g[2] = f[2] /\ g[3] = f[3]
  OBVIOUS
<1>3. j \in 1..HeadRev /\ n \in j..HeadRev
  OBVIOUS
<1> HIDE DEF g
<1>4. n >= 10 => KeptBy0011(g)
  BY <1>2, AfterTheDrop DEF KeptBy0011
<1>5. n = 15 => Kept(g)
  BY <1>2, TheHeadIsKept DEF KeptBy0011, Kept
<1>6. g \in Clean[n]
  BY <1>1, <1>3, <1>4, <1>5, KeptStays
<1>7. QED
  BY <1>6 DEF g

LEMMA EnumsAreMade ==
  /\ <<"enum", "ride_session_status">> \in Made(3)
  /\ \A e \in {"provider_type", "motion_state", "quality_class"} : <<"enum", e>> \in Made(8)
  /\ <<"enum", "session_conditions">> \in Made(10)
<1>1. <<"enum", "ride_session_status">> \in Made(3)
  <2>1. Made(3) = Up0003.add
    BY DEF Made, Upgrade
  <2>2. <<"enum", "ride_session_status">> \in Up0003.add
    BY DEF Up0003, Adds, Step
  <2>3. QED
    BY <2>1, <2>2
<1>2. ASSUME NEW e \in {"provider_type", "motion_state", "quality_class"}
      PROVE  <<"enum", e>> \in Made(8)
  <2>1. Made(8) = PointEnumFacts
    BY DEF Made, Upgrade, Up0009, Adds, Step
  <2>2. PICK p \in PointEnums : p[2] = e
    BY DEF PointEnums
  <2>3. <<"enum", p[2]>> \in PointEnumFacts
    BY DEF PointEnumFacts
  <2>4. QED
    BY <2>1, <2>2, <2>3
<1>3. <<"enum", "session_conditions">> \in Made(10)
  BY DEF Made, Upgrade, Up0011, Step
<1>4. QED
  BY <1>1, <1>2, <1>3

LEMMA TypesStayFor ==
  ASSUME NEW n \in 0..HeadRev, NEW f \in Clean[n], NEW k \in 1..n, TypeFor(f, k)
  PROVE  <<"enum", f[4]>> \in Clean[n]
<1> DEFINE g == <<"enum", f[4]>>
<1>1. g[2] = f[4]
  OBVIOUS
<1>2. CASE f[4] = "ride_session_status" /\ k >= 3
  <2>1. g \in Made(3) /\ n \in 3..HeadRev
    BY <1>2, EnumsAreMade
  <2> HIDE DEF g
  <2>2. Kept(g)
    BY <1>1, <1>2 DEF Kept, KeptBy0011
  <2>3. g \in Clean[n]
    BY <2>1, <2>2, KeptStays DEF Kept
  <2>4. QED
    BY <2>3 DEF g
<1>3. CASE f[4] = "provider_type" /\ k >= 8
  <2>1. g \in Made(8) /\ n \in 8..HeadRev
    BY <1>3, EnumsAreMade
  <2> HIDE DEF g
  <2>2. Kept(g)
    BY <1>1, <1>3 DEF Kept, KeptBy0011
  <2>3. g \in Clean[n]
    BY <2>1, <2>2, KeptStays DEF Kept
  <2>4. QED
    BY <2>3 DEF g
<1>4. CASE f[4] = "session_conditions" /\ k >= 10
  <2>1. g \in Made(10) /\ n \in 10..HeadRev
    BY <1>4, EnumsAreMade
  <2> HIDE DEF g
  <2>2. Kept(g)
    BY <1>1, <1>4 DEF Kept, KeptBy0011
  <2>3. g \in Clean[n]
    BY <2>1, <2>2, KeptStays DEF Kept
  <2>4. QED
    BY <2>3 DEF g
<1>5. CASE f[4] \in {"motion_state", "quality_class"} /\ k \in {8, 9} /\ ~ KeptBy0011(f)
  <2>1. g \in Made(8)
    BY <1>5, EnumsAreMade
  <2>2. n \notin 10..15
    BY <1>5, AfterTheDrop
  <2>3. n \in 8..HeadRev /\ n < 10
    BY <1>5, <2>2
  <2> HIDE DEF g
  <2>4. g \in Clean[n]
    BY <2>1, <2>3, KeptStays
  <2>5. QED
    BY <2>4 DEF g
<1>6. QED
  BY <1>2, <1>3, <1>4, <1>5 DEF TypeFor

LEMMA NamedTablesStand ==
  ASSUME NEW n \in 0..HeadRev, NEW k \in 1..n, NEW f \in Made(k), f[1] \in {"unique", "index", "check"},
         f[2] # "session_point_analytics"
  PROVE  f[2] \in Tables(Clean[n])
<1>1. k \in 1..HeadRev
  OBVIOUS
<1>2. \A e : <<"enum", e>>[1] = "enum"
  OBVIOUS
<1>3. f[2] \in TablesOf(k)
  BY <1>1, <1>2, MadeOfTables, FactsHaveATable
<1>4. f[2] \in Standing(k)
  <2>1. CASE k \in 1..9
    BY <1>3, <2>1 DEF TablesOf, Standing, Lasting, BornAt
  <2>2. CASE k \in 10..15
    BY <1>3, <2>2 DEF TablesOf, Standing, Lasting, BornAt
  <2>3. QED
    BY <2>1, <2>2
<1>5. f[2] \in Standing(n)
  BY <1>4, StandsOn
<1>6. QED
  BY <1>5, TablesStand

LEMMA CleanIsWellFormed ==
  ASSUME NEW n \in 0..HeadRev
  PROVE  WellFormed(Clean[n])
<1> SUFFICES ASSUME NEW f \in Clean[n]
             PROVE  /\ f[1] \in Constrained => <<"col", f[2], f[3]>> \in Clean[n]
                    /\ f[1] = "fk" => f[4] \in Tables(Clean[n])
                    /\ f[1] = "uses" => <<"enum", f[4]>> \in Clean[n]
                    /\ f[1] \in {"unique", "index", "check"} => f[2] \in Tables(Clean[n])
  BY DEF WellFormed, Constrained
<1>1. PICK k \in 1..n : f \in Made(k)
  BY SomebodyMadeIt
<1>2. Supported(f, k)
  <2>1. k \in 1..9 \/ k \in 10..15
    OBVIOUS
  <2>2. QED
    BY <1>1, <2>1, EarlyIsSupported, LateIsSupported
<1>3. f[1] \in Constrained => <<"col", f[2], f[3]>> \in Clean[n]
  BY <1>1, <1>2, ColumnsStayFor
<1>4. f[1] = "fk" => f[4] \in Tables(Clean[n])
  <2>1. ASSUME f[1] = "fk"
        PROVE  f[4] \in Standing(n)
    BY <1>2, <2>1, StandsOn DEF Supported
  <2>2. QED
    BY <2>1, TablesStand
<1>5. f[1] = "uses" => <<"enum", f[4]>> \in Clean[n]
  BY <1>2, TypesStayFor DEF Supported
<1>6. f[1] \in {"unique", "index", "check"} => f[2] \in Tables(Clean[n])
  BY <1>1, <1>2, NamedTablesStand DEF Supported
<1>7. QED
  BY <1>3, <1>4, <1>5, <1>6

LEMMA FollowersAreWellFormed ==
  ASSUME NEW n \in 0..HeadRev, NEW d, Follows(d, n)
  PROVE  WellFormed(d)
<1> SUFFICES ASSUME NEW f \in d
             PROVE  /\ f[1] \in Constrained => <<"col", f[2], f[3]>> \in d
                    /\ f[1] = "fk" => f[4] \in Tables(d)
                    /\ f[1] = "uses" => <<"enum", f[4]>> \in d
                    /\ f[1] \in {"unique", "index", "check"} => f[2] \in Tables(d)
  BY DEF WellFormed, Constrained
<1>1. \A g : g[1] \in {"col", "enum"} => (g \in Clean[n] <=> g \in d)
  <2>1. \A g \in NotRestored : g[1] \in {"notnull", "default"}
    BY DEF NotRestored
  <2>2. QED
    BY <2>1 DEF Follows, Alike
<1>2. Tables(d) = Tables(Clean[n])
  BY <1>1 DEF Tables
<1>3. CASE f \in NotRestored
  <2>1. n \in 7..9 /\ f[1] \in {"notnull", "default"} /\ f[2] = "session_points" /\ f[3] = "accepted_for_analytics"
    BY <1>3 DEF Follows, NotRestored
  <2> DEFINE g == <<"col", "session_points", "accepted_for_analytics">>
  <2>2. g \in Made(7)
    BY DEF Made, Columns
  <2>3. g[1] = "col"
    OBVIOUS
  <2> HIDE DEF g
  <2>4. g \in d
    <3>1. n \in 7..HeadRev /\ n < 10
      BY <2>1
    <3>2. g \in Clean[n]
      BY <2>2, <3>1, KeptStays
    <3>3. QED
      BY <1>1, <2>3, <3>2
  <2>5. QED
    BY <2>1, <2>4 DEF g
<1>4. CASE f \notin NotRestored
  <2>1. f \in Clean[n]
    BY <1>4 DEF Follows, Alike
  <2>2. /\ f[1] \in Constrained => <<"col", f[2], f[3]>> \in Clean[n]
        /\ f[1] = "fk" => f[4] \in Tables(Clean[n])
        /\ f[1] = "uses" => <<"enum", f[4]>> \in Clean[n]
        /\ f[1] \in {"unique", "index", "check"} => f[2] \in Tables(Clean[n])
    <3>1. WellFormed(Clean[n])
      BY CleanIsWellFormed
    <3>2. CASE f[1] \in {"notnull", "default", "pk"}
      BY <2>1, <3>1, <3>2 DEF WellFormed
    <3>3. CASE f[1] = "fk"
      BY <2>1, <3>1, <3>3 DEF WellFormed
    <3>4. CASE f[1] = "uses"
      BY <2>1, <3>1, <3>4 DEF WellFormed
    <3>5. CASE f[1] \in {"unique", "index", "check"}
      BY <2>1, <3>1, <3>5 DEF WellFormed, Constrained
    <3>6. QED
      BY <3>2, <3>3, <3>4, <3>5 DEF Constrained
  <2>3. \A a, b : <<"col", a, b>>[1] = "col" /\ <<"enum", a>>[1] = "enum"
    OBVIOUS
  <2>4. QED
    BY <1>1, <1>2, <2>2, <2>3
<1>5. QED
  BY <1>3, <1>4

(* No row stands in the way of an upgrade: 0011 empties the rides before it  *)
(* adds its columns, the other columns of rides come with a default, and the *)
(* name key comes with its table.                                           *)
NameKey == <<"unique", "resorts", "uq_resorts_name_country_region">>
NeedsValue(f, add) ==
  f[1] = "notnull" /\ f[2] = "ride_sessions" /\ <<"default", f[2], f[3]>> \notin add

LEMMA RidesLetUpgradesPass ==
  ASSUME NEW n \in 4..HeadRev, NEW d, NEW f \in Upgrade(n, d).add, NeedsValue(f, Upgrade(n, d).add)
  PROVE  "ride_sessions" \in Upgrade(n, d).truncated
<1>1. n \in 1..HeadRev /\ n # 3 /\ f[2] = "ride_sessions" /\ f[1] = "notnull"
  BY DEF NeedsValue
<1>2. f \in Made(n)
  BY <1>1, UpgradesMake
<1>3. CASE n = 10
  <2>1. Upgrade(10, d) = Up0011(d)
    BY DEF Upgrade
  <2>2. "ride_sessions" \in Up0011(d).truncated
    BY DEF Up0011, Step
  <2>3. QED
    BY <1>3, <2>1, <2>2
<1>4. CASE n = 11 /\ f \in SummaryDefaults
  BY <1>1, <1>4 DEF SummaryDefaults
<1>5. CASE n = 14 /\ f \in Columns("ride_sessions", {}, {"break_count", "break_duration_s"}, {})
  <2> DEFINE cols == Columns("ride_sessions", {}, {"break_count", "break_duration_s"}, {})
  <2>1. f[3] \in {"break_count", "break_duration_s"}
    BY <1>5 DEF Columns
  <2>2. <<"default", "ride_sessions", f[3]>> \in cols
    BY <2>1 DEF Columns
  <2>3. cols \subseteq Made(14)
    BY DEF Made, Upgrade, Up0015, Adds, Step
  <2>4. Made(14) = Upgrade(14, d).add
    BY UpgradesMake
  <2> HIDE DEF cols
  <2>5. QED
    BY <1>1, <1>5, <2>2, <2>3, <2>4 DEF NeedsValue
<1>6. QED
  BY <1>1, <1>2, <1>3, <1>4, <1>5, RideNames

LEMMA TheNameKeyIsOf0002 ==
  ASSUME NEW n \in 1..HeadRev, NameKey \in Made(n)
  PROVE  n = 2
<1>1. NameKey[1] = "unique" /\ NameKey[2] = "resorts" /\ NameKey[3] = "uq_resorts_name_country_region"
  BY DEF NameKey
<1>2. n \notin 10..15
  BY <1>1, LateFactsAreKept DEF Kept
<1>3. NameKey \notin Columns("resorts", {}, {"is_active"}, ResortIdentity)
  BY <1>1, ColumnsAreHeaded DEF ColumnHead
<1>4. NameKey \notin ResortIdentityKey /\ NameKey \notin Indexes("resorts", {"ix_resorts_is_active"})
  BY <1>1, FactsHaveAName DEF ResortIdentityKey
<1>5. n < 15
  BY <1>2
<1>6. QED
  BY <1>1, <1>3, <1>4, <1>5, ResortNames

LEMMA UpgradesAreNotRefused ==
  ASSUME RevisionsOK, RowsFit(rev, rides, resorts, records), Follows(db, rev),
         NEW n \in 1..HeadRev, rev = n - 1
  PROVE  ~ Refused(Upgrade(n, db))
<1> DEFINE m == Upgrade(n, db)
<1>1. m.drop \subseteq db
  BY UpgradesFind
<1>2. m.add \cap (db \ m.drop) = {}
  BY UpgradesAddNew
<1>3. WellFormed(Applied(m, db))
  BY UpgradesFollow, FollowersAreWellFormed
<1>4. ASSUME rides, "ride_sessions" \notin m.truncated, NEW f \in m.add
      PROVE  ~ NeedsValue(f, m.add)
  <2>1. n \in 4..HeadRev
    BY <1>4 DEF RowsFit
  <2>2. QED
    BY <1>4, <2>1, RidesLetUpgradesPass
<1>5. ~ (ResortNameKey \subseteq m.add /\ DuplicateNames)
  <2>1. ASSUME ResortNameKey \subseteq m.add
        PROVE  n = 2
    <3>1. NameKey \in ResortNameKey
      BY DEF NameKey, ResortNameKey, Uniques
    <3>2. m.add \subseteq Made(n)
      BY UpgradesMake
    <3> HIDE DEF m
    <3>3. QED
      BY <2>1, <3>1, <3>2, TheNameKeyIsOf0002
  <2>2. ASSUME n = 2
        PROVE  ~ DuplicateNames
    <3>1. \A r \in ResortId : ~ Stored(r)
      BY <2>2 DEF RowsFit, Stored
    <3>2. QED
      BY <3>1 DEF DuplicateNames
  <2>3. QED
    BY <2>1, <2>2
<1> HIDE DEF m
<1>6. ~ Refused(m)
  BY <1>1, <1>2, <1>3, <1>4, <1>5 DEF Refused, NeedsValue
<1>7. QED
  BY <1>6 DEF m

(* A downgrade adds no NOT NULL column to the rides, and only that of 0016   *)
(* adds the name key.                                                       *)
LEMMA DowngradesAddNoValue ==
  ASSUME NEW n \in 1..HeadRev, NEW d, NEW f \in Downgrade(n, d).add
  PROVE  /\ ~ (f[1] = "notnull" /\ f[2] = "ride_sessions")
         /\ n # 15 => f # NameKey
<1>1. NameKey[2] = "resorts"
  BY DEF NameKey
<1>2. CASE n \notin {10, 15}
  BY <1>2, DowngradesThatAdd
<1>3. CASE n = 10
  <2>1. \/ f \in {<<"enum", "motion_state">>, <<"enum", "quality_class">>}
        \/ f \in PointAnalytics
        \/ f \in Columns("session_points", {}, {}, Derived \cup {"accepted_for_analytics"})
        \/ f \in EnumColumn("session_points", "quality_class", "quality_class")
        \/ f \in EnumColumn("session_points", "motion_state", "motion_state")
        \/ f \in Columns("ride_sessions", {}, {}, OldRideTotals)
    <3>1. Downgrade(10, d) = Down0011(d)
      BY DEF Downgrade
    <3>2. f \in Down0011(d).add
      BY <1>3, <3>1
    <3>3. QED
      BY <3>2 DEF Down0011, Step
  <2>2. f \in PointAnalytics => f[2] = "session_point_analytics"
    <3>1. f \in PointAnalytics => MadeFor("session_point_analytics", f)
      BY DEF PointAnalytics, MadeFor
    <3>2. QED
      BY <3>1, FactsHaveATable
  <2>3. f \in Columns("session_points", {}, {}, Derived \cup {"accepted_for_analytics"}) => f[2] = "session_points"
    BY ColumnsAreHeaded
  <2>4. f \in Columns("ride_sessions", {}, {}, OldRideTotals) => f[1] = "col" /\ f[2] = "ride_sessions"
    BY DEF Columns
  <2>5. f \in EnumColumn("session_points", "quality_class", "quality_class")
           \cup EnumColumn("session_points", "motion_state", "motion_state") => f[2] = "session_points"
    BY DEF EnumColumn
  <2>6. f \in {<<"enum", "motion_state">>, <<"enum", "quality_class">>} => f[2] \in {"motion_state", "quality_class"}
    OBVIOUS
  <2>7. f[2] # "resorts" /\ ~ (f[1] = "notnull" /\ f[2] = "ride_sessions")
    BY <2>1, <2>2, <2>3, <2>4, <2>5, <2>6
  <2>8. QED
    BY <1>1, <2>7
<1>4. CASE n = 15
  <2>1. Downgrade(15, d).add = Columns("resorts", {}, {}, ResortIdentity) \cup ResortIdentityKey \cup ResortNameKey
    BY DEF Downgrade, Down0016, Step
  <2>2. f \in ResortIdentityKey \cup ResortNameKey => f[2] = "resorts"
    BY DEF ResortIdentityKey, ResortNameKey, Uniques
  <2>3. f[2] = "resorts"
    BY <1>4, <2>1, <2>2, ColumnsAreHeaded
  <2>4. QED
    BY <1>4, <2>3
<1>5. QED
  BY <1>2, <1>3, <1>4

LEMMA OneDowngradeIsRefused ==
  ASSUME Follows(db, rev), rev \in 1..HeadRev, Refused(Downgrade(rev, db))
  PROVE  rev = HeadRev /\ DuplicateNames
<1> DEFINE m == Downgrade(rev, db)
<1>1. m.drop \subseteq db
  BY DowngradesFind
<1>2. m.add \cap (db \ m.drop) = {}
  BY DowngradesAddNew
<1>3. WellFormed(Applied(m, db))
  <2>1. rev - 1 \in 0..HeadRev
    OBVIOUS
  <2>2. QED
    BY <2>1, DowngradesFollow, FollowersAreWellFormed
<1>4. \A f \in m.add : ~ (f[1] = "notnull" /\ f[2] = "ride_sessions")
  BY DowngradesAddNoValue
<1>5. NameKey \in m.add => rev = 15
  BY DowngradesAddNoValue
<1>6. NameKey \in ResortNameKey
  BY DEF NameKey, ResortNameKey, Uniques
<1>7. Refused(m)
  OBVIOUS
<1> HIDE DEF m
<1>8. QED
  BY <1>1, <1>2, <1>3, <1>4, <1>5, <1>6, <1>7 DEF Refused

(* A command is refused and rolled back for one reason only: 0016 is to be   *)
(* undone while two resorts share a name.  No upgrade is ever refused        *)
(* (Migrations!OnlyDuplicatesRefuse).                                       *)
THEOREM RefusalsHold == Spec => OnlyDuplicatesRefuse
<1> DEFINE Only == rev = HeadRev /\ target < HeadRev /\ DuplicateNames
<1>1. RowsInv /\ ChainInv /\ [Next]_vars => [~ Idle /\ target' # target => Only]_vars
  <2> SUFFICES ASSUME RowsInv, ChainInv, Next, ~ Idle, target' # target PROVE Only
    OBVIOUS
  <2>1. RollBack
    BY DEF Next, Command, Migrate, StoreRide, LegacyImport, CatalogImport
  <2>2. /\ rev \in 0..15 /\ target \in 0..15 /\ target # rev /\ Follows(db, rev)
        /\ RevisionsOK /\ RowsFit(rev, rides, resorts, records)
    BY DEF RowsInv, RevisionsOK, ChainInv, Idle
  <2>3. Refused(Migration)
    BY <2>1 DEF RollBack
  <2>4. CASE target > rev
    <3>1. rev + 1 \in 1..15 /\ rev = (rev + 1) - 1 /\ Migration = Upgrade(rev + 1, db)
      BY <2>2, <2>4 DEF Migration
    <3>2. QED
      BY <2>2, <2>3, <3>1, UpgradesAreNotRefused
  <2>5. CASE target < rev
    <3>1. rev \in 1..15 /\ Migration = Downgrade(rev, db)
      BY <2>2, <2>5 DEF Migration
    <3>2. QED
      BY <2>2, <2>3, <2>5, <3>1, OneDowngradeIsRefused
  <2>6. QED
    BY <2>2, <2>4, <2>5
<1>2. Spec => [][~ Idle /\ target' # target => Only]_vars
  BY <1>1, RowsInvHolds, ChainInvHolds, PTL DEF Spec
<1>3. QED
  BY <1>2 DEF OnlyDuplicatesRefuse
===============================================================================
