----------------------------- MODULE CatalogProofs -----------------------------
(***************************************************************************)
(* Proofs about Catalog: CatInv is inductive, so that reviews are kept and *)
(* a resort has one ski area; with it MergeInv is, so that what is stored  *)
(* is what the merge makes of the records.                                 *)
(***************************************************************************)
EXTENDS Catalog, TLAPS

LEMMA CatInit == Init => CatInv
<1> SUFFICES ASSUME Init PROVE CatInv
  OBVIOUS
<1> USE CatalogAssumption DEF Init
<1>1. \A r \in Resort : IsResort(resort[r])
  BY DEF IsResort, NoResort, NewResort, Legacy, ResortFields
<1>2. IsTable(record) /\ IsRecord(NoRecord)
  BY DEF IsTable, IsRecord, NoRecord, RecordFields
<1>3. ImportTyped /\ ReviewTyped
  BY <1>2 DEF ImportTyped, ReviewTyped, NoImport, NoReview, Nothing
<1>4. Seen = record /\ SeenResorts = resort
  BY DEF Seen, SeenResorts, Over, NoImport, Nothing
<1>5. QED
  BY <1>1, <1>2, <1>3, <1>4 DEF CatInv, CatTyped, Tidy, OneArea, Linked, LinkedExist,
    ImportKeepsReviews, LinkingIsOrdered, ReviewIsAlone, NoRecord, NoImport, NoReview, Nothing

-------------------------------------------------------------------------------
(* The rows. *)

LEMMA NewRecordOK == IsRecord(NoRecord)
  BY DEF IsRecord, NoRecord, RecordFields

LEMMA UpsertedOK ==
  ASSUME NEW row, IsRecord(row), NEW p, NEW t
  PROVE  /\ IsRecord(Upserted(row, p, t)) /\ IsRecord(Missing(row, t))
         /\ Missing(row, t).status = row.status /\ Missing(row, t).resort = row.resort
         /\ Missing(row, t).method = row.method
         /\ Upserted(row, p, t).resort = row.resort /\ Upserted(row, p, t).method = row.method
         /\ \/ Upserted(row, p, t).status = row.status
            \/ row.status = "none" /\ Upserted(row, p, t).status = "pending_review"
<1>1. /\ IsRecord(Missing(row, t)) /\ Missing(row, t).status = row.status
      /\ Missing(row, t).resort = row.resort /\ Missing(row, t).method = row.method
  BY DEF IsRecord, NoRecord, RecordFields, Missing
<1>2. CASE row.status = "none"
  BY <1>1, <1>2 DEF IsRecord, NoRecord, RecordFields, Upserted
<1>3. CASE row.status # "none"
  <2> DEFINE new == [row EXCEPT !.payload = p, !.missing = FALSE, !.upd = t]
  <2>1. /\ IsRecord(new) /\ new.status = row.status
        /\ new.resort = row.resort /\ new.method = row.method
    BY DEF IsRecord, NoRecord, RecordFields
  <2>2. Upserted(row, p, t) = new \/ Upserted(row, p, t) = row
    BY <1>3 DEF Upserted
  <2> HIDE DEF new
  <2>3. QED
    BY <1>1, <2>1, <2>2
<1>4. QED
  BY <1>2, <1>3

LEMMA LinkedToOK ==
  ASSUME NEW row, IsRecord(row), NEW r \in Resort, NEW m \in {"primary", "auto", "manual"}
  PROVE  /\ IsRecord(LinkedTo(row, r, m))
         /\ LinkedTo(row, r, m).status = "linked" /\ LinkedTo(row, r, m).resort = r
         /\ LinkedTo(row, r, m).method = m
  BY DEF IsRecord, NoRecord, RecordFields, LinkedTo

LEMMA PendingOK ==
  ASSUME NEW row, IsRecord(row)
  PROVE  /\ IsRecord(Pending(row))
         /\ Pending(row).status = "pending_review" /\ Pending(row).resort = Nil
         /\ Pending(row).method = Nil
         /\ row.status = "pending_review" => Pending(row) = row
  BY DEF IsRecord, NoRecord, RecordFields, Pending

LEMMA MergeOK ==
  ASSUME NEW recs, NEW r, NEW row, IsResort(row), row.stored, NEW t
  PROVE  /\ IsResort([ComputeMerge(recs, r, row) EXCEPT !.merged = t])
         /\ [ComputeMerge(recs, r, row) EXCEPT !.merged = t].stored
  BY DEF IsResort, NoResort, ResortFields, ComputeMerge

LEMMA MatchResortOK ==
  ASSUME NEW p, NEW pool, NEW cs
  PROVE  MatchResort(p, pool, cs).kind = "auto" => MatchResort(p, pool, cs).resort \in cs
  BY DEF MatchResort

-------------------------------------------------------------------------------
(* The steps of the invariant. *)

(* What the import sees is made of rows. *)
LEMMA SeenOK ==
  ASSUME CatTyped
  PROVE  /\ IsTable(Seen) /\ DOMAIN Seen = Area
         /\ \A a \in Area : Seen[a] = IF a \in DOMAIN imp.rec THEN imp.rec[a] ELSE record[a]
         /\ DOMAIN SeenResorts = Resort /\ \A r \in Resort : IsResort(SeenResorts[r])
         /\ \A r \in Resort :
              SeenResorts[r] = IF r \in DOMAIN imp.res THEN imp.res[r] ELSE resort[r]
         /\ \A r \in Resort : SeenResorts[r].stored <=> r \in DOMAIN imp.res \/ resort[r].stored
  BY DEF CatTyped, ImportTyped, IsTable, Seen, SeenResorts, Over, IsResort

(* An import begins, or is over and leaves nothing. *)
LEMMA ClearedStep ==
  ASSUME CatInv, UNCHANGED <<record, resort, rev, raced>>, imp'.rec = Nothing, imp'.res = Nothing,
         imp' = [c \in DOMAIN NoImport |-> imp'[c]], imp'.phase \in {"idle", "upsert", "mergeOnly"}
  PROVE  CatInv'
<1>1. ImportTyped'
  BY DEF ImportTyped, Nothing, NoImport
<1>2. ReviewTyped'
  BY DEF CatInv, CatTyped, ReviewTyped, Nothing, NoReview
<1>3. CatTyped'
  BY <1>1, <1>2 DEF CatInv, CatTyped
<1>4. Seen' = record /\ SeenResorts' = resort
  BY DEF CatInv, CatTyped, IsTable, Seen, SeenResorts, Over, Nothing
<1>5. QED
  BY <1>3, <1>4 DEF CatInv, Tidy, OneArea, LinkedExist, Linked, ImportKeepsReviews, LinkingIsOrdered,
    ReviewIsAlone, Nothing

LEMMA BeginStep ==
  ASSUME CatInv, NEW opts, NEW payload, NEW carried, Begin(opts, payload, carried) \/ BeginMergeOnly(opts)
  PROVE  CatInv'
<1>1. /\ UNCHANGED <<record, resort, rev, raced>>
      /\ imp' = [c \in DOMAIN NoImport |-> imp'[c]] /\ imp'.phase \in {"upsert", "mergeOnly"}
      /\ imp'.rec = Nothing /\ imp'.res = Nothing
  BY DEF Begin, BeginMergeOnly, NoImport
<1>2. QED
  BY <1>1, ClearedStep

LEMMA RollBackStep == CatInv /\ RollBack => CatInv'
<1> SUFFICES ASSUME CatInv, RollBack PROVE CatInv'
  OBVIOUS
<1>1. /\ UNCHANGED <<record, resort, rev, raced>>
      /\ imp' = [c \in DOMAIN NoImport |-> imp'[c]] /\ imp'.phase = "idle"
      /\ imp'.rec = Nothing /\ imp'.res = Nothing
  BY DEF RollBack, NoImport
<1>2. QED
  BY <1>1, ClearedStep

LEMMA UpsertStep == CatInv /\ Upsert => CatInv'
<1> SUFFICES ASSUME CatInv, Upsert PROVE CatInv'
  OBVIOUS
<1> DEFINE changed == {a \in Area : AfterUpsert(a) # record[a]}
<1>1. /\ UNCHANGED <<record, resort, rev, raced>> /\ imp.phase = "upsert"
      /\ imp'.phase = "link" /\ imp'.res = imp.res /\ imp'.rec = [a \in changed |-> AfterUpsert(a)]
      /\ imp' = [c \in DOMAIN NoImport |-> imp'[c]]
  BY DEF Upsert, CatInv, CatTyped, ImportTyped, NoImport
<1>2. \A a \in Area :
        /\ IsRecord(AfterUpsert(a)) /\ AfterUpsert(a).resort = record[a].resort
        /\ AfterUpsert(a).method = record[a].method
        /\ \/ AfterUpsert(a).status = record[a].status
           \/ record[a].status = "none" /\ AfterUpsert(a).status = "pending_review"
  <2> TAKE a \in Area
  <2>1. IsRecord(record[a])
    BY DEF CatInv, CatTyped, IsTable
  <2>2. AfterUpsert(a) \in {Upserted(record[a], imp.payload[a], imp.start),
                            Missing(record[a], imp.start), record[a]}
    BY DEF AfterUpsert
  <2>3. QED
    BY <2>1, <2>2, UpsertedOK
<1>3. CatTyped'
  <2>1. ImportTyped'
    BY <1>1, <1>2 DEF CatInv, CatTyped, ImportTyped
  <2>2. ReviewTyped'
    BY <1>1 DEF CatInv, CatTyped, ReviewTyped, NoReview
  <2>3. QED
    BY <1>1, <2>1, <2>2 DEF CatInv, CatTyped
<1>4. \A a \in Area : Seen'[a] = AfterUpsert(a)
  BY <1>1, <1>3, SeenOK DEF CatInv, CatTyped, IsTable, Seen, Over
<1>5. SeenResorts' = resort /\ SeenResorts = resort
  BY <1>1 DEF CatInv, CatTyped, ImportTyped, SeenResorts, Over
<1> HIDE DEF changed
<1>6. Tidy(record)' /\ Tidy(Seen)'
  BY <1>1, <1>2, <1>4 DEF CatInv, Tidy
<1>7. OneArea(record)' /\ OneArea(Seen)'
  BY <1>1, <1>2, <1>4 DEF CatInv, OneArea, Linked
<1>8. LinkedExist(record, resort)' /\ LinkedExist(Seen, SeenResorts)'
  BY <1>1, <1>2, <1>4, <1>5 DEF CatInv, LinkedExist
<1>9. ImportKeepsReviews'
  <2>1. \A a \in Area : IsRecord(record[a])
    BY DEF CatInv, CatTyped, IsTable
  <2>2. QED
    BY <1>1, <1>2, <2>1, CatalogAssumption DEF ImportKeepsReviews, Resolved, IsRecord, changed
<1>10. QED
  BY <1>1, <1>3, <1>6, <1>7, <1>8, <1>9 DEF CatInv, LinkingIsOrdered, ReviewIsAlone, Linked

(* A step of the import that writes nothing, after the links. *)
LEMMA QuietStep ==
  ASSUME CatInv, UNCHANGED <<record, resort, rev, raced>>, imp'.rec = imp.rec, imp'.res = imp.res,
         imp' = [c \in DOMAIN NoImport |-> imp'[c]], imp'.phase \in {"merge", "commit"}
  PROVE  CatInv'
<1>1. ImportTyped'
  BY DEF CatInv, CatTyped, ImportTyped
<1>2. ReviewTyped'
  BY DEF CatInv, CatTyped, ReviewTyped, NoReview
<1>3. Seen' = Seen /\ SeenResorts' = SeenResorts
  BY DEF Seen, SeenResorts, Over
<1>4. QED
  BY <1>1, <1>2, <1>3 DEF CatInv, CatTyped, Tidy, OneArea, LinkedExist, Linked, ImportKeepsReviews,
    LinkingIsOrdered, ReviewIsAlone

LEMMA LinkReadStep == CatInv /\ LinkRead => CatInv'
<1> SUFFICES ASSUME CatInv, LinkRead PROVE CatInv'
  OBVIOUS
<1> DEFINE linked == {Seen[a].resort : a \in {b \in Area : Seen[b].status = "linked"}}
           pool == {r \in Resort : resort[r].stored}
<1>1. /\ UNCHANGED <<record, resort, rev, raced>> /\ imp.phase = "link"
      /\ imp'.phase = "linking" /\ imp'.res = imp.res /\ imp'.rec = imp.rec /\ imp'.next = 1
      /\ imp'.snap = Seen /\ imp'.pool = [r \in pool |-> resort[r]]
      /\ imp'.eligible = pool \ linked
      /\ imp' = [c \in DOMAIN NoImport |-> imp'[c]]
  BY DEF LinkRead, CatInv, CatTyped, ImportTyped, NoImport
<1>2. ImportTyped'
  BY <1>1 DEF CatInv, CatTyped, ImportTyped
<1>3. ReviewTyped'
  BY <1>1 DEF CatInv, CatTyped, ReviewTyped, NoReview
<1>4. Seen' = Seen /\ SeenResorts' = SeenResorts /\ SeenResorts = resort
  BY <1>1 DEF CatInv, CatTyped, ImportTyped, Seen, SeenResorts, Over
<1>5. IsTable(Seen)
  BY SeenOK DEF CatInv
<1>6. LinkingIsOrdered'
  <2>1. /\ Len(Areas) \in Nat /\ imp'.next \in 1..Len(Areas) + 1 /\ Waiting' \subseteq Area
    BY <1>1, CatalogAssumption DEF Waiting, Area, Range
  <2>2. \A a \in Area : Seen[a].status = "linked" => resort[Seen[a].resort].stored
    BY <1>4 DEF CatInv, LinkedExist
  <2>3. \A r \in pool : IsResort(resort[r])
    BY DEF CatInv, CatTyped
  <2>4. \A r \in imp'.eligible, a \in Area : ~ Linked(Seen, a, r)
    BY <1>1 DEF Linked
  <2>5. \A a, b \in Area, r \in Resort \ raced : Linked(Seen, a, r) /\ Linked(Seen, b, r) => a = b
    BY DEF CatInv, OneArea
  <2>6. QED
    BY <1>1, <1>4, <1>5, <2>1, <2>2, <2>3, <2>4, <2>5 DEF LinkingIsOrdered, Linked
<1>7. CatTyped'
  BY <1>1, <1>2, <1>3 DEF CatInv, CatTyped
<1>8. Tidy(record)' /\ Tidy(Seen)' /\ OneArea(record)' /\ OneArea(Seen)'
  BY <1>1, <1>4 DEF CatInv, Tidy, OneArea, Linked
<1>9. LinkedExist(record, resort)' /\ LinkedExist(Seen, SeenResorts)'
  BY <1>1, <1>4 DEF CatInv, LinkedExist
<1>10. ImportKeepsReviews' /\ ReviewIsAlone'
  BY <1>1 DEF CatInv, ImportKeepsReviews, ReviewIsAlone, Resolved, Linked
<1>11. QED
  BY <1>6, <1>7, <1>8, <1>9, <1>10 DEF CatInv

LEMMA LinkEndsStep == CatInv /\ LinkEnds => CatInv'
<1> SUFFICES ASSUME CatInv, LinkEnds PROVE CatInv'
  OBVIOUS
<1>1. /\ UNCHANGED <<record, resort, rev, raced>> /\ imp'.rec = imp.rec /\ imp'.res = imp.res
      /\ imp' = [c \in DOMAIN NoImport |-> imp'[c]] /\ imp'.phase = "merge"
  BY DEF LinkEnds, CatInv, CatTyped, ImportTyped, NoImport
<1>2. QED
  BY <1>1, QuietStep

LEMMA LiftSyncStep == CatInv /\ LiftSync => CatInv'
<1> SUFFICES ASSUME CatInv, LiftSync PROVE CatInv'
  OBVIOUS
<1>1. /\ UNCHANGED <<record, resort, rev, raced>> /\ imp'.rec = imp.rec /\ imp'.res = imp.res
      /\ imp' = [c \in DOMAIN NoImport |-> imp'[c]] /\ imp'.phase = "commit"
  BY DEF LiftSync, CatInv, CatTyped, ImportTyped, NoImport
<1>2. QED
  BY <1>1, QuietStep

(* What the merge makes of the resorts that are visible. *)
LEMMA MergedOK ==
  ASSUME NEW recs, NEW rs, \A r \in Resort : IsResort(rs[r]), NEW t, NEW force
  PROVE  /\ Merged(recs, rs, t, force) = [r \in Resort |-> Merged(recs, rs, t, force)[r]]
         /\ \A r \in Resort : /\ IsResort(Merged(recs, rs, t, force)[r])
                              /\ Merged(recs, rs, t, force)[r].stored = rs[r].stored
                              /\ ~ rs[r].stored => Merged(recs, rs, t, force)[r] = rs[r]
<1>1. \A r \in Resort :
        Merged(recs, rs, t, force)[r] = IF rs[r].stored /\ (force \/ Stale(recs, r, rs[r]))
                                        THEN [ComputeMerge(recs, r, rs[r]) EXCEPT !.merged = t]
                                        ELSE rs[r]
  BY DEF Merged
<1>2. \A r \in Resort : rs[r].stored =>
        /\ IsResort([ComputeMerge(recs, r, rs[r]) EXCEPT !.merged = t])
        /\ [ComputeMerge(recs, r, rs[r]) EXCEPT !.merged = t].stored
  BY MergeOK
<1>3. \A r \in Resort : rs[r].stored \in BOOLEAN /\ \A x : IsResort(x) => x.stored \in BOOLEAN
  BY DEF IsResort
<1>4. Merged(recs, rs, t, force) = [r \in Resort |-> Merged(recs, rs, t, force)[r]]
  BY DEF Merged
<1>5. QED
  BY <1>1, <1>2, <1>3, <1>4

LEMMA MergeStaleStep == CatInv /\ MergeStale => CatInv'
<1> SUFFICES ASSUME CatInv, MergeStale PROVE CatInv'
  OBVIOUS
<1> DEFINE force == imp.opts.force /\ imp.phase = "mergeOnly"
           after == Merged(Seen, SeenResorts, now + 1, force)
<1>1. /\ UNCHANGED <<record, resort, rev, raced>> /\ imp.phase \in {"merge", "mergeOnly"}
      /\ imp'.phase \in {"sync", "commit"} /\ imp'.rec = imp.rec
      /\ imp'.res = [r \in {q \in Resort : after[q] # resort[q]} |-> after[r]]
      /\ imp' = [c \in DOMAIN NoImport |-> imp'[c]]
  BY DEF MergeStale, CatInv, CatTyped, ImportTyped, NoImport
<1>2. \A r \in Resort : /\ IsResort(after[r]) /\ after[r].stored = SeenResorts[r].stored
                        /\ ~ SeenResorts[r].stored => after[r] = SeenResorts[r]
  <2>1. \A r \in Resort : IsResort(SeenResorts[r])
    BY SeenOK DEF CatInv
  <2> HIDE DEF force
  <2>2. QED
    BY <2>1, MergedOK
<1> HIDE DEF force, after
<1>3. \A r \in Resort :
        /\ SeenResorts[r] = IF r \in DOMAIN imp.res THEN imp.res[r] ELSE resort[r]
        /\ SeenResorts[r].stored <=> r \in DOMAIN imp.res \/ resort[r].stored
        /\ resort[r].stored \in BOOLEAN
  BY SeenOK DEF CatInv, CatTyped, IsResort
<1>4. DOMAIN imp'.res = {q \in Resort : after[q] # resort[q]}
  BY <1>1 DEF after
<1>5. \A r \in Resort : after[r] # resort[r] => SeenResorts[r].stored
  BY <1>2, <1>3
<1>6. ImportTyped'
  <2>1. DOMAIN imp'.res \subseteq Resort
        /\ \A r \in DOMAIN imp'.res : IsResort(imp'.res[r]) /\ imp'.res[r].stored
    BY <1>1, <1>2, <1>4, <1>5
  <2>2. QED
    BY <1>1, <2>1 DEF CatInv, CatTyped, ImportTyped
<1>7. ReviewTyped'
  BY <1>1, <1>3, <1>4, <1>5 DEF CatInv, CatTyped, ReviewTyped, NoReview
<1>8. Seen' = Seen
  BY <1>1 DEF Seen, Over
<1>9. \A r \in Resort : SeenResorts'[r] = after[r]
  BY <1>1, <1>4 DEF SeenResorts, Over, CatInv, CatTyped, after
<1>10. LinkedExist(Seen, SeenResorts)'
  <2>1. \A a \in Area : Seen[a].status = "linked" => Seen[a].resort \in Resort
    BY SeenOK DEF CatInv, IsTable, IsRecord
  <2>2. QED
    BY <1>2, <1>8, <1>9, <2>1 DEF CatInv, LinkedExist
<1>11. QED
  BY <1>1, <1>6, <1>7, <1>8, <1>10 DEF CatInv, CatTyped, Tidy, OneArea, LinkedExist, Linked,
    ImportKeepsReviews, LinkingIsOrdered, ReviewIsAlone

LEMMA CommitStep == CatInv /\ Commit => CatInv'
<1> SUFFICES ASSUME CatInv, Commit PROVE CatInv'
  OBVIOUS
<1>1. /\ record' = Seen /\ resort' = SeenResorts /\ rev' = rev
      /\ raced' = raced \cup Overlapped
      /\ imp'.phase \in {"idle", "forced"} /\ imp'.rec = Nothing /\ imp'.res = Nothing
      /\ imp' = [c \in DOMAIN NoImport |-> imp'[c]]
  BY DEF Commit, NoImport
<1>2. /\ IsTable(Seen) /\ DOMAIN SeenResorts = Resort /\ \A r \in Resort : IsResort(SeenResorts[r])
      /\ SeenResorts = [r \in Resort |-> SeenResorts[r]]
      /\ \A r \in Resort : SeenResorts[r].stored <=> r \in DOMAIN imp.res \/ resort[r].stored
  BY SeenOK DEF CatInv, CatTyped, SeenResorts, Over
<1>3. ImportTyped'
  BY <1>1 DEF ImportTyped, Nothing
<1>4. ReviewTyped'
  BY <1>1, <1>2 DEF CatInv, CatTyped, ReviewTyped, Nothing, NoReview
<1>5. CatTyped'
  BY <1>1, <1>2, <1>3, <1>4 DEF CatTyped
<1>6. Seen' = Seen /\ SeenResorts' = SeenResorts
  <2>1. Seen' = [a \in DOMAIN Seen |-> Seen[a]]
    BY <1>1 DEF Seen, Over, Nothing
  <2>2. SeenResorts' = [r \in DOMAIN SeenResorts |-> SeenResorts[r]]
    BY <1>1 DEF SeenResorts, Over, Nothing
  <2>3. QED
    BY <1>2, <2>1, <2>2 DEF IsTable
<1>7. Tidy(record)' /\ Tidy(Seen)' /\ OneArea(record)' /\ OneArea(Seen)'
  BY <1>1, <1>6 DEF CatInv, Tidy, OneArea, Linked
<1>8. LinkedExist(record, resort)' /\ LinkedExist(Seen, SeenResorts)'
  BY <1>1, <1>6 DEF CatInv, LinkedExist
<1>9. ImportKeepsReviews' /\ LinkingIsOrdered' /\ ReviewIsAlone'
  BY <1>1 DEF ImportKeepsReviews, LinkingIsOrdered, ReviewIsAlone, Nothing, Overlapped
<1>10. QED
  BY <1>5, <1>7, <1>8, <1>9 DEF CatInv

LEMMA ForceMergeStep == CatInv /\ ForceMerge => CatInv'
<1> SUFFICES ASSUME CatInv, ForceMerge PROVE CatInv'
  OBVIOUS
<1> DEFINE force == TRUE
           after == Merged(record, resort, now + 1, force)
<1>1. /\ record' = record /\ resort' = after /\ rev' = rev /\ raced' = raced \cup Overlapped
      /\ imp'.phase = "idle" /\ imp'.rec = Nothing /\ imp'.res = Nothing
      /\ imp' = [c \in DOMAIN NoImport |-> imp'[c]]
  BY DEF ForceMerge, NoImport
<1>2. /\ after = [r \in Resort |-> after[r]]
      /\ \A r \in Resort : IsResort(after[r]) /\ after[r].stored = resort[r].stored
  <2>1. \A r \in Resort : IsResort(resort[r])
    BY DEF CatInv, CatTyped
  <2> HIDE DEF force
  <2>2. QED
    BY <2>1, MergedOK
<1> HIDE DEF force, after
<1>3. ImportTyped'
  BY <1>1 DEF ImportTyped, Nothing
<1>4. ReviewTyped'
  BY <1>1, <1>2 DEF CatInv, CatTyped, ReviewTyped, Nothing, NoReview
<1>5. CatTyped'
  BY <1>1, <1>2, <1>3, <1>4 DEF CatInv, CatTyped
<1>6. Seen' = record /\ SeenResorts' = after
  <2>1. Seen' = [a \in DOMAIN record |-> record[a]]
    BY <1>1 DEF Seen, Over, Nothing
  <2>2. SeenResorts' = [r \in DOMAIN after |-> after[r]]
    BY <1>1 DEF SeenResorts, Over, Nothing
  <2>3. QED
    BY <1>2, <2>1, <2>2 DEF CatInv, CatTyped, IsTable
<1>7. Tidy(record)' /\ Tidy(Seen)' /\ OneArea(record)' /\ OneArea(Seen)'
  BY <1>1, <1>6 DEF CatInv, Tidy, OneArea, Linked
<1>8. LinkedExist(record, resort)' /\ LinkedExist(Seen, SeenResorts)'
  <2>1. \A a \in Area : record[a].status = "linked" => record[a].resort \in Resort
    BY DEF CatInv, CatTyped, IsTable, IsRecord
  <2>2. QED
    BY <1>1, <1>2, <1>6, <2>1 DEF CatInv, LinkedExist
<1>9. ImportKeepsReviews' /\ LinkingIsOrdered' /\ ReviewIsAlone'
  BY <1>1 DEF ImportKeepsReviews, LinkingIsOrdered, ReviewIsAlone, Nothing, Overlapped
<1>10. QED
  BY <1>5, <1>7, <1>8, <1>9 DEF CatInv

(* A step of the review that commits nothing. *)
LEMMA ReviewOnlyStep ==
  ASSUME CatInv, UNCHANGED <<record, resort, imp, raced>>, ReviewTyped', ReviewIsAlone'
  PROVE  CatInv'
<1>1. ImportTyped' /\ CatTyped'
  BY DEF CatInv, CatTyped, ImportTyped
<1>2. Seen' = Seen /\ SeenResorts' = SeenResorts
  BY DEF Seen, SeenResorts, Over
<1>3. Waiting' = Waiting
  BY DEF Waiting
<1>4. LinkingIsOrdered'
  BY <1>2, <1>3 DEF CatInv, LinkingIsOrdered, Linked
<1>5. QED
  BY <1>1, <1>2, <1>4 DEF CatInv, Tidy, OneArea, LinkedExist, Linked, ImportKeepsReviews

LEMMA ReviewFailsStep == CatInv /\ ReviewFails => CatInv'
<1> SUFFICES ASSUME CatInv, ReviewFails PROVE CatInv'
  OBVIOUS
<1>1. ReviewTyped' /\ ReviewIsAlone'
  BY NewRecordOK DEF ReviewFails, ReviewTyped, ReviewIsAlone, NoReview
<1>2. QED
  BY <1>1, ReviewOnlyStep DEF ReviewFails

LEMMA ReviewReadsStep ==
  ASSUME CatInv, NEW op \in {"link", "reject", "create"}, NEW a \in Area, NEW r \in Resort \cup {Nil},
         ReviewReads(op, a, r)
  PROVE  CatInv'
<1>1. /\ rev' = [NoReview EXCEPT !.phase = "read", !.op = op, !.area = a, !.resort = r,
                   !.start = now + 1, !.row = record[a]]
      /\ record[a].status = "pending_review" /\ UNCHANGED <<record, resort, imp, raced>>
      /\ op = "link" => /\ r \in Resort /\ resort[r].stored
                        /\ \A b \in Area : ~ Linked(record, b, r)
  BY DEF ReviewReads, Linked
<1>2. IsRecord(record[a])
  BY DEF CatInv, CatTyped, IsTable
<1>3. ReviewTyped' /\ ReviewIsAlone'
  BY <1>1, <1>2 DEF ReviewTyped, ReviewIsAlone, NoReview, Linked
<1>4. QED
  BY <1>1, <1>3, ReviewOnlyStep

(* What a review writes over the record, whatever the import has made of it. *)
LEMMA FlushedOK ==
  ASSUME CatInv, rev.phase = "read", NEW row,
         IsRecord(row) \/ row = [Pending(rev.row) EXCEPT !.status = "rejected"],
         row.status \in {"linked", "rejected"}
  PROVE  /\ Flushed(row) = [c \in RecordFields |-> Flushed(row)[c]]
         /\ Flushed(row).status = row.status
         /\ row.status = "linked" => /\ Flushed(row).resort = row.resort
                                     /\ Flushed(row).method = row.method
         /\ row.status = "rejected" /\ row.resort = Nil /\ row.method = Nil =>
              /\ Flushed(row).resort = record[rev.area].resort
              /\ Flushed(row).method = record[rev.area].method
         /\ IsRecord(Flushed(row))
<1>1. /\ IsRecord(rev.row) /\ rev.row.status = "pending_review" /\ rev.area \in Area
      /\ IsRecord(record[rev.area])
  BY DEF CatInv, CatTyped, ReviewTyped, IsTable
<1>2. IsRecord(row)
  BY <1>1, PendingOK DEF IsRecord, RecordFields, NoRecord
<1>3. rev.row.resort = Nil /\ rev.row.method = Nil
  BY <1>1 DEF IsRecord
<1>4. row.status = "linked" => row.resort # Nil /\ row.method # Nil
  BY <1>2, CatalogAssumption DEF IsRecord
<1> DEFINE w == Flushed(row)
<1>5. /\ w = [c \in RecordFields |-> w[c]]
      /\ w.status = IF row.status # rev.row.status THEN row.status ELSE record[rev.area].status
      /\ w.resort = IF row.resort # rev.row.resort THEN row.resort ELSE record[rev.area].resort
      /\ w.method = IF row.method # rev.row.method THEN row.method ELSE record[rev.area].method
  BY <1>1, <1>2 DEF Flushed, IsRecord, NoRecord, RecordFields, Overwrite, Update
<1> HIDE DEF w
<1>6. /\ w.status = row.status
      /\ row.status = "linked" => w.resort = row.resort /\ w.method = row.method
  BY <1>1, <1>3, <1>4, <1>5
<1>7. IsRecord(w)
  BY <1>2, <1>5, <1>6 DEF IsRecord
<1>8. row.resort = Nil /\ row.method = Nil =>
        w.resort = record[rev.area].resort /\ w.method = record[rev.area].method
  BY <1>3, <1>5
<1>9. QED
  BY <1>5, <1>6, <1>7, <1>8 DEF w

LEMMA ReviewRejectsStep == CatInv /\ ReviewRejects => CatInv'
<1> SUFFICES ASSUME CatInv, ReviewRejects PROVE CatInv'
  OBVIOUS
<1> DEFINE row == [Pending(rev.row) EXCEPT !.status = "rejected"]
<1>1. /\ rev.phase = "read" /\ rev.op = "reject" /\ UNCHANGED <<record, resort, imp, raced>>
      /\ rev' = [rev EXCEPT !.phase = "flushed", !.row = Flushed(row)]
  BY DEF ReviewRejects
<1>2. ReviewTyped
  BY DEF CatInv, CatTyped
<1>3. row.status = "rejected" /\ row.resort = Nil /\ row.method = Nil
  BY <1>1, <1>2 DEF Pending, ReviewTyped, IsRecord, NoRecord, RecordFields
<1>4. /\ IsRecord(Flushed(row)) /\ Flushed(row).status = "rejected"
      /\ Flushed(row).resort = record[rev.area].resort
      /\ Flushed(row).method = record[rev.area].method
  BY <1>1, <1>3, FlushedOK
<1> HIDE DEF row
<1>5. ReviewTyped'
  BY <1>1, <1>2, <1>4 DEF ReviewTyped, NoReview
<1>6. record[rev.area].status = "pending_review" =>
        record[rev.area].resort = Nil /\ record[rev.area].method = Nil
  BY <1>1, <1>2 DEF CatInv, CatTyped, ReviewTyped, IsTable, IsRecord
<1>7. ReviewIsAlone'
  BY <1>1, <1>2, <1>4, <1>6 DEF CatInv, ReviewTyped, NoReview, ReviewIsAlone, Linked
<1>8. QED
  BY <1>1, <1>5, <1>7, ReviewOnlyStep

LEMMA ReviewLinksStep == CatInv /\ ReviewLinks => CatInv'
<1> SUFFICES ASSUME CatInv, ReviewLinks PROVE CatInv'
  OBVIOUS
<1> DEFINE unused == Unused(DOMAIN imp.res)
           r == IF rev.op = "link" THEN rev.resort ELSE CHOOSE q \in unused : TRUE
           loaded == IF rev.op = "link" THEN resort[r] ELSE NewResort(rev.row.payload)
           linked == LinkedTo(rev.row, r, "manual")
           row == Flushed(linked)
           recs == [record EXCEPT ![rev.area] = row]
           will == [ComputeMerge(recs, r, loaded) EXCEPT !.merged = now + 1]
<1>1. /\ rev.phase = "read" /\ rev.op # "reject" /\ (rev.op = "create" => unused # {})
      /\ rev' = [rev EXCEPT !.phase = "flushed", !.resort = r, !.row = row, !.was = loaded, !.will = will]
      /\ UNCHANGED <<record, resort, imp, raced>>
  BY DEF ReviewLinks
<1>2. ReviewTyped /\ CatTyped
  BY DEF CatInv, CatTyped
<1>3. /\ r \in Resort
      /\ rev.op = "link" => r = rev.resort /\ resort[r].stored
      /\ rev.op = "create" => ~ resort[r].stored /\ r \notin DOMAIN imp.res
  BY <1>1, <1>2 DEF ReviewTyped, Unused
<1>4. IsResort(loaded) /\ loaded.stored
  BY <1>1, <1>2, <1>3 DEF CatTyped, ReviewTyped, NewResort, IsResort, NoResort, ResortFields
<1>5. IsRecord(linked) /\ linked.status = "linked" /\ linked.resort = r
  BY <1>2, <1>3, LinkedToOK DEF ReviewTyped
<1> HIDE DEF r, loaded, linked, recs
<1>6. IsRecord(row) /\ row.status = "linked" /\ row.resort = r
  BY <1>1, <1>5, FlushedOK
<1>7. IsResort(will) /\ will.stored
  BY <1>4, MergeOK
<1> HIDE DEF row, will
<1>8. ReviewTyped'
  BY <1>1, <1>2, <1>3, <1>6, <1>7 DEF ReviewTyped, NoReview
<1>9. ReviewIsAlone'
  BY <1>1, <1>2, <1>3 DEF CatInv, ReviewTyped, NoReview, ReviewIsAlone, Linked
<1>10. QED
  BY <1>1, <1>8, <1>9, ReviewOnlyStep

LEMMA ReviewCommitsStep == CatInv /\ ReviewCommits => CatInv'
<1> SUFFICES ASSUME CatInv, ReviewCommits PROVE CatInv'
  OBVIOUS
<1> DEFINE a == rev.area
           r == rev.resort
           merged == IF rev.op = "create" THEN rev.will ELSE Overwrite(resort[r], rev.was, rev.will)
<1>1. /\ rev.phase = "flushed"
      /\ rev.op # "reject" => r \notin DOMAIN imp.res
      /\ record' = [record EXCEPT ![a] = rev.row]
      /\ resort' = IF rev.op = "reject" THEN resort ELSE [resort EXCEPT ![r] = merged]
      /\ raced' = IF imp.phase = "idle" THEN raced ELSE raced \cup {a, r}
      /\ rev' = NoReview /\ imp' = imp
  BY DEF ReviewCommits
<1>2. CatTyped /\ ReviewTyped /\ ImportTyped /\ IsTable(record)
  BY DEF CatInv, CatTyped
<1>3. /\ a \in Area /\ IsRecord(rev.row)
      /\ rev.row.status = IF rev.op = "reject" THEN "rejected" ELSE "linked"
      /\ rev.op # "reject" => r \in Resort /\ rev.row.resort = r
  BY <1>1, <1>2 DEF ReviewTyped
<1>4. rev.op # "reject" => IsResort(merged) /\ merged.stored
  <2>1. CASE rev.op = "create"
    BY <1>1, <1>2, <2>1 DEF ReviewTyped
  <2>2. CASE rev.op = "link"
    <3>1. /\ IsResort(resort[r]) /\ resort[r].stored /\ IsResort(rev.will) /\ rev.will.stored
          /\ merged = Overwrite(resort[r], rev.was, rev.will)
      BY <1>1, <1>2, <1>3, <2>2 DEF CatTyped, ReviewTyped
    <3>2. IsResort(Overwrite(resort[r], rev.was, rev.will))
          /\ Overwrite(resort[r], rev.was, rev.will).stored
      BY <3>1 DEF IsResort, ResortFields, NoResort, Overwrite
    <3>3. QED
      BY <3>1, <3>2
  <2>3. QED
    BY <1>1, <1>2, <2>1, <2>2 DEF ReviewTyped
<1> HIDE DEF merged
<1>5. /\ resort' = [q \in Resort |-> resort'[q]] /\ \A q \in Resort : IsResort(resort'[q])
      /\ \A q \in Resort : resort[q].stored => resort'[q].stored
      /\ rev.op # "reject" => resort'[r].stored
  BY <1>1, <1>2, <1>3, <1>4 DEF CatTyped
<1>6. IsTable(record)' /\ \A b \in Area : record'[b] = IF b = a THEN rev.row ELSE record[b]
  BY <1>1, <1>2, <1>3 DEF IsTable
<1>7. CatTyped'
  BY <1>1, <1>2, <1>5, <1>6, NewRecordOK DEF CatTyped, ImportTyped, ReviewTyped, NoReview
<1>8. /\ \A b \in Area : Seen[b] = IF b \in DOMAIN imp.rec THEN imp.rec[b] ELSE record[b]
      /\ \A b \in Area : Seen'[b] = IF b \in DOMAIN imp.rec THEN imp.rec[b] ELSE record'[b]
      /\ \A q \in Resort : SeenResorts[q] = IF q \in DOMAIN imp.res THEN imp.res[q] ELSE resort[q]
      /\ \A q \in Resort : SeenResorts'[q] = IF q \in DOMAIN imp.res THEN imp.res[q] ELSE resort'[q]
  BY <1>1, <1>2, <1>5, <1>6 DEF CatTyped, IsTable, Seen, SeenResorts, Over
<1>9. /\ \A q \in Resort : SeenResorts[q].stored => SeenResorts'[q].stored
      /\ rev.op # "reject" => SeenResorts'[r].stored
  BY <1>1, <1>3, <1>5, <1>8
<1>10. /\ raced \subseteq raced' /\ (imp.phase # "idle" => a \in raced' /\ r \in raced')
       /\ imp.phase = "idle" => raced' = raced /\ DOMAIN imp.rec = {}
  BY <1>1, <1>2 DEF ImportTyped
<1>11. \A b \in Area : /\ IsRecord(record[b]) /\ IsRecord(Seen[b])
                       /\ (record[b].status = "linked" => record[b].resort \in Resort)
                       /\ (Seen[b].status = "linked" => Seen[b].resort \in Resort)
  BY <1>2, SeenOK DEF IsTable, IsRecord
<1>12. Tidy(record)' /\ Tidy(Seen)'
  <2>1. a \notin raced' /\ rev.row.status # "linked" => rev.row.resort = Nil /\ rev.row.method = Nil
    BY <1>1, <1>2, <1>3, <1>10 DEF CatInv, ReviewIsAlone, ReviewTyped
  <2>2. QED
    BY <1>6, <1>8, <1>10, <2>1 DEF CatInv, Tidy
<1>14. rev.op # "reject" /\ r \notin raced' => \A b \in Area : ~ Linked(record, b, r)
  <2>1. rev.op = "create" => ~ resort[r].stored
    BY <1>1, <1>2 DEF ReviewTyped
  <2>2. QED
    BY <1>1, <1>2, <1>3, <1>10, <2>1 DEF CatInv, ReviewIsAlone, ReviewTyped, LinkedExist, Linked
<1>15. OneArea(record)'
  BY <1>3, <1>6, <1>10, <1>14 DEF CatInv, OneArea, Linked
<1>16. OneArea(Seen)'
  <2>1. CASE imp.phase = "idle"
    BY <1>8, <1>10, <1>15, <2>1 DEF OneArea, Linked
  <2>2. CASE imp.phase # "idle"
    <3>1. \A b \in Area, q \in Resort \ raced' : Linked(Seen', b, q) => Linked(Seen, b, q)
      BY <1>3, <1>6, <1>8, <1>10, <2>2 DEF Linked
    <3>2. QED
      BY <1>10, <3>1 DEF CatInv, OneArea
  <2>3. QED
    BY <2>1, <2>2
<1>17. LinkedExist(record, resort)' /\ LinkedExist(Seen, SeenResorts)'
  BY <1>3, <1>5, <1>6, <1>8, <1>9, <1>11 DEF CatInv, LinkedExist
<1>18. ImportKeepsReviews' /\ ReviewIsAlone'
  BY <1>1, <1>2, <1>6, <1>10 DEF CatInv, ImportTyped, ImportKeepsReviews, ReviewIsAlone, NoReview, Resolved
<1>19. LinkingIsOrdered'
  <2> SUFFICES ASSUME imp.phase = "linking" PROVE LinkingIsOrdered'
    BY <1>1 DEF LinkingIsOrdered
  <2>1. a \in raced' /\ r \in raced' /\ raced \subseteq raced' /\ Waiting' = Waiting
    BY <1>1, <1>10 DEF Waiting
  <2>2. \A b \in Area : Seen'[b] = Seen[b] \/ (b = a /\ Seen'[b] = rev.row)
    BY <1>6, <1>8
  <2>3. \A b \in Area, q \in Resort \ raced' : Linked(Seen', b, q) => Linked(Seen, b, q)
    BY <1>3, <2>1, <2>2 DEF Linked
  <2>4. \A b \in Area : imp.snap[b].status = "linked" => imp.snap[b].resort \in Resort
    BY DEF CatInv, LinkingIsOrdered, IsTable, IsRecord
  <2>5. Waiting \subseteq Area /\ imp.eligible \subseteq Resort
    BY CatalogAssumption DEF CatInv, LinkingIsOrdered, Waiting, Area, Range
  <2>6. \A b \in Waiting : \/ Seen'[b] = imp.snap[b]
                           \/ b \in raced' /\ Seen'[b].status \in {"linked", "rejected"}
    <3>1. \A b \in Waiting : \/ Seen[b] = imp.snap[b]
                             \/ b \in raced /\ Seen[b].status \in {"linked", "rejected"}
      BY DEF CatInv, LinkingIsOrdered
    <3>2. rev.row.status \in {"linked", "rejected"}
      BY <1>3
    <3>3. QED
      BY <2>1, <2>2, <2>5, <3>1, <3>2
  <2>7. /\ DOMAIN imp.pool \subseteq {q \in Resort : resort'[q].stored}
        /\ \A b \in Area : imp.snap[b].status = "linked" => resort'[imp.snap[b].resort].stored
    BY <1>5, <2>4 DEF CatInv, LinkingIsOrdered
  <2>8. \A q \in imp.eligible \ raced', b \in Area : ~ Linked(Seen', b, q)
    BY <2>1, <2>3, <2>5 DEF CatInv, LinkingIsOrdered
  <2>9. \A b \in Waiting, q \in Resort \ raced' :
          Linked(imp.snap, b, q) =>
            /\ q \notin imp.eligible
            /\ \A c \in Area \ {b} : ~ Linked(Seen', c, q)
            /\ \A c \in Waiting \ {b} : ~ Linked(imp.snap, c, q)
    BY <2>1, <2>3 DEF CatInv, LinkingIsOrdered
  <2>10. QED
    BY <1>1, <2>1, <2>6, <2>7, <2>8, <2>9 DEF CatInv, LinkingIsOrdered, Linked
<1>20. QED
  BY <1>7, <1>12, <1>15, <1>16, <1>17, <1>18, <1>19 DEF CatInv

-------------------------------------------------------------------------------
(* The links, record by record. *)

(* The record whose turn it is waits no longer afterwards. *)
LEMMA TurnOK ==
  ASSUME CatInv, Linking
  PROVE  /\ imp.next \in 1..Len(Areas) /\ Turn \in Area /\ Turn \in Waiting /\ Waiting \subseteq Area
         /\ IsRecord(imp.snap[Turn]) /\ IsRecord(Seen[Turn])
         /\ {Areas[i] : i \in imp.next + 1..Len(Areas)} = Waiting \ {Turn}
<1>1. Areas \in Seq(Range(Areas)) /\ \A i, j \in DOMAIN Areas : Areas[i] = Areas[j] => i = j
  BY CatalogAssumption DEF IsInjective
<1>2. Len(Areas) \in Nat /\ DOMAIN Areas = 1..Len(Areas) /\ \A i \in 1..Len(Areas) : Areas[i] \in Area
  BY <1>1 DEF Area
<1>3. imp.next \in 1..Len(Areas)
  BY <1>2 DEF CatInv, LinkingIsOrdered, Linking
<1>4. /\ Turn \in Area /\ Turn \in Waiting /\ Waiting \subseteq Area
      /\ {Areas[i] : i \in imp.next + 1..Len(Areas)} = Waiting \ {Turn}
  BY <1>1, <1>2, <1>3 DEF Turn, Waiting
<1>5. IsRecord(imp.snap[Turn]) /\ IsRecord(Seen[Turn])
  BY <1>4, SeenOK DEF CatInv, LinkingIsOrdered, Linking, IsTable
<1>6. QED
  BY <1>3, <1>4, <1>5

(* What a link writes over a record that a review may have changed since. *)
LEMMA WriteOK ==
  ASSUME NEW snap, NEW seen, NEW row, NEW w, NEW t, NEW rematch,
         IsRecord(snap), IsRecord(seen), w = Update(seen, snap, row, t),
         seen = snap \/ seen.status \in {"linked", "rejected"},
         ShouldMatch(snap, rematch), row # snap,
         \/ row = Pending(snap)
         \/ \E r \in Resort, m \in {"auto", "primary"} :
              row = LinkedTo(snap, r, m) /\ (m = "primary" => r # snap.resort)
  PROVE  /\ IsRecord(w)
         /\ row.status = "pending_review" =>
              w.status = "pending_review" /\ w.resort = Nil /\ w.method = Nil
         /\ row.status = "linked" => w.resort = row.resort /\ w.status \in {"linked", "rejected"}
         /\ row.status = "linked" /\ seen = snap => w.status = "linked"
         /\ row.status \in {"linked", "pending_review"} /\ IsRecord(row)
<1>1. snap.status = "pending_review" \/ (snap.status = "linked" /\ snap.method = "auto")
  BY DEF ShouldMatch
<1>2. IsRecord(row) /\ row.status \in {"linked", "pending_review"}
  <2>1. CASE row = Pending(snap)
    BY <2>1, PendingOK
  <2>2. CASE row # Pending(snap)
    <3>1. PICK r \in Resort, m \in {"auto", "primary"} : row = LinkedTo(snap, r, m)
      BY <2>2
    <3>2. m \in {"primary", "auto", "manual"}
      OBVIOUS
    <3>3. QED
      BY <3>1, <3>2, LinkedToOK
  <2>3. QED
    BY <2>1, <2>2
<1>3. /\ w = [c \in RecordFields |-> w[c]]
      /\ w.status = IF row.status # snap.status THEN row.status ELSE seen.status
      /\ w.resort = IF row.resort # snap.resort THEN row.resort ELSE seen.resort
      /\ w.method = IF row.method # snap.method THEN row.method ELSE seen.method
  BY <1>2 DEF IsRecord, NoRecord, RecordFields, Overwrite, Update
<1>4. CASE row = Pending(snap)
  <2>1. snap.status = "linked" /\ snap.resort # Nil /\ snap.method # Nil
    BY <1>1, <1>4, PendingOK, CatalogAssumption DEF IsRecord
  <2>2. row.status = "pending_review" /\ row.resort = Nil /\ row.method = Nil
    BY <1>4, PendingOK
  <2>3. w.status = "pending_review" /\ w.resort = Nil /\ w.method = Nil
    BY <1>3, <2>1, <2>2
  <2>4. QED
    BY <1>2, <1>3, <2>2, <2>3 DEF IsRecord
<1>5. CASE row # Pending(snap)
  <2>1. PICK r \in Resort, m \in {"auto", "primary"} :
          row = LinkedTo(snap, r, m) /\ (m = "primary" => r # snap.resort)
    BY <1>5
  <2>2. row.status = "linked" /\ row.resort = r /\ row.method = m
    BY <2>1, LinkedToOK
  <2>3. r # snap.resort
    <3>1. CASE m = "auto" /\ snap.status = "linked" /\ r = snap.resort
      BY <1>1, <2>1, <3>1, CatalogAssumption DEF LinkedTo, IsRecord, NoRecord, RecordFields
    <3>2. CASE snap.status = "pending_review"
      BY <3>2, CatalogAssumption DEF IsRecord
    <3>3. QED
      BY <1>1, <2>1, <3>1, <3>2
  <2>4. w.resort = r
    BY <1>3, <2>2, <2>3
  <2>5. CASE snap.status = "pending_review"
    <3>1. snap.method = Nil
      BY <2>5 DEF IsRecord
    <3>2. w.status = "linked" /\ w.method = m
      BY <1>3, <2>2, <2>5, <3>1, CatalogAssumption
    <3>3. QED
      BY <1>2, <1>3, <2>2, <2>4, <3>2 DEF IsRecord
  <2>6. CASE snap.status = "linked"
    <3>1. w.status = seen.status /\ seen.status \in {"linked", "rejected"}
      BY <1>3, <2>2, <2>6
    <3>2. w.method \in {m, seen.method}
      BY <1>3, <2>2
    <3>3. QED
      BY <1>2, <1>3, <2>2, <2>4, <2>6, <3>1, <3>2 DEF IsRecord
  <2>7. QED
    BY <1>1, <2>5, <2>6
<1>6. QED
  BY <1>4, <1>5

(* What the record whose turn it is may claim: a resort of which no other
   area knows, now or still to come. *)
LEMMA ClaimsOK ==
  ASSUME CatInv, Linking, ShouldMatch(imp.snap[Turn], imp.opts.rematch)
  PROVE  /\ Claims \subseteq DOMAIN imp.pool
         /\ \A r \in Claims : \/ r \in imp.eligible
                              \/ imp.snap[Turn].status = "linked" /\ imp.snap[Turn].resort = r
         /\ \A r \in Claims : r \in Resort /\ resort[r].stored
         /\ \A r \in Claims \ raced :
              /\ \A b \in Area \ {Turn} : ~ Linked(Seen, b, r)
              /\ \A b \in Waiting \ {Turn} : ~ Linked(imp.snap, b, r)
<1>1. /\ DOMAIN imp.pool \subseteq {r \in Resort : resort[r].stored}
      /\ imp.eligible \subseteq DOMAIN imp.pool
  BY DEF CatInv, LinkingIsOrdered, Linking
<1>2. Claims \subseteq DOMAIN imp.pool
  BY <1>1 DEF Claims
<1>3. IsRecord(imp.snap[Turn]) /\ Turn \in Waiting /\ Waiting \subseteq Area
  BY TurnOK
<1>4. imp.snap[Turn].status = "linked" \/ imp.snap[Turn].resort = Nil
  BY <1>3 DEF ShouldMatch, IsRecord
<1>5. \A r \in Claims : \/ r \in imp.eligible
                        \/ imp.snap[Turn].status = "linked" /\ imp.snap[Turn].resort = r
  BY <1>1, <1>4, CatalogAssumption DEF Claims
<1>6. ASSUME NEW r \in Claims \ raced
      PROVE  /\ \A b \in Area \ {Turn} : ~ Linked(Seen, b, r)
             /\ \A b \in Waiting \ {Turn} : ~ Linked(imp.snap, b, r)
  <2>1. r \in Resort
    BY <1>1, <1>2
  <2>2. CASE r \in imp.eligible
    BY <2>1, <2>2, <1>3, <1>6 DEF CatInv, LinkingIsOrdered, Linking
  <2>3. CASE imp.snap[Turn].status = "linked" /\ imp.snap[Turn].resort = r
    <3>1. Linked(imp.snap, Turn, r)
      BY <2>3 DEF Linked
    <3>2. QED
      BY <2>1, <3>1, <1>3, <1>6 DEF CatInv, LinkingIsOrdered, Linking
  <2>4. QED
    BY <1>5, <2>2, <2>3
<1>7. QED
  BY <1>1, <1>2, <1>5, <1>6

(* So does a resort that does not exist yet. *)
LEMMA FreshOK ==
  ASSUME CatInv, Linking, NEW r \in Resort, ~ SeenResorts[r].stored
  PROVE  /\ \A b \in Area : ~ Linked(Seen, b, r) /\ ~ Linked(imp.snap, b, r)
         /\ r \notin DOMAIN imp.pool
<1>1. ~ resort[r].stored
  BY SeenOK DEF CatInv
<1>2. \A b \in Area : ~ Linked(Seen, b, r)
  BY DEF CatInv, LinkedExist, Linked
<1>3. \A b \in Area : ~ Linked(imp.snap, b, r)
  BY <1>1 DEF CatInv, LinkingIsOrdered, Linking, Linked
<1>4. r \notin DOMAIN imp.pool
  BY <1>1 DEF CatInv, LinkingIsOrdered, Linking
<1>5. QED
  BY <1>2, <1>3, <1>4

(* What a flush leaves of the record whose turn it was: nothing new, or what
   the import decided, unless a review that overlapped it rejected it. *)
Decided(row, eligible, res) ==
  \/ row = imp.snap[Turn] /\ eligible = imp.eligible
  \/ /\ ShouldMatch(imp.snap[Turn], imp.opts.rematch)
     /\ row = Pending(imp.snap[Turn]) /\ eligible = Claims
  \/ /\ ShouldMatch(imp.snap[Turn], imp.opts.rematch)
     /\ \E r \in Resort, m \in {"auto", "primary"} :
          /\ row = LinkedTo(imp.snap[Turn], r, m) /\ eligible = Claims \ {r}
          /\ \/ m = "auto" /\ r \in Claims
             \/ m = "primary" /\ ~ SeenResorts[r].stored
          /\ r \in DOMAIN res \/ resort[r].stored

Stores(res) ==
  /\ DOMAIN imp.res \subseteq DOMAIN res /\ DOMAIN res \subseteq Resort
  /\ \A r \in DOMAIN res : IsResort(res[r]) /\ res[r].stored
  /\ rev.resort \in DOMAIN res => rev.resort \in DOMAIN imp.res

LEMMA FlushShape ==
  ASSUME CatInv, Linking, NEW row, NEW eligible, NEW res, Flush(row, eligible, res),
         Decided(row, eligible, res), Stores(res)
  PROVE  LET s == Seen'[Turn]
         IN /\ UNCHANGED <<record, resort, rev, raced>>
            /\ imp' = [c \in DOMAIN NoImport |-> imp'[c]]
            /\ imp'.phase = "linking" /\ imp'.next = imp.next + 1 /\ imp'.snap = imp.snap
            /\ imp'.pool = imp.pool /\ imp'.eligible = eligible /\ imp'.res = res
            /\ CatTyped' /\ IsRecord(s)
            /\ \A a \in Area \ {Turn} : Seen'[a] = Seen[a]
            /\ DOMAIN imp'.rec = IF row = imp.snap[Turn] THEN DOMAIN imp.rec
                                                         ELSE DOMAIN imp.rec \cup {Turn}
            /\ \A a \in DOMAIN imp'.rec : imp'.rec[a] = Seen'[a]
            /\ row = imp.snap[Turn] => imp'.rec = imp.rec /\ Seen'[Turn] = Seen[Turn]
            /\ row # imp.snap[Turn] =>
                 /\ ShouldMatch(imp.snap[Turn], imp.opts.rematch)
                 /\ row.status = "pending_review" =>
                      s.status = "pending_review" /\ s.resort = Nil /\ s.method = Nil
                 /\ row.status = "linked" => s.resort = row.resort /\ s.status \in {"linked", "rejected"}
                 /\ row.status = "linked" /\ Seen[Turn] = imp.snap[Turn] => s.status = "linked"
                 /\ row.status \in {"linked", "pending_review"}
            /\ \A r \in Resort : SeenResorts[r].stored => SeenResorts'[r].stored
            /\ \A r \in Resort : r \in DOMAIN res \/ resort[r].stored => SeenResorts'[r].stored
<1> DEFINE loaded == imp.snap[Turn]
           w == Update(Seen[Turn], loaded, row, imp.start)
<1>1. /\ UNCHANGED <<record, resort, rev, raced>>
      /\ imp' = [c \in DOMAIN NoImport |-> imp'[c]]
      /\ imp'.phase = "linking" /\ imp'.next = imp.next + 1 /\ imp'.snap = imp.snap
      /\ imp'.pool = imp.pool /\ imp'.eligible = eligible /\ imp'.res = res
      /\ imp'.rec = IF row = loaded THEN imp.rec ELSE Put(imp.rec, Turn, w)
  BY DEF Flush, CatInv, CatTyped, ImportTyped, NoImport, Linking
<1>2. /\ Turn \in Area /\ Turn \in Waiting /\ IsRecord(loaded) /\ IsRecord(Seen[Turn])
  BY TurnOK
<1>3. Seen[Turn] = loaded \/ Seen[Turn].status \in {"linked", "rejected"}
  BY <1>2 DEF CatInv, LinkingIsOrdered, Linking
<1>4. row # loaded =>
        /\ ShouldMatch(loaded, imp.opts.rematch)
        /\ \/ row = Pending(loaded)
           \/ \E r \in Resort, m \in {"auto", "primary"} :
                row = LinkedTo(loaded, r, m) /\ (m = "primary" => r # loaded.resort)
  <2> SUFFICES ASSUME row # loaded
               PROVE  /\ ShouldMatch(loaded, imp.opts.rematch)
                      /\ \/ row = Pending(loaded)
                         \/ \E r \in Resort, m \in {"auto", "primary"} :
                              row = LinkedTo(loaded, r, m) /\ (m = "primary" => r # loaded.resort)
    OBVIOUS
  <2>1. ShouldMatch(loaded, imp.opts.rematch)
    BY DEF Decided
  <2>2. CASE row = Pending(loaded)
    BY <2>1, <2>2
  <2>3. CASE row # Pending(loaded)
    <3>1. PICK r \in Resort, m \in {"auto", "primary"} :
            row = LinkedTo(loaded, r, m) /\ (m = "primary" => ~ SeenResorts[r].stored)
      BY <2>3 DEF Decided
    <3>2. m = "primary" => r # loaded.resort
      BY <1>2, <2>1, <3>1, FreshOK, CatalogAssumption DEF ShouldMatch, IsRecord, Linked
    <3>3. QED
      BY <2>1, <3>1, <3>2
  <2>4. QED
    BY <2>2, <2>3
<1>5. row # loaded =>
        /\ IsRecord(w)
        /\ row.status = "pending_review" =>
             w.status = "pending_review" /\ w.resort = Nil /\ w.method = Nil
        /\ row.status = "linked" => w.resort = row.resort /\ w.status \in {"linked", "rejected"}
        /\ row.status = "linked" /\ Seen[Turn] = loaded => w.status = "linked"
        /\ row.status \in {"linked", "pending_review"}
  <2> SUFFICES ASSUME row # loaded
               PROVE  /\ IsRecord(w)
                      /\ row.status = "pending_review" =>
                           w.status = "pending_review" /\ w.resort = Nil /\ w.method = Nil
                      /\ row.status = "linked" =>
                           w.resort = row.resort /\ w.status \in {"linked", "rejected"}
                      /\ row.status = "linked" /\ Seen[Turn] = loaded => w.status = "linked"
                      /\ row.status \in {"linked", "pending_review"}
    OBVIOUS
  <2>1. w = Update(Seen[Turn], loaded, row, imp.start)
    OBVIOUS
  <2> HIDE DEF w
  <2>2. QED
    BY <1>2, <1>3, <1>4, <2>1, WriteOK
<1> HIDE DEF w
<1>6. /\ DOMAIN imp'.rec = IF row = loaded THEN DOMAIN imp.rec ELSE DOMAIN imp.rec \cup {Turn}
      /\ row = loaded => imp'.rec = imp.rec
      /\ row # loaded => \A a \in DOMAIN imp'.rec : imp'.rec[a] = IF a = Turn THEN w ELSE imp.rec[a]
  BY <1>1 DEF Put
<1>7. ImportTyped'
  <2>1. /\ DOMAIN imp.rec \subseteq Area /\ \A a \in DOMAIN imp.rec : IsRecord(imp.rec[a])
    BY DEF CatInv, CatTyped, ImportTyped
  <2>2. /\ DOMAIN imp'.rec \subseteq Area /\ \A a \in DOMAIN imp'.rec : IsRecord(imp'.rec[a])
    BY <1>2, <1>5, <1>6, <2>1
  <2>3. QED
    BY <1>1, <2>2 DEF ImportTyped, Stores
<1>8. CatTyped'
  <2>1. ReviewTyped'
    BY <1>1 DEF CatInv, CatTyped, ReviewTyped, NoReview, Stores
  <2>2. QED
    BY <1>1, <1>7, <2>1 DEF CatInv, CatTyped
<1>9. /\ \A a \in Area : Seen[a] = IF a \in DOMAIN imp.rec THEN imp.rec[a] ELSE record[a]
      /\ \A a \in Area : Seen'[a] = IF a \in DOMAIN imp'.rec THEN imp'.rec[a] ELSE record[a]
      /\ \A r \in Resort : SeenResorts[r].stored <=> r \in DOMAIN imp.res \/ resort[r].stored
      /\ \A r \in Resort : SeenResorts'[r].stored <=> r \in DOMAIN res \/ resort[r].stored
  <2>1. CatTyped
    BY DEF CatInv
  <2>2. /\ \A a \in Area : Seen[a] = IF a \in DOMAIN imp.rec THEN imp.rec[a] ELSE record[a]
        /\ \A r \in Resort : SeenResorts[r].stored <=> r \in DOMAIN imp.res \/ resort[r].stored
    BY <2>1, SeenOK
  <2>3. /\ \A a \in Area : Seen'[a] = IF a \in DOMAIN imp'.rec THEN imp'.rec[a] ELSE record'[a]
    BY <1>8 DEF CatTyped, IsTable, Seen, Over
  <2>4. /\ \A r \in Resort : SeenResorts'[r].stored <=> r \in DOMAIN imp'.res \/ resort'[r].stored
    BY <1>8 DEF CatTyped, ImportTyped, SeenResorts, Over, IsResort
  <2>5. QED
    BY <1>1, <2>2, <2>3, <2>4
<1>10. /\ \A a \in Area \ {Turn} : Seen'[a] = Seen[a]
       /\ row = loaded => Seen'[Turn] = Seen[Turn]
       /\ row # loaded => Seen'[Turn] = w
  BY <1>2, <1>6, <1>9
<1>11. IsRecord(Seen'[Turn])
  BY <1>2, <1>5, <1>10
<1>12. \A a \in DOMAIN imp'.rec : imp'.rec[a] = Seen'[a]
  BY <1>7, <1>9 DEF ImportTyped
<1>13. QED
  BY <1>1, <1>4, <1>5, <1>6, <1>8, <1>9, <1>10, <1>11, <1>12 DEF Stores

LEMMA FlushStep ==
  ASSUME CatInv, Linking, NEW row, NEW eligible, NEW res, Flush(row, eligible, res),
         Decided(row, eligible, res), Stores(res)
  PROVE  CatInv'
<1> DEFINE loaded == imp.snap[Turn]
           s == Seen'[Turn]
<1>1. /\ UNCHANGED <<record, resort, rev, raced>>
      /\ imp'.phase = "linking" /\ imp'.next = imp.next + 1 /\ imp'.snap = imp.snap
      /\ imp'.pool = imp.pool /\ imp'.eligible = eligible /\ imp'.res = res
      /\ CatTyped' /\ IsRecord(s)
      /\ \A a \in Area \ {Turn} : Seen'[a] = Seen[a]
  BY FlushShape
<1>2. /\ DOMAIN imp'.rec = IF row = loaded THEN DOMAIN imp.rec ELSE DOMAIN imp.rec \cup {Turn}
      /\ \A a \in DOMAIN imp'.rec : imp'.rec[a] = Seen'[a]
      /\ row = loaded => imp'.rec = imp.rec /\ Seen'[Turn] = Seen[Turn]
  BY FlushShape
<1>3. row # loaded =>
        /\ ShouldMatch(loaded, imp.opts.rematch)
        /\ row.status = "pending_review" =>
             s.status = "pending_review" /\ s.resort = Nil /\ s.method = Nil
        /\ row.status = "linked" => s.resort = row.resort /\ s.status \in {"linked", "rejected"}
        /\ row.status = "linked" /\ Seen[Turn] = loaded => s.status = "linked"
        /\ row.status \in {"linked", "pending_review"}
  BY FlushShape
<1>4. /\ \A r \in Resort : SeenResorts[r].stored => SeenResorts'[r].stored
      /\ \A r \in Resort : r \in DOMAIN res \/ resort[r].stored => SeenResorts'[r].stored
  BY FlushShape
<1>5. /\ Turn \in Area /\ Turn \in Waiting /\ Waiting \subseteq Area /\ imp.next \in 1..Len(Areas)
      /\ IsRecord(loaded) /\ IsRecord(Seen[Turn])
      /\ {Areas[i] : i \in imp.next + 1..Len(Areas)} = Waiting \ {Turn}
  BY TurnOK
<1>6. Seen[Turn] = loaded \/ (Turn \in raced /\ Seen[Turn].status \in {"linked", "rejected"})
  BY <1>5 DEF CatInv, LinkingIsOrdered, Linking
<1>7. ShouldMatch(loaded, imp.opts.rematch) =>
        \/ loaded.status = "pending_review" /\ loaded.resort = Nil /\ loaded.method = Nil
        \/ loaded.status = "linked" /\ loaded.method = "auto"
  BY <1>5 DEF ShouldMatch, IsRecord
<1> HIDE DEF loaded, s
<1>8. ASSUME NEW q \in Resort, row # loaded, Linked(Seen', Turn, q)
      PROVE  /\ q \notin eligible /\ SeenResorts'[q].stored
             /\ q \notin raced => /\ \A b \in Area \ {Turn} : ~ Linked(Seen, b, q)
                                  /\ \A b \in Waiting \ {Turn} : ~ Linked(imp.snap, b, q)
  <2>1. ShouldMatch(loaded, imp.opts.rematch) /\ row.status = "linked" /\ row.resort = q
    BY <1>3, <1>8 DEF Linked, s
  <2>2. row # Pending(loaded)
    BY <1>5, <2>1, PendingOK
  <2>3. PICK r \in Resort, m \in {"auto", "primary"} :
          /\ row = LinkedTo(loaded, r, m) /\ eligible = Claims \ {r}
          /\ \/ m = "auto" /\ r \in Claims
             \/ m = "primary" /\ ~ SeenResorts[r].stored
          /\ r \in DOMAIN res \/ resort[r].stored
    BY <1>8, <2>2 DEF Decided, loaded
  <2>4. r = q
    <3>1. IsRecord(loaded)
      BY <1>5
    <3>2. LinkedTo(loaded, r, m).resort = r
      BY <3>1 DEF LinkedTo, IsRecord, NoRecord, RecordFields
    <3>3. QED
      BY <2>1, <2>3, <3>2
  <2>5. q \notin raced => /\ \A b \in Area \ {Turn} : ~ Linked(Seen, b, q)
                          /\ \A b \in Waiting \ {Turn} : ~ Linked(imp.snap, b, q)
    BY <1>5, <2>1, <2>3, <2>4, ClaimsOK, FreshOK DEF loaded
  <2>6. QED
    BY <1>4, <2>3, <2>4, <2>5
<1>9. Tidy(record)' /\ OneArea(record)' /\ LinkedExist(record, resort)'
  BY <1>1 DEF CatInv, Tidy, OneArea, LinkedExist, Linked
<1>10. Tidy(Seen)'
  <2>1. Turn \notin raced /\ s.status # "linked" => s.resort = Nil /\ s.method = Nil
    <3>1. CASE row = loaded
      BY <1>2, <1>5, <3>1 DEF CatInv, Tidy, s
    <3>2. CASE row # loaded
      BY <1>3, <1>6, <3>2
    <3>3. QED
      BY <3>1, <3>2
  <2>2. QED
    BY <1>1, <2>1 DEF CatInv, Tidy, s
<1>11. OneArea(Seen)'
  <2>1. CASE row = loaded
    BY <1>1, <1>2, <2>1 DEF CatInv, OneArea, Linked
  <2>2. CASE row # loaded
    <3>1. \A q \in Resort \ raced : Linked(Seen', Turn, q) => \A b \in Area \ {Turn} : ~ Linked(Seen', b, q)
      BY <1>1, <1>8, <2>2 DEF Linked
    <3>2. \A b, c \in Area \ {Turn}, q \in Resort \ raced :
            Linked(Seen', b, q) /\ Linked(Seen', c, q) => b = c
      BY <1>1 DEF CatInv, OneArea, Linked
    <3>3. QED
      BY <1>1, <3>1, <3>2 DEF OneArea, Linked
  <2>3. QED
    BY <2>1, <2>2
<1>12. LinkedExist(Seen, SeenResorts)'
  <2>1. \A a \in Area : Seen[a].status = "linked" =>
          Seen[a].resort \in Resort /\ SeenResorts[Seen[a].resort].stored
    BY SeenOK DEF CatInv, IsTable, IsRecord, LinkedExist
  <2>2. s.status = "linked" => SeenResorts'[s.resort].stored
    <3>1. CASE row = loaded
      BY <1>2, <1>4, <1>5, <2>1, <3>1 DEF s
    <3>2. CASE row # loaded
      BY <1>1, <1>8, <3>2 DEF s, Linked, IsRecord
    <3>3. QED
      BY <3>1, <3>2
  <2>3. QED
    BY <1>1, <1>4, <2>1, <2>2 DEF LinkedExist, s
<1>13. ImportKeepsReviews'
  <2>1. row # loaded /\ Turn \notin raced => ~ Resolved(record[Turn])
    <3> SUFFICES ASSUME row # loaded, Turn \notin raced PROVE ~ Resolved(record[Turn])
      OBVIOUS
    <3>1. Seen[Turn] = loaded /\ ~ Resolved(loaded)
      BY <1>3, <1>6, <1>7, CatalogAssumption DEF Resolved
    <3>2. Seen[Turn] = IF Turn \in DOMAIN imp.rec THEN imp.rec[Turn] ELSE record[Turn]
      BY <1>5, SeenOK DEF CatInv
    <3>3. QED
      BY <3>1, <3>2 DEF CatInv, ImportKeepsReviews, Resolved
  <2>2. \A a \in DOMAIN imp.rec \ {Turn} : imp'.rec[a] = imp.rec[a]
    BY <1>1, <1>2, SeenOK DEF CatInv, CatTyped, ImportTyped
  <2>3. CASE row = loaded
    BY <1>1, <1>2, <2>3 DEF CatInv, ImportKeepsReviews, Resolved
  <2>4. CASE row # loaded
    BY <1>1, <1>2, <2>1, <2>2, <2>4 DEF CatInv, ImportKeepsReviews, Resolved
  <2>5. QED
    BY <2>3, <2>4
<1>14. ReviewIsAlone'
  BY <1>1 DEF CatInv, ReviewIsAlone, Linked
<1>15. LinkingIsOrdered'
  <2>1. Waiting' = Waiting \ {Turn} /\ imp'.next \in 1..Len(Areas) + 1
    <3>1. Len(Areas) \in Nat
      BY CatalogAssumption
    <3>2. imp'.next \in 1..Len(Areas) + 1
      BY <1>1, <1>5, <3>1
    <3>3. Waiting' = {Areas[i] : i \in imp.next + 1..Len(Areas)}
      BY <1>1 DEF Waiting
    <3>4. QED
      BY <1>5, <3>2, <3>3
  <2>2. /\ eligible \subseteq DOMAIN imp.pool /\ eligible \subseteq imp.eligible \cup Claims
        /\ eligible = imp.eligible \/ ShouldMatch(loaded, imp.opts.rematch)
    BY ClaimsOK DEF Decided, loaded, CatInv, LinkingIsOrdered, Linking
  <2>3. \A r \in eligible \ raced, a \in Area \ {Turn} : ~ Linked(Seen, a, r)
    BY <1>5, <2>2, ClaimsOK DEF CatInv, LinkingIsOrdered, Linking, loaded
  <2>4. \A r \in eligible \ raced : ~ Linked(Seen', Turn, r)
    <3> SUFFICES ASSUME NEW r \in eligible \ raced, Linked(Seen', Turn, r) PROVE FALSE
      OBVIOUS
    <3>1. r \in Resort
      BY <2>2 DEF CatInv, LinkingIsOrdered, Linking
    <3>2. CASE row # loaded
      BY <1>8, <3>1, <3>2
    <3>3. CASE row = loaded
      <4>1. Linked(Seen, Turn, r) /\ r \notin imp.eligible
        BY <1>2, <1>5, <3>3 DEF Linked, CatInv, LinkingIsOrdered, Linking
      <4>2. ShouldMatch(loaded, imp.opts.rematch) /\ loaded.status = "linked" /\ loaded.resort = r
        BY <2>2, <4>1, ClaimsOK DEF loaded
      <4>3. loaded # Pending(loaded)
        BY <1>5, <4>2, PendingOK
      <4>4. PICK q \in Resort, m \in {"auto", "primary"} :
              row = LinkedTo(loaded, q, m) /\ eligible = Claims \ {q}
        BY <2>2, <3>3, <4>1, <4>3 DEF Decided, loaded
      <4>5. q = r
        <5>1. m \in {"primary", "auto", "manual"}
          OBVIOUS
        <5>2. LinkedTo(loaded, q, m).resort = q
          BY <1>5, <5>1, LinkedToOK
        <5>3. QED
          BY <3>3, <4>2, <4>4, <5>2
      <4>6. QED
        BY <4>4, <4>5
    <3>4. QED
      BY <3>2, <3>3
  <2>5. \A r \in eligible \ raced, a \in Area : ~ Linked(Seen', a, r)
    BY <1>1, <2>3, <2>4 DEF Linked
  <2>6. ASSUME NEW a \in Waiting \ {Turn}, NEW r \in Resort \ raced, Linked(imp.snap, a, r)
        PROVE  /\ r \notin eligible
               /\ \A b \in Area \ {a} : ~ Linked(Seen', b, r)
               /\ \A b \in (Waiting \ {Turn}) \ {a} : ~ Linked(imp.snap, b, r)
    <3>1. /\ r \notin imp.eligible
          /\ \A b \in Area \ {a} : ~ Linked(Seen, b, r)
          /\ \A b \in Waiting \ {a} : ~ Linked(imp.snap, b, r)
      BY <2>6 DEF CatInv, LinkingIsOrdered, Linking
    <3>2. r \notin eligible
      BY <1>5, <2>2, <2>6, <3>1, ClaimsOK DEF loaded
    <3>3. ~ Linked(Seen', Turn, r)
      <4>1. CASE row = loaded
        BY <1>2, <1>5, <2>6, <3>1, <4>1 DEF Linked
      <4>2. CASE row # loaded
        BY <1>8, <2>6, <4>2
      <4>3. QED
        BY <4>1, <4>2
    <3>4. QED
      BY <1>1, <3>1, <3>2, <3>3 DEF Linked
  <2>7. \A a \in Waiting' : \/ Seen'[a] = imp.snap[a]
                            \/ a \in raced /\ Seen'[a].status \in {"linked", "rejected"}
    BY <1>1, <1>5, <2>1 DEF CatInv, LinkingIsOrdered, Linking
  <2>8. QED
    BY <1>1, <2>1, <2>2, <2>5, <2>6, <2>7 DEF CatInv, LinkingIsOrdered, Linking, Linked
<1>16. QED
  BY <1>1, <1>9, <1>10, <1>11, <1>12, <1>13, <1>14, <1>15 DEF CatInv

LEMMA StoresOK == CatInv => Stores(imp.res)
  BY DEF CatInv, CatTyped, ImportTyped, Stores

LEMMA LinkStepOK == CatInv /\ LinkStep => CatInv'
<1> SUFFICES ASSUME CatInv, LinkStep PROVE CatInv'
  OBVIOUS
<1> DEFINE loaded == imp.snap[Turn]
<1>1. CASE LinkSkips
  <2>1. Linking /\ Flush(loaded, imp.eligible, imp.res)
    BY <1>1 DEF LinkSkips
  <2>2. Decided(loaded, imp.eligible, imp.res)
    BY DEF Decided
  <2>3. QED
    BY <2>1, <2>2, StoresOK, FlushStep
<1>2. CASE LinkAuto
  <2> DEFINE r == Decision.resort
             row == LinkedTo(loaded, r, "auto")
             eligible == Claims \ {r}
  <2>1. /\ Linking /\ Flush(row, eligible, imp.res)
        /\ ShouldMatch(loaded, imp.opts.rematch) /\ Decision.kind = "auto"
    BY <1>2 DEF LinkAuto, Matches, LeftToClaim
  <2>2. r \in Claims
    BY <2>1, MatchResortOK DEF Decision
  <2>3. r \in Resort /\ resort[r].stored
    BY <2>1, <2>2, ClaimsOK
  <2> HIDE DEF r
  <2>4. Decided(row, eligible, imp.res)
    BY <2>1, <2>2, <2>3 DEF Decided
  <2> HIDE DEF row, eligible
  <2>5. QED
    BY <2>1, <2>4, StoresOK, FlushStep
<1>3. CASE LinkPrimary
  <2> DEFINE unused == Unused(DOMAIN imp.res \cup {rev.resort})
             r == CHOOSE q \in unused : TRUE
             row == LinkedTo(loaded, r, "primary")
             new == NewResort(loaded.payload)
             res == Put(imp.res, r, new)
  <2>1. /\ Linking /\ unused # {} /\ Flush(row, Claims, res)
        /\ ShouldMatch(loaded, imp.opts.rematch)
    BY <1>3 DEF LinkPrimary, Matches
  <2>2. /\ r \in Resort /\ ~ resort[r].stored /\ r \notin DOMAIN imp.res /\ r # rev.resort
        /\ ~ SeenResorts[r].stored
    <3>1. r \in unused
      BY <2>1
    <3>2. r \in Resort /\ ~ resort[r].stored /\ r \notin DOMAIN imp.res /\ r # rev.resort
      BY <3>1 DEF Unused
    <3>3. QED
      BY <3>2, SeenOK DEF CatInv
  <2> HIDE DEF r
  <2>3. IsResort(new) /\ new.stored
    BY DEF NewResort, IsResort, NoResort, ResortFields
  <2> HIDE DEF new
  <2>4. Stores(res)
    <3>1. DOMAIN res = DOMAIN imp.res \cup {r} /\ res[r] = new
          /\ \A q \in DOMAIN imp.res : res[q] = imp.res[q]
      BY <2>2 DEF Put
    <3> HIDE DEF res
    <3>2. QED
      BY <2>2, <2>3, <3>1, StoresOK DEF Stores
  <2>5. Claims = Claims \ {r}
    BY <2>1, <2>2, FreshOK, ClaimsOK
  <2>6. r \in DOMAIN res
    BY DEF Put
  <2> HIDE DEF res
  <2>7. Decided(row, Claims, res)
    BY <2>1, <2>2, <2>5, <2>6 DEF Decided
  <2> HIDE DEF row
  <2>8. QED
    BY <2>1, <2>4, <2>7, FlushStep
<1>4. CASE LinkPending
  <2>1. /\ Linking /\ Flush(Pending(loaded), Claims, imp.res)
        /\ ShouldMatch(loaded, imp.opts.rematch)
    BY <1>4 DEF LinkPending, Matches
  <2>2. Decided(Pending(loaded), Claims, imp.res)
    BY <2>1 DEF Decided
  <2>3. QED
    BY <2>1, <2>2, StoresOK, FlushStep
<1>5. CASE LinkEnds
  BY <1>5, LinkEndsStep
<1>6. QED
  BY <1>1, <1>2, <1>3, <1>4, <1>5 DEF LinkStep

-------------------------------------------------------------------------------

LEMMA CatStep == CatInv /\ [Next]_vars => CatInv'
<1> SUFFICES ASSUME CatInv, [Next]_vars PROVE CatInv'
  OBVIOUS
<1>1. ASSUME NEW opts, NEW s, NEW ls, Begin(opts, s, ls) \/ BeginMergeOnly(opts) PROVE CatInv'
  BY <1>1, BeginStep
<1>2. CASE Upsert \/ LinkRead \/ LinkStep
  BY <1>2, UpsertStep, LinkReadStep, LinkStepOK
<1>3. CASE MergeStale \/ LiftSync \/ Commit \/ ForceMerge \/ RollBack
  BY <1>3, MergeStaleStep, LiftSyncStep, CommitStep, ForceMergeStep, RollBackStep
<1>4. ASSUME NEW op \in {"link", "reject", "create"}, NEW a \in Area, NEW r \in Resort \cup {Nil},
             ReviewReads(op, a, r)
      PROVE  CatInv'
  BY <1>4, ReviewReadsStep
<1>5. CASE ReviewRejects \/ ReviewLinks \/ ReviewCommits \/ ReviewFails
  BY <1>5, ReviewRejectsStep, ReviewLinksStep, ReviewCommitsStep, ReviewFailsStep
<1>6. CASE UNCHANGED vars
  <2>1. UNCHANGED <<record, resort, imp, rev, raced>>
    BY <1>6 DEF vars
  <2>2. Seen' = Seen /\ SeenResorts' = SeenResorts /\ Waiting' = Waiting
    BY <2>1 DEF Seen, SeenResorts, Over, Waiting
  <2>3. CatTyped'
    BY <2>1 DEF CatInv, CatTyped, ImportTyped, ReviewTyped
  <2>4. Tidy(record)' /\ Tidy(Seen)' /\ OneArea(record)' /\ OneArea(Seen)'
    BY <2>1, <2>2 DEF CatInv, Tidy, OneArea, Linked
  <2>5. LinkedExist(record, resort)' /\ LinkedExist(Seen, SeenResorts)'
    BY <2>1, <2>2 DEF CatInv, LinkedExist
  <2>6. ImportKeepsReviews' /\ ReviewIsAlone'
    BY <2>1 DEF CatInv, ImportKeepsReviews, Resolved, ReviewIsAlone, Linked
  <2>7. LinkingIsOrdered'
    BY <2>1, <2>2 DEF CatInv, LinkingIsOrdered, Linked
  <2>8. QED
    BY <2>3, <2>4, <2>5, <2>6, <2>7 DEF CatInv
<1>7. QED
  BY <1>1, <1>2, <1>3, <1>4, <1>5, <1>6 DEF Next

-------------------------------------------------------------------------------
(* The merge. *)

(* Two tables give a resort the same records to merge. *)
Agree(recs, other, r) ==
  \A a \in Area :
    /\ Linked(recs, a, r) <=> Linked(other, a, r)
    /\ Linked(recs, a, r) => /\ recs[a].payload = other[a].payload
                             /\ recs[a].missing = other[a].missing

LEMMA SameMerge ==
  ASSUME NEW recs, NEW other, NEW r, Agree(recs, other, r), NEW row
  PROVE  ComputeMerge(recs, r, row) = ComputeMerge(other, r, row)
<1>1. \A i \in 1..Len(Areas) : Areas[i] \in Area
  BY CatalogAssumption DEF Area
<1>2. Said(recs, r) = Said(other, r)
  BY <1>1 DEF Said, Agree
<1>3. Views(recs, r) = Views(other, r)
  BY <1>2 DEF Views
<1>4. (\E a \in Area : Linked(recs, a, r) /\ ~ recs[a].missing)
      <=> (\E a \in Area : Linked(other, a, r) /\ ~ other[a].missing)
  BY DEF Agree
<1>5. QED
  BY <1>3, <1>4 DEF ComputeMerge

LEMMA SameCurrent ==
  ASSUME NEW recs, NEW other, NEW r, Agree(recs, other, r), NEW row, Current(other, r, row)
  PROVE  Current(recs, r, row)
  BY SameMerge DEF Current

(* Merging again changes nothing: what the merge has just written is current. *)
Fresh(recs, r, row, t) == [ComputeMerge(recs, r, row) EXCEPT !.merged = t]

LEMMA MergeIsCurrent ==
  ASSUME NEW recs, NEW r, NEW row, IsResort(row), NEW t
  PROVE  Current(recs, r, Fresh(recs, r, row, t)) /\ Fresh(recs, r, row, t).merged = t
<1> DEFINE face == Pick(Views(recs, r), row.face)
           names == Range(Views(recs, r)) \cup {face}
           active == \/ r \in Legacy
                     \/ \E a \in Area : Linked(recs, a, r) /\ ~ recs[a].missing
<1>1. Pick(Views(recs, r), face) = face
  BY DEF Pick
<1>2. Fresh(recs, r, row, t) = [row EXCEPT !.face = face, !.names = names, !.active = active, !.merged = t]
  BY DEF Fresh, ComputeMerge, IsResort, ResortFields, NoResort
<1>3. \A again : ComputeMerge(recs, r, again) =
        [again EXCEPT !.face = Pick(Views(recs, r), again.face),
                      !.names = Range(Views(recs, r)) \cup {Pick(Views(recs, r), again.face)},
                      !.active = active]
  BY DEF ComputeMerge
<1>4. names = Range(Views(recs, r)) \cup {Pick(Views(recs, r), face)}
  BY <1>1
<1> HIDE DEF face, names, active
<1> DEFINE again == Fresh(recs, r, row, t)
<1>5. /\ again = [c \in ResortFields |-> again[c]]
      /\ again.face = face /\ again.names = names /\ again.active = active /\ again.merged = t
  BY <1>2 DEF IsResort, ResortFields, NoResort
<1> HIDE DEF again
<1>6. ComputeMerge(recs, r, again) = [again EXCEPT !.face = face, !.names = names, !.active = active]
  BY <1>1, <1>3, <1>4, <1>5
<1>7. [again EXCEPT !.face = face, !.names = names, !.active = active] = again
  BY <1>5 DEF ResortFields, NoResort
<1>8. QED
  BY <1>5, <1>6, <1>7 DEF Current, again

LEMMA MergedIs ==
  ASSUME NEW recs, NEW rs, NEW t, NEW force, NEW r \in Resort
  PROVE  \/ Merged(recs, rs, t, force)[r] = Fresh(recs, r, rs[r], t)
         \/ /\ Merged(recs, rs, t, force)[r] = rs[r]
            /\ rs[r].stored => ~ force /\ ~ Stale(recs, r, rs[r])
  BY DEF Merged, Fresh

LEMMA MergeInit == Init => MergeInv
<1> SUFFICES ASSUME Init PROVE MergeInv
  OBVIOUS
<1> USE DEF Init
<1>1. \A r \in Resort : resort[r].merged = Never
  BY DEF NewResort, NoResort
<1>2. MergedIsCurrent
  BY <1>1 DEF MergedIsCurrent, Current
<1>3. DatesInOrder
  BY <1>1 DEF DatesInOrder, NoImport, NoReview, Nothing, Never, Importing
<1>4. ImportIsDated /\ ImportIsCurrent /\ ReviewIsCurrent
  BY DEF ImportIsDated, ImportIsCurrent, ReviewIsCurrent, NoImport, NoReview, Nothing, Importing
<1>5. QED
  BY <1>2, <1>3, <1>4 DEF MergeInv

(* An import begins, or is rolled back. *)
LEMMA MergeBegin ==
  ASSUME CatInv, MergeInv, NEW opts, NEW payload, NEW carried,
         Begin(opts, payload, carried) \/ BeginMergeOnly(opts)
  PROVE  MergeInv'
<1>1. /\ UNCHANGED <<record, resort, rev, left, raced>> /\ now' = now + 1
      /\ imp'.phase \in {"upsert", "mergeOnly"} /\ imp'.start = now + 1
      /\ imp'.rec = Nothing /\ imp'.res = Nothing
  BY DEF Begin, BeginMergeOnly, NoImport
<1>2. DatesInOrder'
  BY <1>1 DEF MergeInv, DatesInOrder, Importing, Nothing
<1>3. ImportIsDated' /\ ImportIsCurrent'
  BY <1>1 DEF ImportIsDated, ImportIsCurrent, Nothing
<1>4. MergedIsCurrent' /\ ReviewIsCurrent'
  BY <1>1 DEF MergeInv, MergedIsCurrent, Raced, ReviewIsCurrent, Current
<1>5. QED
  BY <1>2, <1>3, <1>4 DEF MergeInv

LEMMA MergeRollBack == CatInv /\ MergeInv /\ RollBack => MergeInv'
<1> SUFFICES ASSUME CatInv, MergeInv, RollBack PROVE MergeInv'
  OBVIOUS
<1>1. /\ UNCHANGED <<record, resort, rev, left, raced, now>>
      /\ imp'.phase = "idle" /\ DOMAIN imp'.res = {}
  BY DEF RollBack, NoImport, Nothing
<1>2. DatesInOrder' /\ ImportIsDated' /\ ImportIsCurrent'
  BY <1>1 DEF MergeInv, DatesInOrder, ImportIsDated, ImportIsCurrent, Importing
<1>3. MergedIsCurrent' /\ ReviewIsCurrent'
  BY <1>1 DEF MergeInv, MergedIsCurrent, Raced, ReviewIsCurrent, Current
<1>4. QED
  BY <1>2, <1>3 DEF MergeInv

(* A step of the import up to the merge: what it writes is dated. *)
LEMMA MergeWrites ==
  ASSUME MergeInv, UNCHANGED <<record, resort, rev, left, raced, now>>,
         imp.phase \in Importing, imp'.phase \in Importing, imp'.start = imp.start,
         \A a \in DOMAIN imp'.rec :
           (a \in DOMAIN imp.rec /\ imp'.rec[a] = imp.rec[a]) \/ imp'.rec[a].upd = imp.start,
         \A r \in DOMAIN imp'.res :
           (r \in DOMAIN imp.res /\ imp'.res[r] = imp.res[r]) \/ imp'.res[r].merged = Never
  PROVE  MergeInv'
<1>1. DatesInOrder'
  BY DEF MergeInv, DatesInOrder, Never
<1>2. ImportIsDated'
  BY DEF MergeInv, ImportIsDated
<1>3. ImportIsCurrent'
  BY DEF ImportIsCurrent, Importing
<1>4. MergedIsCurrent' /\ ReviewIsCurrent'
  BY DEF MergeInv, MergedIsCurrent, Raced, ReviewIsCurrent, Current
<1>5. QED
  BY <1>1, <1>2, <1>3, <1>4 DEF MergeInv

LEMMA MergeUpsert == CatInv /\ MergeInv /\ Upsert => MergeInv'
<1> SUFFICES ASSUME CatInv, MergeInv, Upsert PROVE MergeInv'
  OBVIOUS
<1> DEFINE changed == {a \in Area : AfterUpsert(a) # record[a]}
<1>1. /\ UNCHANGED <<record, resort, rev, left, raced, now>> /\ imp.phase = "upsert"
      /\ imp'.phase = "link" /\ imp'.start = imp.start /\ imp'.res = imp.res
      /\ imp'.rec = [a \in changed |-> AfterUpsert(a)]
  BY DEF Upsert, CatInv, CatTyped, ImportTyped, NoImport
<1>2. ASSUME NEW a \in changed PROVE AfterUpsert(a).upd = imp.start
  <2>1. IsRecord(record[a])
    BY DEF CatInv, CatTyped, IsTable
  <2>2. \/ a \in DOMAIN imp.payload /\ AfterUpsert(a) = Upserted(record[a], imp.payload[a], imp.start)
        \/ AfterUpsert(a) = Missing(record[a], imp.start)
    BY DEF AfterUpsert
  <2>3. \A p : Upserted(record[a], p, imp.start) # record[a] =>
                 Upserted(record[a], p, imp.start).upd = imp.start
    BY <2>1 DEF Upserted, IsRecord, RecordFields, NoRecord
  <2>4. Missing(record[a], imp.start).upd = imp.start
    BY <2>1 DEF Missing, IsRecord, RecordFields, NoRecord
  <2>5. QED
    BY <2>2, <2>3, <2>4
<1>3. QED
  <2>1. \A a \in DOMAIN imp'.rec : imp'.rec[a].upd = imp.start
    BY <1>1, <1>2
  <2>2. QED
    BY <1>1, <2>1, MergeWrites DEF Importing

LEMMA MergeLinkQuiet == CatInv /\ MergeInv /\ (LinkRead \/ LinkEnds) => MergeInv'
<1> SUFFICES ASSUME CatInv, MergeInv, LinkRead \/ LinkEnds PROVE MergeInv'
  OBVIOUS
<1>1. /\ UNCHANGED <<record, resort, rev, left, raced, now>>
      /\ imp.phase \in Importing /\ imp'.phase \in Importing
      /\ imp'.start = imp.start /\ imp'.rec = imp.rec /\ imp'.res = imp.res
  BY DEF LinkRead, LinkEnds, CatInv, CatTyped, ImportTyped, NoImport, Importing
<1>2. QED
  BY <1>1, MergeWrites

LEMMA MergeFlush ==
  ASSUME CatInv, MergeInv, Linking, NEW row, NEW eligible, NEW res, Flush(row, eligible, res),
         \A r \in DOMAIN res : (r \in DOMAIN imp.res /\ res[r] = imp.res[r]) \/ res[r].merged = Never
  PROVE  MergeInv'
<1> DEFINE w == Update(Seen[Turn], imp.snap[Turn], row, imp.start)
<1>1. /\ UNCHANGED <<record, resort, rev, left, raced, now>>
      /\ imp.phase \in Importing /\ imp'.phase \in Importing
      /\ imp'.start = imp.start /\ imp'.res = res
      /\ imp'.rec = IF row = imp.snap[Turn] THEN imp.rec ELSE Put(imp.rec, Turn, w)
  BY DEF Flush, Linking, CatInv, CatTyped, ImportTyped, NoImport, Importing
<1>2. w.upd = imp.start
  <2>1. IsRecord(Seen[Turn])
    BY TurnOK
  <2>2. QED
    BY <2>1 DEF Update, Overwrite, IsRecord, RecordFields, NoRecord
<1> HIDE DEF w
<1>3. \A a \in DOMAIN imp'.rec :
        (a \in DOMAIN imp.rec /\ imp'.rec[a] = imp.rec[a]) \/ imp'.rec[a].upd = imp.start
  BY <1>1, <1>2 DEF Put
<1>4. QED
  BY <1>1, <1>3, MergeWrites

LEMMA MergeLinkStep == CatInv /\ MergeInv /\ LinkStep => MergeInv'
<1> SUFFICES ASSUME CatInv, MergeInv, LinkStep PROVE MergeInv'
  OBVIOUS
<1>1. CASE LinkSkips \/ LinkAuto \/ LinkPending
  <2>1. Linking /\ \E row, eligible : Flush(row, eligible, imp.res)
    BY <1>1 DEF LinkSkips, LinkAuto, LinkPending, Matches
  <2>2. QED
    BY <2>1, MergeFlush
<1>2. CASE LinkPrimary
  <2> DEFINE fresh == CHOOSE r \in Unused(DOMAIN imp.res \cup {rev.resort}) : TRUE
             new == NewResort(imp.snap[Turn].payload)
             res == Put(imp.res, fresh, new)
  <2>1. Linking /\ \E row : Flush(row, Claims, res)
    BY <1>2 DEF LinkPrimary, Matches
  <2>2. \A r \in DOMAIN res : (r \in DOMAIN imp.res /\ res[r] = imp.res[r]) \/ res[r].merged = Never
    <3>1. new.merged = Never
      BY DEF NewResort
    <3> HIDE DEF fresh, new
    <3>2. QED
      BY <3>1 DEF Put
  <2> HIDE DEF res
  <2>3. QED
    BY <2>1, <2>2, MergeFlush
<1>3. CASE LinkEnds
  BY <1>3, MergeLinkQuiet
<1>4. QED
  BY <1>1, <1>2, <1>3 DEF LinkStep

(* The merge of the import: what it merges is current, and what it leaves is
   of the same records as before the import. *)
LEMMA NotStale ==
  ASSUME CatInv, MergeInv, imp.phase \in {"merge", "mergeOnly"},
         NEW r \in Resort \ (LeftByImport \cup SeenRaced),
         SeenResorts[r].stored, SeenResorts[r].merged # Never, ~ Stale(Seen, r, SeenResorts[r])
  PROVE  Current(Seen, r, SeenResorts[r])
<1>1. /\ \A a \in Area : Seen[a] = IF a \in DOMAIN imp.rec THEN imp.rec[a] ELSE record[a]
      /\ \A q \in Resort : SeenResorts[q] = IF q \in DOMAIN imp.res THEN imp.res[q] ELSE resort[q]
  BY SeenOK DEF CatInv
<1>2. r \in Resort /\ r \notin left /\ r \notin raced
  BY DEF LeftByImport, SeenRaced
<1>3. r \notin DOMAIN imp.res /\ SeenResorts[r] = resort[r]
  BY <1>1, <1>2 DEF MergeInv, ImportIsDated, Importing, CatInv, CatTyped, ImportTyped
<1>4. ASSUME NEW a \in Area, Linked(Seen, a, r) PROVE Seen[a] = record[a]
  <2>1. CASE imp.phase = "mergeOnly"
    BY <1>1, <2>1 DEF CatInv, CatTyped, ImportTyped
  <2>2. CASE imp.phase = "merge"
    <3>1. ~ (Seen[a].upd > resort[r].merged)
      BY <1>3, <1>4 DEF Stale
    <3>2. imp.start \in Nat /\ resort[r].merged \in Int /\ resort[r].merged < imp.start
      BY <1>2, <2>2 DEF MergeInv, DatesInOrder, Importing
    <3>3. a \notin DOMAIN imp.rec
      BY <1>1, <2>2, <3>1, <3>2 DEF MergeInv, ImportIsDated, Importing
    <3>4. QED
      BY <1>1, <3>3
  <2>3. QED
    BY <2>1, <2>2
<1>5. \A a \in Area : record[a].resort = r => Seen[a].resort = r /\ a \notin raced
  BY DEF LeftByImport, SeenRaced
<1>6. ASSUME NEW a \in Area, Linked(record, a, r) PROVE Linked(Seen, a, r)
  <2>1. Seen[a].resort = r /\ a \notin raced
    BY <1>5, <1>6 DEF Linked
  <2>2. Seen[a].status = "linked"
    BY <1>2, <2>1, CatalogAssumption DEF CatInv, Tidy
  <2>3. QED
    BY <2>1, <2>2 DEF Linked
<1>7. Agree(Seen, record, r)
  BY <1>4, <1>6 DEF Agree, Linked
<1>8. r \notin Raced
  BY <1>2, <1>5 DEF Raced
<1>9. Current(record, r, resort[r])
  BY <1>2, <1>3, <1>8 DEF MergeInv, MergedIsCurrent
<1>10. QED
  BY <1>3, <1>7, <1>9, SameCurrent

LEMMA MergeMerge == CatInv /\ MergeInv /\ MergeStale => MergeInv'
<1> SUFFICES ASSUME CatInv, MergeInv, MergeStale PROVE MergeInv'
  OBVIOUS
<1> DEFINE force == imp.opts.force /\ imp.phase = "mergeOnly"
           after == Merged(Seen, SeenResorts, now + 1, force)
<1>1. /\ UNCHANGED <<record, resort, rev, left, raced>> /\ imp.phase \in {"merge", "mergeOnly"}
      /\ imp'.phase \in {"sync", "commit"} /\ imp'.rec = imp.rec /\ now' = now + 1
      /\ imp'.res = [r \in {q \in Resort : after[q] # resort[q]} |-> after[r]]
  BY DEF MergeStale, CatInv, CatTyped, ImportTyped, NoImport
<1>2. \A r \in Resort : IsResort(SeenResorts[r]) /\ SeenResorts[r].merged \in -1..now /\ now \in Nat
  BY SeenOK DEF CatInv, MergeInv, DatesInOrder
<1>3. \A r \in Resort :
        \/ after[r] = Fresh(Seen, r, SeenResorts[r], now + 1)
        \/ /\ after[r] = SeenResorts[r]
           /\ SeenResorts[r].stored => ~ Stale(Seen, r, SeenResorts[r])
  <2> HIDE DEF force
  <2>1. QED
    BY MergedIs
<1> HIDE DEF after
<1>4. \A r \in Resort : after[r].merged \in -1..now + 1
  <2>1. \A r \in Resort : Fresh(Seen, r, SeenResorts[r], now + 1).merged = now + 1
    BY <1>2, MergeIsCurrent
  <2>2. QED
    BY <1>2, <1>3, <2>1
<1>5. DatesInOrder'
  <2>1. \A r \in DOMAIN imp'.res : imp'.res[r].merged \in -1..now + 1
    BY <1>1, <1>4
  <2>2. \A r \in Resort : resort[r].merged \in -1..now + 1
    BY <1>2 DEF MergeInv, DatesInOrder
  <2>3. rev.phase = "flushed" /\ rev.op # "reject" => rev.will.merged \in -1..now + 1
    BY DEF MergeInv, DatesInOrder
  <2>4. now + 1 \in Nat /\ imp'.phase \notin Importing
    BY <1>1 DEF MergeInv, DatesInOrder, Importing
  <2>5. QED
    BY <1>1, <2>1, <2>2, <2>3, <2>4 DEF DatesInOrder
<1>6. ImportIsDated'
  BY <1>1 DEF ImportIsDated, Importing
<1>7. Seen' = Seen /\ LeftByImport' = LeftByImport /\ SeenRaced' = SeenRaced
  BY <1>1 DEF Seen, Over, LeftByImport, SeenRaced
<1>8. \A r \in Resort : SeenResorts'[r] = after[r]
  BY <1>1 DEF SeenResorts, Over, CatInv, CatTyped
<1>9. ASSUME NEW r \in Resort \ (LeftByImport \cup SeenRaced), after[r].stored
      PROVE  Current(Seen, r, after[r])
  <2>1. CASE after[r] = Fresh(Seen, r, SeenResorts[r], now + 1)
    BY <1>2, <2>1, MergeIsCurrent
  <2>2. CASE after[r] = SeenResorts[r] /\ ~ Stale(Seen, r, SeenResorts[r])
    BY <1>1, <1>9, <2>2, NotStale DEF Current
  <2>3. QED
    BY <1>3, <1>9, <2>1, <2>2
<1>10. ImportIsCurrent'
  BY <1>7, <1>8, <1>9 DEF ImportIsCurrent, Current
<1>11. MergedIsCurrent' /\ ReviewIsCurrent'
  BY <1>1 DEF MergeInv, MergedIsCurrent, Raced, ReviewIsCurrent, Current
<1>12. QED
  BY <1>5, <1>6, <1>10, <1>11 DEF MergeInv

LEMMA MergeLiftSync == CatInv /\ MergeInv /\ LiftSync => MergeInv'
<1> SUFFICES ASSUME CatInv, MergeInv, LiftSync PROVE MergeInv'
  OBVIOUS
<1>1. /\ UNCHANGED <<record, resort, rev, left, raced, now>> /\ imp.phase = "sync"
      /\ imp'.phase = "commit" /\ imp'.rec = imp.rec /\ imp'.res = imp.res
  BY DEF LiftSync, CatInv, CatTyped, ImportTyped, NoImport
<1>2. Seen' = Seen /\ SeenResorts' = SeenResorts /\ LeftByImport' = LeftByImport /\ SeenRaced' = SeenRaced
  BY <1>1 DEF Seen, SeenResorts, Over, LeftByImport, SeenRaced
<1>3. DatesInOrder' /\ ImportIsDated'
  BY <1>1 DEF MergeInv, DatesInOrder, ImportIsDated, Importing
<1>4. ImportIsCurrent'
  BY <1>1, <1>2 DEF MergeInv, ImportIsCurrent, Current
<1>5. MergedIsCurrent' /\ ReviewIsCurrent'
  BY <1>1 DEF MergeInv, MergedIsCurrent, Raced, ReviewIsCurrent, Current
<1>6. QED
  BY <1>3, <1>4, <1>5 DEF MergeInv

LEMMA MergeCommit == CatInv /\ MergeInv /\ Commit => MergeInv'
<1> SUFFICES ASSUME CatInv, MergeInv, Commit PROVE MergeInv'
  OBVIOUS
<1>1. /\ record' = Seen /\ resort' = SeenResorts /\ UNCHANGED <<rev, now>>
      /\ left' = LeftByImport /\ raced' = raced \cup Overlapped /\ imp.phase = "commit"
      /\ imp'.phase \in {"idle", "forced"} /\ imp'.res = Nothing
  BY DEF Commit, LeftByImport, NoImport
<1>2. MergedIsCurrent'
  <2>1. SeenRaced \subseteq Raced'
    BY <1>1 DEF SeenRaced, Raced
  <2>2. \A r \in Resort \ (LeftByImport \cup SeenRaced) :
          SeenResorts[r].stored => Current(Seen, r, SeenResorts[r])
    BY <1>1 DEF MergeInv, ImportIsCurrent
  <2>3. QED
    BY <1>1, <2>1, <2>2 DEF MergedIsCurrent, Current
<1>3. DatesInOrder'
  <2>1. \A r \in Resort : SeenResorts[r].merged \in -1..now
    BY SeenOK DEF CatInv, MergeInv, DatesInOrder
  <2>2. QED
    BY <1>1, <2>1 DEF MergeInv, DatesInOrder, Nothing, Importing
<1>4. ImportIsDated' /\ ImportIsCurrent'
  BY <1>1 DEF ImportIsDated, ImportIsCurrent, Importing
<1>5. ReviewIsCurrent'
  BY <1>1 DEF ReviewIsCurrent, Overlapped
<1>6. QED
  BY <1>2, <1>3, <1>4, <1>5 DEF MergeInv

LEMMA MergeForce == CatInv /\ MergeInv /\ ForceMerge => MergeInv'
<1> SUFFICES ASSUME CatInv, MergeInv, ForceMerge PROVE MergeInv'
  OBVIOUS
<1> DEFINE force == TRUE
           after == Merged(record, resort, now + 1, force)
<1>1. /\ record' = record /\ resort' = after /\ UNCHANGED <<rev, left>> /\ now' = now + 1
      /\ raced' = raced \cup Overlapped /\ imp'.phase = "idle" /\ imp'.res = Nothing
  BY DEF ForceMerge, NoImport
<1>2. \A r \in Resort : IsResort(resort[r]) /\ resort[r].merged \in -1..now /\ now \in Nat
  BY DEF CatInv, CatTyped, MergeInv, DatesInOrder
<1>3. \A r \in Resort : /\ resort[r].stored => after[r] = Fresh(record, r, resort[r], now + 1)
                        /\ ~ resort[r].stored => after[r] = resort[r]
  BY DEF Merged, Fresh
<1>4. \A r \in Resort : after[r].stored = resort[r].stored
  <2> HIDE DEF force
  <2>1. QED
    BY <1>2, MergedOK
<1> HIDE DEF force, after
<1>5. MergedIsCurrent'
  <2>1. \A r \in Resort : after[r].stored => Current(record, r, after[r])
    BY <1>2, <1>3, <1>4, MergeIsCurrent
  <2>2. QED
    BY <1>1, <2>1 DEF MergedIsCurrent, Current
<1>6. DatesInOrder'
  <2>1. \A r \in Resort : after[r].merged \in -1..now + 1
    BY <1>2, <1>3, MergeIsCurrent
  <2>2. rev.phase = "flushed" /\ rev.op # "reject" => rev.will.merged \in -1..now + 1
    BY DEF MergeInv, DatesInOrder
  <2>3. now + 1 \in Nat
    BY DEF MergeInv, DatesInOrder
  <2>4. QED
    BY <1>1, <2>1, <2>2, <2>3 DEF DatesInOrder, Nothing, Importing
<1>7. ImportIsDated' /\ ImportIsCurrent'
  BY <1>1 DEF ImportIsDated, ImportIsCurrent, Importing
<1>8. ReviewIsCurrent'
  BY <1>1 DEF ReviewIsCurrent, Overlapped
<1>9. QED
  BY <1>5, <1>6, <1>7, <1>8 DEF MergeInv

(* A step of a review that commits nothing. *)
LEMMA MergeReviewOnly ==
  ASSUME MergeInv, UNCHANGED <<record, resort, imp, left, raced>>, now' \in {now, now + 1},
         rev'.phase = "flushed" /\ rev'.op # "reject" => rev'.will.merged \in -1..now',
         ReviewIsCurrent'
  PROVE  MergeInv'
<1>1. Seen' = Seen /\ SeenResorts' = SeenResorts /\ LeftByImport' = LeftByImport /\ SeenRaced' = SeenRaced
  BY DEF Seen, SeenResorts, Over, LeftByImport, SeenRaced
<1>2. DatesInOrder'
  BY DEF MergeInv, DatesInOrder
<1>3. MergedIsCurrent' /\ ImportIsDated' /\ ImportIsCurrent'
  BY <1>1 DEF MergeInv, MergedIsCurrent, Raced, ImportIsDated, ImportIsCurrent, Current
<1>4. QED
  BY <1>2, <1>3 DEF MergeInv

LEMMA MergeReviewQuiet ==
  CatInv /\ MergeInv /\ ((\E op, a, r : ReviewReads(op, a, r)) \/ ReviewRejects \/ ReviewFails) => MergeInv'
<1> SUFFICES ASSUME CatInv, MergeInv,
                    (\E op, a, r : ReviewReads(op, a, r)) \/ ReviewRejects \/ ReviewFails
             PROVE  MergeInv'
  OBVIOUS
<1>1. /\ UNCHANGED <<record, resort, imp, left, raced>> /\ now' \in {now, now + 1}
      /\ rev'.phase # "flushed" \/ rev'.op = "reject"
  <2>1. ASSUME NEW op, NEW a, NEW r, ReviewReads(op, a, r)
        PROVE  UNCHANGED <<record, resort, imp, left, raced>> /\ now' = now + 1 /\ rev'.phase = "read"
    BY <2>1 DEF ReviewReads, NoReview
  <2>2. ReviewRejects => /\ UNCHANGED <<record, resort, imp, left, raced, now>>
                         /\ rev'.op = "reject"
    BY DEF ReviewRejects, NoReview, CatInv, CatTyped, ReviewTyped
  <2>3. ReviewFails => UNCHANGED <<record, resort, imp, left, raced, now>> /\ rev'.phase = "idle"
    BY DEF ReviewFails, NoReview
  <2>4. QED
    BY <2>1, <2>2, <2>3
<1>2. ReviewIsCurrent'
  BY <1>1 DEF ReviewIsCurrent
<1>3. QED
  BY <1>1, <1>2, MergeReviewOnly

LEMMA MergeReviewLinks == CatInv /\ MergeInv /\ ReviewLinks => MergeInv'
<1> SUFFICES ASSUME CatInv, MergeInv, ReviewLinks PROVE MergeInv'
  OBVIOUS
<1> DEFINE r == IF rev.op = "link" THEN rev.resort ELSE CHOOSE q \in Unused(DOMAIN imp.res) : TRUE
           loaded == IF rev.op = "link" THEN resort[r] ELSE NewResort(rev.row.payload)
           row == Flushed(LinkedTo(rev.row, r, "manual"))
           recs == [record EXCEPT ![rev.area] = row]
           will == Fresh(recs, r, loaded, now + 1)
<1>1. /\ UNCHANGED <<record, resort, imp, left, raced>> /\ now' = now + 1 /\ rev.phase = "read"
      /\ rev' = [rev EXCEPT !.phase = "flushed", !.resort = r, !.row = row, !.was = loaded, !.will = will]
  BY DEF ReviewLinks, Fresh
<1>2. ReviewTyped /\ CatTyped
  BY DEF CatInv, CatTyped
<1>3. IsResort(loaded) /\ (rev.op = "link" => loaded = resort[rev.resort] /\ r = rev.resort)
  BY <1>1, <1>2 DEF CatTyped, ReviewTyped, NewResort, IsResort, NoResort, ResortFields
<1> HIDE DEF r, loaded, row
<1>4. Current(recs, r, will) /\ will.merged = now + 1
  BY <1>3, MergeIsCurrent
<1> HIDE DEF will
<1>5. /\ rev'.phase = "flushed" /\ rev'.area = rev.area /\ rev'.op = rev.op /\ rev'.resort = r
      /\ rev'.row = row /\ rev'.was = loaded /\ rev'.will = will
  BY <1>1, <1>2 DEF ReviewTyped, NoReview
<1>6. ReviewIsCurrent'
  BY <1>1, <1>3, <1>4, <1>5 DEF ReviewIsCurrent, Current
<1>7. rev'.will.merged \in -1..now'
  BY <1>1, <1>4, <1>5 DEF MergeInv, DatesInOrder
<1>8. QED
  BY <1>1, <1>6, <1>7, MergeReviewOnly

LEMMA MergeReviewCommits == CatInv /\ MergeInv /\ ReviewCommits => MergeInv'
<1> SUFFICES ASSUME CatInv, MergeInv, ReviewCommits PROVE MergeInv'
  OBVIOUS
<1> DEFINE a == rev.area
           r == rev.resort
           merged == IF rev.op = "create" THEN rev.will ELSE Overwrite(resort[r], rev.was, rev.will)
<1>1. /\ rev.phase = "flushed" /\ rev' = NoReview /\ imp' = imp /\ now' = now
      /\ record' = [record EXCEPT ![a] = rev.row]
      /\ resort' = IF rev.op = "reject" THEN resort ELSE [resort EXCEPT ![r] = merged]
      /\ raced' = IF imp.phase = "idle" THEN raced ELSE raced \cup {a, r}
      /\ left' = IF record[a].resort = rev.row.resort THEN left ELSE left \cup {record[a].resort}
  BY DEF ReviewCommits
<1>2. CatTyped /\ ReviewTyped /\ IsTable(record)
  BY DEF CatInv, CatTyped
<1>3. /\ a \in Area /\ rev.op \in {"link", "reject", "create"}
      /\ rev.row.status = IF rev.op = "reject" THEN "rejected" ELSE "linked"
      /\ rev.op # "reject" => /\ r \in Resort /\ rev.row.resort = r
                              /\ IsResort(resort[r]) /\ IsResort(rev.will)
  BY <1>1, <1>2 DEF ReviewTyped, CatTyped
<1>4. /\ \A b \in Area : record'[b] = IF b = a THEN rev.row ELSE record[b]
      /\ \A q \in Resort : resort'[q] = IF rev.op # "reject" /\ q = r THEN merged ELSE resort[q]
  BY <1>1, <1>2, <1>3 DEF IsTable, CatTyped
<1>5. rev.op # "reject" => merged.merged \in {rev.will.merged, resort[r].merged}
  BY <1>3 DEF Overwrite, IsResort, ResortFields, NoResort
<1>6. rev.op # "reject" /\ r \notin raced =>
        merged = rev.will /\ Current(record', r, rev.will)
  <2> SUFFICES ASSUME rev.op # "reject", r \notin raced
               PROVE  merged = rev.will /\ Current(record', r, rev.will)
    OBVIOUS
  <2>1. /\ Current([record EXCEPT ![rev.area] = rev.row], rev.resort, rev.will)
        /\ rev.op = "link" => rev.was = resort[rev.resort]
    BY <1>1 DEF MergeInv, ReviewIsCurrent
  <2>2. Overwrite(rev.was, rev.was, rev.will) = rev.will \/ rev.op = "create"
    BY <1>3, <2>1 DEF Overwrite, IsResort, ResortFields, NoResort
  <2>3. QED
    BY <1>1, <1>3, <2>1, <2>2
<1>7. /\ \A b \in Area : Seen[b] = IF b \in DOMAIN imp.rec THEN imp.rec[b] ELSE record[b]
      /\ \A b \in Area : Seen'[b] = IF b \in DOMAIN imp.rec THEN imp.rec[b] ELSE record'[b]
      /\ \A q \in Resort : SeenResorts[q] = IF q \in DOMAIN imp.res THEN imp.res[q] ELSE resort[q]
      /\ \A q \in Resort : SeenResorts'[q] = IF q \in DOMAIN imp.res THEN imp.res[q] ELSE resort'[q]
  BY <1>1, <1>2, <1>3 DEF CatTyped, IsTable, Seen, SeenResorts, Over
<1> HIDE DEF merged
<1>8. left \subseteq left' /\ raced \subseteq raced' /\ (imp.phase # "idle" => a \in raced' /\ r \in raced')
  BY <1>1
<1>9. \A q \in Resort \ left' : record[a].resort = q => rev.row.resort = q
  BY <1>1
<1>10. a \notin raced => record[a].status # "linked"
  BY <1>1 DEF CatInv, ReviewIsAlone
<1>11. MergedIsCurrent'
  <2> SUFFICES ASSUME NEW q \in Resort \ (left' \cup Raced'), resort'[q].stored
               PROVE  Current(record', q, resort'[q])
    BY DEF MergedIsCurrent, Current
  <2>1. /\ q \notin raced' /\ q \notin left'
        /\ \A b \in raced' \cap Area : record'[b].resort # q
    BY DEF Raced
  <2>2. CASE rev.op # "reject" /\ q = r
    BY <1>4, <1>6, <1>8, <2>1, <2>2
  <2>3. CASE rev.op = "reject" \/ q # r
    <3>1. a \in raced' => record[a].resort # q
      BY <1>3, <1>4, <1>9, <2>1
    <3>2. ~ Linked(record, a, q) /\ ~ Linked(record', a, q)
      BY <1>3, <1>4, <1>8, <1>10, <2>3, <3>1 DEF Linked
    <3>3. Agree(record', record, q)
      BY <1>4, <3>2 DEF Agree, Linked
    <3>4. q \notin left \cup Raced
      BY <1>4, <1>8, <2>1, <3>1 DEF Raced
    <3>5. Current(record, q, resort[q]) /\ resort'[q] = resort[q]
      BY <1>4, <2>3, <3>4 DEF MergeInv, MergedIsCurrent
    <3>6. QED
      BY <3>3, <3>5, SameCurrent
  <2>4. QED
    BY <2>2, <2>3
<1>12. DatesInOrder'
  <2>1. rev.op # "reject" => merged.merged \in -1..now
    BY <1>1, <1>3, <1>5 DEF MergeInv, DatesInOrder
  <2>2. \A q \in Resort : resort'[q].merged \in -1..now
    BY <1>4, <2>1 DEF MergeInv, DatesInOrder
  <2>3. imp.phase \in Importing => \A q \in Resort \ raced' : resort'[q].merged < imp.start
    BY <1>4, <1>8 DEF MergeInv, DatesInOrder, Importing
  <2>4. rev'.phase = "idle"
    BY <1>1 DEF NoReview
  <2>5. QED
    BY <1>1, <2>2, <2>3, <2>4 DEF MergeInv, DatesInOrder
<1>13. ImportIsDated' /\ ReviewIsCurrent'
  BY <1>1 DEF MergeInv, ImportIsDated, ReviewIsCurrent, NoReview
<1>14. ImportIsCurrent'
  <2> SUFFICES ASSUME imp.phase \in {"sync", "commit"},
                      NEW q \in Resort \ (LeftByImport' \cup SeenRaced'), SeenResorts'[q].stored
               PROVE  Current(Seen', q, SeenResorts'[q])
    BY <1>1 DEF ImportIsCurrent, Current
  <2>1. /\ q \notin raced' /\ q \notin left' /\ a \in raced' /\ q # r
        /\ \A b \in raced' \cap Area : Seen'[b].resort # q
        /\ \A b \in Area : record'[b].resort = q => Seen'[b].resort = q
    BY <1>8 DEF LeftByImport, SeenRaced
  <2>2. \A b \in Area \ {a} : Seen'[b] = Seen[b] /\ record'[b] = record[b]
    BY <1>4, <1>7
  <2>3. Seen'[a].resort # q /\ record[a].resort # q
    BY <1>3, <1>4, <1>9, <2>1
  <2>4. Seen[a].resort # q
    BY <1>3, <1>7, <2>3
  <2>5. Agree(Seen', Seen, q)
    BY <2>2, <2>3, <2>4 DEF Agree, Linked
  <2>6. q \notin LeftByImport \cup SeenRaced
    BY <1>8, <2>1, <2>2, <2>3, <2>4 DEF LeftByImport, SeenRaced
  <2>7. SeenResorts'[q] = SeenResorts[q]
    BY <1>4, <1>7, <2>1
  <2>8. Current(Seen, q, SeenResorts[q])
    BY <2>6, <2>7 DEF MergeInv, ImportIsCurrent
  <2>9. QED
    BY <2>5, <2>7, <2>8, SameCurrent
<1>15. QED
  BY <1>11, <1>12, <1>13, <1>14 DEF MergeInv

LEMMA MergeStep == CatInv /\ MergeInv /\ [Next]_vars => MergeInv'
<1> SUFFICES ASSUME CatInv, MergeInv, [Next]_vars PROVE MergeInv'
  OBVIOUS
<1>1. ASSUME NEW opts, NEW s, NEW ls, Begin(opts, s, ls) \/ BeginMergeOnly(opts) PROVE MergeInv'
  BY <1>1, MergeBegin
<1>2. CASE Upsert \/ LinkRead \/ LinkStep
  BY <1>2, MergeUpsert, MergeLinkQuiet, MergeLinkStep
<1>3. CASE MergeStale \/ LiftSync \/ Commit \/ ForceMerge \/ RollBack
  BY <1>3, MergeMerge, MergeLiftSync, MergeCommit, MergeForce, MergeRollBack
<1>4. ASSUME NEW op, NEW a, NEW r, ReviewReads(op, a, r) PROVE MergeInv'
  BY <1>4, MergeReviewQuiet
<1>5. CASE ReviewRejects \/ ReviewLinks \/ ReviewCommits \/ ReviewFails
  BY <1>5, MergeReviewQuiet, MergeReviewLinks, MergeReviewCommits
<1>6. CASE UNCHANGED vars
  <2>1. UNCHANGED <<record, resort, imp, left, raced, rev, now>>
    BY <1>6 DEF vars
  <2>2. ReviewIsCurrent'
    BY <2>1 DEF MergeInv, ReviewIsCurrent, Current
  <2>3. rev'.phase = "flushed" /\ rev'.op # "reject" => rev'.will.merged \in -1..now'
    BY <2>1 DEF MergeInv, DatesInOrder
  <2>4. QED
    BY <2>1, <2>2, <2>3, MergeReviewOnly
<1>7. QED
  BY <1>1, <1>2, <1>3, <1>4, <1>5, <1>6 DEF Next

-------------------------------------------------------------------------------
(* What is committed, what the import sees and what a review has read fit     *)
(* together in every reachable state: import_catalog and review_catalog_      *)
(* matches, interleaved at their statements and rolled back anywhere.         *)
THEOREM CatInvHolds == Spec => []CatInv
<1>1. CatInv /\ [Next]_vars => CatInv'
  BY CatStep
<1>2. QED
  BY <1>1, CatInit, PTL DEF Spec

(* No two ski areas are linked to one resort, whatever imports, rematches and *)
(* reviews follow each other, unless its review overlapped an import.         *)
THEOREM OneAreaHolds == Spec => []OneAreaPerResort
<1>1. CatInv => OneAreaPerResort
  BY DEF CatInv, OneArea, OneAreaPerResort
<1>2. QED
  BY <1>1, CatInvHolds, PTL

(* What an operator linked by hand or rejected, no step of an import and no   *)
(* other review resolves again, with --rematch or without, unless the review  *)
(* overlapped an import.                                                      *)
THEOREM ReviewsHold == Spec => ReviewsAreKept
<1> DEFINE Kept == \A a \in Area \ raced' :
             record[a].status = "rejected" \/ record[a].method = "manual"
             => /\ record'[a].status = record[a].status
                /\ record'[a].resort = record[a].resort
<1>1. CatInv /\ [Next]_vars => [Kept]_vars
  <2> SUFFICES ASSUME CatInv, Next PROVE Kept
    OBVIOUS
  <2>1. CASE record' = record
    BY <2>1
  <2>2. CASE Commit
    <3>1. record' = Seen /\ raced \subseteq raced'
      BY <2>2 DEF Commit
    <3>2. \A a \in Area : Seen[a] = IF a \in DOMAIN imp.rec THEN imp.rec[a] ELSE record[a]
      BY SeenOK DEF CatInv
    <3>3. \A a \in DOMAIN imp.rec \ raced :
            Resolved(record[a]) => /\ imp.rec[a].status = record[a].status
                                   /\ imp.rec[a].resort = record[a].resort
      BY DEF CatInv, ImportKeepsReviews
    <3>4. QED
      BY <3>1, <3>2, <3>3 DEF Resolved
  <2>3. CASE ReviewCommits
    <3>1. /\ rev.phase = "flushed" /\ record' = [record EXCEPT ![rev.area] = rev.row]
          /\ raced \subseteq raced'
      BY <2>3 DEF ReviewCommits
    <3>2. IsTable(record) /\ rev.area \in Area
      BY <3>1 DEF CatInv, CatTyped, ReviewTyped
    <3>3. rev.area \notin raced => ~ Resolved(record[rev.area])
      BY <3>1, <3>2, CatalogAssumption DEF CatInv, ReviewIsAlone, IsTable, IsRecord, Resolved
    <3>4. \A a \in Area \ {rev.area} : record'[a] = record[a]
      BY <3>1, <3>2 DEF IsTable
    <3>5. QED
      BY <3>1, <3>3, <3>4 DEF Resolved
  <2>4. QED
    BY <2>1, <2>2, <2>3 DEF Next, Begin, BeginMergeOnly, Upsert, LinkRead, LinkStep, LinkSkips, LinkAuto,
      LinkPrimary, LinkPending, LinkEnds, Flush, MergeStale, LiftSync, ForceMerge, RollBack, ReviewReads,
      ReviewRejects, ReviewLinks, ReviewFails
<1> HIDE DEF Kept
<1>2. Spec => [][Kept]_vars
  BY <1>1, CatInvHolds, PTL DEF Spec
<1>3. QED
  BY <1>2 DEF ReviewsAreKept, Kept

(* A stored resort is what the merge makes of its records: the resorts that  *)
(* list_stale_for_merge selects by updated_at are all that an import and the  *)
(* reviews have changed.  The exceptions are resorts whose record was moved   *)
(* away, and what a review that overlapped an import touched.                 *)
THEOREM MergeHolds == Spec => []MergedIsCurrent
<1>1. CatInv /\ MergeInv /\ [Next]_vars => CatInv' /\ MergeInv'
  BY CatStep, MergeStep
<1>2. MergeInv => MergedIsCurrent
  BY DEF MergeInv
<1>3. QED
  BY <1>1, <1>2, CatInit, MergeInit, PTL DEF Spec
================================================================================
