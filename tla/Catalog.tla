-------------------------------- MODULE Catalog --------------------------------
(***************************************************************************)
(* The resort catalog of the backend: import_catalog (one transaction:     *)
(* source records, links, merge, lifts, commit) and an operator who        *)
(* resolves pending records with review_catalog_matches at the same time.  *)
(*                                                                         *)
(* Transactions run at READ COMMITTED through an ORM that writes only the  *)
(* columns that differ from what it has loaded; updated_at is the start of *)
(* the transaction, last_merged_at the clock at the merge.                 *)
(*                                                                         *)
(* A payload stands for what a ski area or a legacy row says of a resort   *)
(* (name, place, elevations); Likeness for _score, in twentieths.          *)
(***************************************************************************)
EXTENDS Integers, FiniteSets, SequencesExt

CONSTANTS
  Areas,       \* the ski areas of OpenSkiData, ordered by external_id
  Resort,      \* identifiers of resorts
  Payload,
  LegacyFace,  \* LegacyFace[r]: what the ski_api record of resort r says
  Says,        \* Says[a]: the payloads that area a may have
  Likeness,    \* Likeness[p][q]: _score of a record that says p and a resort named q
  Near,        \* pairs inside a boundary or within AUTO_MAX_DISTANCE_M
  Plausible,   \* the payloads that pass resort_plausibility
  Lift, AreasOf, \* AreasOf[l]: the ski areas of a lift
  InFilter,    \* the areas of the --countries option
  Options,     \* the option sets of import_catalog
  MaxImports, MaxReviews, Nil

ASSUME CatalogAssumption ==
  /\ Areas \in Seq(Range(Areas)) /\ IsInjective(Areas)
  /\ DOMAIN LegacyFace \subseteq Resort
  /\ Nil \notin Resort \cup {"primary", "auto", "manual"}

Area == Range(Areas)
Legacy == DOMAIN LegacyFace
AutoScore == 17    \* AUTO_SCORE, 0.85
AutoMargin == 3    \* AUTO_MARGIN, 0.15
ReviewScore == 10  \* REVIEW_SCORE, 0.5
Never == -1        \* last_merged_at IS NULL

VARIABLES
  record,    \* resort_source_records of OpenSkiData
  resort,    \* resorts
  lifts,     \* resort_lifts by resort
  now,       \* the clock
  imp,       \* the import under way
  rev,       \* the review command under way
  imports, reviews, \* how many were started
  left,      \* history: resorts whose record was moved away
  raced      \* history: areas and resorts of reviews that overlapped an import
vars == <<record, resort, lifts, now, imp, rev, imports, reviews, left, raced>>

NoRecord == [payload |-> Nil, missing |-> FALSE, upd |-> 0,
             status |-> "none", method |-> Nil, resort |-> Nil]
NoResort == [stored |-> FALSE, face |-> Nil, names |-> {}, active |-> FALSE, merged |-> Never]
NewResort(p) ==
  [stored |-> TRUE, face |-> p, names |-> {p}, active |-> TRUE, merged |-> Never]

Nothing == [x \in {} |-> Nil]
NoOptions == [filtered |-> FALSE, rematch |-> FALSE, dry |-> FALSE, force |-> FALSE]
NoImport ==
  [phase |-> "idle", opts |-> NoOptions, start |-> 0, payload |-> Nothing, lifts |-> {},
   snap |-> Nothing, pool |-> Nothing, eligible |-> {}, next |-> 1,
   rec |-> Nothing, res |-> Nothing, rows |-> [r \in Resort |-> {}]]
NoReview ==
  [phase |-> "idle", op |-> Nil, area |-> Nil, resort |-> Nil, start |-> 0,
   was |-> NoResort, will |-> NoResort, row |-> NoRecord]

Init ==
  /\ record = [a \in Area |-> NoRecord]
  /\ resort = [r \in Resort |-> IF r \in Legacy THEN NewResort(LegacyFace[r]) ELSE NoResort]
  /\ lifts = [r \in Resort |-> IF r \in Legacy THEN {[lift |-> Nil, of |-> Nil]} ELSE {}]
  /\ now = 1 /\ imp = NoImport /\ rev = NoReview /\ imports = 0 /\ reviews = 0
  /\ left = {} /\ raced = {}

(* What an UPDATE of the columns that differ from the loaded row leaves. *)
Overwrite(row, loaded, new) ==
  [c \in DOMAIN row |-> IF new[c] # loaded[c] THEN new[c] ELSE row[c]]
Update(row, loaded, new, t) == [Overwrite(row, loaded, new) EXCEPT !.upd = t]

Put(rows, x, row) == [y \in DOMAIN rows \cup {x} |-> IF y = x THEN row ELSE rows[y]]

(* What the import sees: its own writes over what is committed. *)
Over(written, committed) ==
  [x \in DOMAIN committed |-> IF x \in DOMAIN written THEN written[x] ELSE committed[x]]
Seen == Over(imp.rec, record)
SeenResorts == Over(imp.res, resort)

LockedByReview(a) == rev.phase = "flushed" /\ rev.area = a
LockedByImport(a) == a \in DOMAIN imp.rec

-------------------------------------------------------------------------------
(* Pass 1: the records. *)

(* Mutant: marking a record missing leaves updated_at. *)
MissingQuietly(row, start) == [row EXCEPT !.missing = TRUE]

Missing(row, start) == [row EXCEPT !.missing = TRUE, !.upd = start]

Upserted(row, p, start) ==
  IF row.status = "none"
  THEN [NoRecord EXCEPT !.payload = p, !.upd = start, !.status = "pending_review"]
  ELSE IF row.missing \/ row.payload # p
  THEN [row EXCEPT !.payload = p, !.missing = FALSE, !.upd = start]
  ELSE row

(* mark_missing_except, which refuses when nothing was seen. *)
AfterUpsert(a) ==
  LET row == record[a]
  IN IF a \in DOMAIN imp.payload THEN Upserted(row, imp.payload[a], imp.start)
     ELSE IF /\ ~ imp.opts.filtered /\ DOMAIN imp.payload # {}
             /\ row.status # "none" /\ ~ row.missing
     THEN Missing(row, imp.start)
     ELSE row

Upsert ==
  LET changed == {a \in Area : AfterUpsert(a) # record[a]}
  IN /\ imp.phase = "upsert"
     /\ \A a \in changed : ~ LockedByReview(a)
     /\ imp' = [imp EXCEPT !.phase = "link", !.rec = [a \in changed |-> AfterUpsert(a)]]
     /\ UNCHANGED <<record, resort, lifts, now, rev, imports, reviews, left, raced>>

-------------------------------------------------------------------------------
(* Pass 2: the links. *)

Best(S) == CHOOSE n \in S : \A m \in S : m <= n

Score(p, row) == Best({Likeness[p][q] : q \in row.names})

(* match_resort over the candidates cs of the pool: none is likely, one is
   clearly the best and near, or an operator has to decide. *)
MatchResort(p, pool, cs) ==
  LET score == [r \in cs |-> Score(p, pool[r])]
      clear == {r \in cs : /\ score[r] >= AutoScore
                           /\ \A q \in cs \ {r} : score[r] - score[q] >= AutoMargin
                           /\ <<p, pool[r].face>> \in Near}
  IN IF \A r \in cs : score[r] < ReviewScore THEN [kind |-> "none", resort |-> Nil]
     ELSE IF clear # {} THEN [kind |-> "auto", resort |-> CHOOSE r \in clear : TRUE]
     ELSE [kind |-> "pending", resort |-> Nil]

(* Mutant: a rematch reconsiders every link. *)
ShouldMatchAll(row, rematch) ==
  row.status = "pending_review" \/ (row.status = "linked" /\ rematch)

ShouldMatch(row, rematch) ==
  \/ row.status = "pending_review"
  \/ row.status = "linked" /\ rematch /\ row.method = "auto"

LinkedTo(row, r, method) ==
  [row EXCEPT !.status = "linked", !.resort = r, !.method = method]
(* Mutant: only the status is put back. *)
PendingStatus(row) == [row EXCEPT !.status = "pending_review"]

Pending(row) ==
  [row EXCEPT !.status = "pending_review", !.resort = Nil, !.method = Nil]

(* The identifiers that uuid4 may give a new resort. *)
Unused(taken) == {r \in Resort : ~ resort[r].stored /\ r \notin taken}

(* link_records reads the records and the pool of resorts once ... *)
LinkRead ==
  /\ imp.phase = "link"
  /\ LET linked == {Seen[a].resort : a \in {b \in Area : Seen[b].status = "linked"}}
         pool == {r \in Resort : resort[r].stored}
     IN imp' = [imp EXCEPT !.phase = "linking", !.snap = Seen, !.next = 1,
                  !.pool = [r \in pool |-> resort[r]], !.eligible = pool \ linked]
  /\ UNCHANGED <<record, resort, lifts, now, rev, imports, reviews, left, raced>>

(* ... and decides from what it has read, record by record; one that is matched
   again gives up its resort first. *)
Linking == imp.phase = "linking" /\ imp.next <= Len(Areas)
Turn == Areas[imp.next]
Claims == imp.eligible \cup ({imp.snap[Turn].resort} \cap DOMAIN imp.pool)
Decision == MatchResort(imp.snap[Turn].payload, imp.pool, Claims)
Matches(kind) ==
  Linking /\ ShouldMatch(imp.snap[Turn], imp.opts.rematch) /\ Decision.kind = kind

(* The record is flushed at once; its UPDATE waits for a review that wrote it. *)
Flush(row, eligible, res) ==
  LET loaded == imp.snap[Turn]
      new == Update(Seen[Turn], loaded, row, imp.start)
  IN /\ row # loaded => ~ LockedByReview(Turn)
     /\ imp' = [imp EXCEPT !.next = @ + 1, !.eligible = eligible, !.res = res,
                  !.rec = IF row = loaded THEN @ ELSE Put(@, Turn, new)]
     /\ UNCHANGED <<record, resort, lifts, now, rev, imports, reviews, left, raced>>

(* Mutant: a resort that was linked stays a candidate. *)
LeftWithLinked(claims, r) == claims

LeftToClaim(claims, r) == claims \ {r}

LinkSkips ==
  /\ Linking /\ ~ ShouldMatch(imp.snap[Turn], imp.opts.rematch)
  /\ Flush(imp.snap[Turn], imp.eligible, imp.res)

LinkAuto ==
  /\ Matches("auto")
  /\ Flush(LinkedTo(imp.snap[Turn], Decision.resort, "auto"),
           LeftToClaim(Claims, Decision.resort), imp.res)

LinkPrimary ==
  LET unused == Unused(DOMAIN imp.res \cup {rev.resort})
      fresh == CHOOSE r \in unused : TRUE
  IN /\ Matches("none") /\ unused # {}
     /\ Flush(LinkedTo(imp.snap[Turn], fresh, "primary"), Claims,
              Put(imp.res, fresh, NewResort(imp.snap[Turn].payload)))

LinkPending == Matches("pending") /\ Flush(Pending(imp.snap[Turn]), Claims, imp.res)

LinkEnds ==
  /\ imp.phase = "linking" /\ imp.next > Len(Areas)
  /\ imp' = [imp EXCEPT !.phase = "merge", !.snap = Nothing, !.pool = Nothing,
               !.eligible = {}, !.next = 1]
  /\ UNCHANGED <<record, resort, lifts, now, rev, imports, reviews, left, raced>>

LinkStep == LinkSkips \/ LinkAuto \/ LinkPrimary \/ LinkPending \/ LinkEnds

-------------------------------------------------------------------------------
(* Pass 3: the merge. *)

Linked(recs, a, r) == recs[a].status = "linked" /\ recs[a].resort = r

(* What the linked records say, OpenSkiData first. *)
Said(recs, r) ==
  [i \in 1..Len(Areas) |-> IF Linked(recs, Areas[i], r) THEN <<recs[Areas[i]].payload>> ELSE <<>>]
Views(recs, r) ==
  FlattenSeq(Said(recs, r)) \o (IF r \in Legacy THEN <<LegacyFace[r]>> ELSE <<>>)

(* _pick_required: the first plausible value, else the last one at all. *)
PlausibleOf(ordered) == SelectSeq(ordered, LAMBDA p : p \in Plausible)
Pick(ordered, current) ==
  LET good == PlausibleOf(ordered)
  IN IF good # <<>> THEN Head(good) ELSE IF ordered # <<>> THEN Last(ordered) ELSE current

ComputeMerge(recs, r, row) ==
  LET face == Pick(Views(recs, r), row.face)
  IN [row EXCEPT !.face = face,
                 !.names = Range(Views(recs, r)) \cup {face},
                 !.active = \/ r \in Legacy
                            \/ \E a \in Area : Linked(recs, a, r) /\ ~ recs[a].missing]

(* list_stale_for_merge; the legacy records are as old as the resorts. *)
Stale(recs, r, row) ==
  \/ \E a \in Area : Linked(recs, a, r) /\ recs[a].upd > row.merged
  \/ r \in Legacy /\ row.merged = Never

Merged(recs, rs, t, force) ==
  [r \in Resort |-> IF rs[r].stored /\ (force \/ Stale(recs, r, rs[r]))
                    THEN [ComputeMerge(recs, r, rs[r]) EXCEPT !.merged = t]
                    ELSE rs[r]]

MergeStale ==
  LET after == Merged(Seen, SeenResorts, now + 1, imp.opts.force /\ imp.phase = "mergeOnly")
  IN /\ imp.phase \in {"merge", "mergeOnly"}
     /\ now' = now + 1
     /\ imp' = [imp EXCEPT !.phase = IF @ = "merge" THEN "sync" ELSE "commit",
                  !.opts.force = @ /\ imp.phase = "merge",
                  !.res = [r \in {q \in Resort : after[q] # resort[q]} |-> after[r]],
                  !.rows = lifts]
     /\ UNCHANGED <<record, resort, lifts, rev, imports, reviews, left, raced>>

-------------------------------------------------------------------------------
(* Pass 4: the lifts. *)

(* iter_lifts: a filtered run keeps the lifts of the areas it has seen. *)
LiftsOf(a) ==
  {l \in imp.lifts : /\ a \in AreasOf[l]
                     /\ imp.opts.filtered => AreasOf[l] \cap DOMAIN imp.payload # {}}

(* _write: the rows of the area replace what the resort has; rows of the old
   catalog (of = Nil) go only when there are some. *)
Write(rows, a) ==
  LET r == Seen[a].resort
      new == {[lift |-> l, of |-> a] : l \in LiftsOf(a)}
  IN [rows EXCEPT ![r] = IF new # {} THEN new ELSE {x \in @ : x.of = Nil}]

LiftSync ==
  LET isLinked(a) == Seen[a].status = "linked"
      carried == SelectSeq(Areas, LAMBDA a : isLinked(a) /\ LiftsOf(a) # {})
      bare == SelectSeq(Areas, LAMBDA a : isLinked(a) /\ LiftsOf(a) = {} /\ ~ Seen[a].missing)
  IN /\ imp.phase = "sync"
     /\ imp' = [imp EXCEPT !.phase = "commit", !.rows = FoldLeft(Write, @, carried \o bare)]
     /\ UNCHANGED <<record, resort, lifts, now, rev, imports, reviews, left, raced>>

-------------------------------------------------------------------------------
(* import_catalog: its start and its end. *)

Begin(opts, payload, carried) ==
  /\ imp.phase = "idle" /\ imports < MaxImports
  /\ imports' = imports + 1
  /\ now' = now + 1
  /\ imp' = [NoImport EXCEPT !.phase = "upsert", !.opts = opts, !.start = now + 1,
               !.payload = payload, !.lifts = carried]
  /\ UNCHANGED <<record, resort, lifts, rev, reviews, left, raced>>

BeginMergeOnly(opts) ==
  /\ imp.phase = "idle" /\ imports < MaxImports
  /\ imports' = imports + 1
  /\ now' = now + 1
  /\ imp' = [NoImport EXCEPT !.phase = "mergeOnly", !.opts = opts, !.start = now + 1]
  /\ UNCHANGED <<record, resort, lifts, rev, reviews, left, raced>>

Overlapped == IF rev.phase = "idle" THEN {} ELSE {rev.area, rev.resort}

(* Commit, unless the run is dry; --force-merge merges all again after an import. *)
Commit ==
  /\ imp.phase = "commit"
  /\ ~ imp.opts.dry
  /\ record' = Seen
  /\ resort' = SeenResorts
  /\ lifts' = imp.rows
  /\ left' = left \cup {r \in Resort : \E a \in Area : record[a].resort = r
                                                      /\ Seen[a].resort # r}
  /\ raced' = raced \cup Overlapped
  /\ imp' = IF imp.opts.force THEN [NoImport EXCEPT !.phase = "forced"] ELSE NoImport
  /\ UNCHANGED <<now, rev, imports, reviews>>

ForceMerge ==
  /\ imp.phase = "forced"
  /\ now' = now + 1
  /\ resort' = Merged(record, resort, now + 1, TRUE)
  /\ raced' = raced \cup Overlapped
  /\ imp' = NoImport
  /\ UNCHANGED <<record, lifts, rev, imports, reviews, left>>

(* A dry run, a download that fails, a snapshot that cannot be read, a killed
   process: the transaction is rolled back. *)
RollBack ==
  /\ imp.phase # "idle"
  /\ imp' = NoImport
  /\ UNCHANGED <<record, resort, lifts, now, rev, imports, reviews, left, raced>>

-------------------------------------------------------------------------------
(* review_catalog_matches. *)

(* link, reject or create: the record is pending, and a resort to link to has
   no area. *)
ReviewReads(op, a, r) ==
  /\ rev.phase = "idle" /\ reviews < MaxReviews
  /\ record[a].status = "pending_review"
  /\ (op = "link") = (r # Nil)
  /\ op = "link" =>
       resort[r].stored /\ ~ \E b \in Area : record[b].status = "linked" /\ record[b].resort = r
  /\ reviews' = reviews + 1
  /\ now' = now + 1
  /\ rev' = [NoReview EXCEPT !.phase = "read", !.op = op, !.area = a, !.resort = r,
               !.start = now + 1, !.row = record[a]]
  /\ UNCHANGED <<record, resort, lifts, imp, imports, left, raced>>

(* The UPDATE of the record waits for an import that has written it. *)
Flushed(row) == Update(record[rev.area], rev.row, row, rev.start)

ReviewRejects ==
  /\ rev.phase = "read" /\ rev.op = "reject"
  /\ ~ LockedByImport(rev.area)
  /\ rev' = [rev EXCEPT !.phase = "flushed",
               !.row = Flushed([Pending(@) EXCEPT !.status = "rejected"])]
  /\ UNCHANGED <<record, resort, lifts, now, imp, imports, reviews, left, raced>>

(* A link, to a resort or to a new one, is merged from what is visible. *)
ReviewLinks ==
  LET unused == Unused(DOMAIN imp.res)
      r == IF rev.op = "link" THEN rev.resort ELSE CHOOSE q \in unused : TRUE
      loaded == IF rev.op = "link" THEN resort[r] ELSE NewResort(rev.row.payload)
      row == Flushed(LinkedTo(rev.row, r, "manual"))
  IN /\ rev.phase = "read" /\ rev.op # "reject" /\ (rev.op = "create" => unused # {})
     /\ ~ LockedByImport(rev.area)
     /\ now' = now + 1
     /\ rev' = [rev EXCEPT !.phase = "flushed", !.resort = r, !.row = row, !.was = loaded,
                  !.will = [ComputeMerge([record EXCEPT ![rev.area] = row], r, loaded)
                              EXCEPT !.merged = now + 1]]
     /\ UNCHANGED <<record, resort, lifts, imp, imports, reviews, left, raced>>

ReviewCommits ==
  LET a == rev.area
      r == rev.resort
      merged == IF rev.op = "create" THEN rev.will ELSE Overwrite(resort[r], rev.was, rev.will)
  IN /\ rev.phase = "flushed"
     /\ rev.op # "reject" => r \notin DOMAIN imp.res
     /\ record' = [record EXCEPT ![a] = rev.row]
     /\ resort' = IF rev.op = "reject" THEN resort ELSE [resort EXCEPT ![r] = merged]
     /\ raced' = IF imp.phase = "idle" THEN raced ELSE raced \cup {a, r}
     /\ left' = IF record[a].resort = rev.row.resort THEN left ELSE left \cup {record[a].resort}
     /\ rev' = NoReview
     /\ UNCHANGED <<lifts, now, imp, imports, reviews>>

ReviewFails ==
  /\ rev.phase # "idle"
  /\ rev' = NoReview
  /\ UNCHANGED <<record, resort, lifts, now, imp, imports, reviews, left, raced>>

-------------------------------------------------------------------------------
Snapshots(opts) ==
  {s \in UNION {[A -> Payload] : A \in SUBSET Area} :
     \A a \in DOMAIN s : s[a] \in Says[a] /\ (opts.filtered => a \in InFilter)}

Next ==
  \/ \E opts \in Options : \/ \E s \in Snapshots(opts), ls \in SUBSET Lift : Begin(opts, s, ls)
                           \/ BeginMergeOnly(opts)
  \/ Upsert \/ LinkRead \/ LinkStep \/ MergeStale \/ LiftSync \/ Commit \/ ForceMerge \/ RollBack
  \/ \E op \in {"link", "reject", "create"}, a \in Area, r \in Resort \cup {Nil} :
       ReviewReads(op, a, r)
  \/ ReviewRejects \/ ReviewLinks \/ ReviewCommits \/ ReviewFails

Spec == Init /\ [][Next]_vars

-------------------------------------------------------------------------------
(* Properties. *)

(* The resorts of the reviews that overlapped an import, and those that their
   areas have now. *)
Raced == raced \cup {record[a].resort : a \in raced \cap Area}

(* No two ski areas are linked to one resort, whatever imports, rematches and
   reviews follow each other, unless its review overlapped an import. *)
OneAreaPerResort ==
  \A a, b \in Area, r \in Resort :
    Linked(record, a, r) /\ Linked(record, b, r) /\ a # b => r \in raced

(* A stored resort is what the merge would make of its records: the stale
   resorts that an import selects by updated_at are all that changed.  The
   exceptions are resorts whose record a rematch, or a review that overlapped
   an import, moved away, and what such a review touched. *)
Current(recs, r, row) == row.merged # Never => row = ComputeMerge(recs, r, row)

MergedIsCurrent ==
  \A r \in Resort \ (left \cup Raced) : resort[r].stored => Current(record, r, resort[r])

(* What an operator resolved, by hand linked or rejected, is never resolved
   again by an import, with --rematch or without, unless they overlapped. *)
ReviewsAreKept ==
  [][\A a \in Area \ raced' :
       record[a].status = "rejected" \/ record[a].method = "manual"
       => /\ record'[a].status = record[a].status
          /\ record'[a].resort = record[a].resort]_vars

(* A --countries run does not take the lifts of a linked area that is outside
   its filter.  The code says so of such areas: "their lifts must survive". *)
FilteredRunKeepsLifts ==
  imp.phase = "commit" /\ imp.opts.filtered
  => \A a \in Area \ InFilter, x \in UNION {lifts[r] : r \in Resort} :
       x.of = a /\ record[a].status = "linked" => x \in imp.rows[record[a].resort]

(* The inductive invariant behind ReviewsAreKept and OneAreaPerResort. *)

RecordFields == DOMAIN NoRecord
ResortFields == DOMAIN NoResort

(* A row of resort_source_records, as stored or as a transaction sees it. *)
IsRecord(row) ==
  /\ row = [c \in RecordFields |-> row[c]]
  /\ row.status \in {"none", "linked", "pending_review", "rejected"}
  /\ row.status = "linked" => row.resort \in Resort /\ row.method \in {"primary", "auto", "manual"}
  /\ row.status \in {"none", "pending_review"} => row.resort = Nil /\ row.method = Nil

IsResort(row) ==
  /\ row = [c \in ResortFields |-> row[c]]
  /\ row.stored \in BOOLEAN /\ row.active \in BOOLEAN /\ (row.active => row.stored)

IsTable(rows) == rows = [a \in Area |-> rows[a]] /\ \A a \in Area : IsRecord(rows[a])

(* What the import has written: records from the upsert on, resorts from the
   links on, and never a resort without storing it. *)
ImportTyped ==
  /\ imp = [c \in DOMAIN NoImport |-> imp[c]]
  /\ imp.phase \in {"idle", "upsert", "link", "linking", "merge", "mergeOnly", "sync", "commit", "forced"}
  /\ DOMAIN imp.rec \subseteq Area /\ \A a \in DOMAIN imp.rec : IsRecord(imp.rec[a])
  /\ DOMAIN imp.res \subseteq Resort
  /\ \A r \in DOMAIN imp.res : IsResort(imp.res[r]) /\ imp.res[r].stored
  /\ imp.phase \in {"idle", "upsert", "mergeOnly", "forced"} => DOMAIN imp.rec = {}
  /\ imp.phase \in {"idle", "upsert", "mergeOnly", "forced", "link"} => DOMAIN imp.res = {}

(* A review works on a pending record, links it to a resort that is stored, or
   creates one that nobody else has. *)
ReviewTyped ==
  /\ rev = [c \in DOMAIN NoReview |-> rev[c]]
  /\ rev.phase \in {"idle", "read", "flushed"} /\ IsRecord(rev.row)
  /\ rev.phase # "idle" => rev.area \in Area /\ rev.op \in {"link", "reject", "create"}
  /\ rev.phase = "read" => rev.row.status = "pending_review"
  /\ rev.phase # "idle" /\ rev.op = "link" => rev.resort \in Resort /\ resort[rev.resort].stored
  /\ rev.phase = "flushed" =>
       /\ rev.row.status = IF rev.op = "reject" THEN "rejected" ELSE "linked"
       /\ rev.op # "reject" => /\ rev.resort \in Resort /\ rev.row.resort = rev.resort
                               /\ IsResort(rev.will) /\ rev.will.stored
       /\ rev.op = "create" => /\ ~ resort[rev.resort].stored
                               /\ rev.resort \notin DOMAIN imp.res

CatTyped ==
  /\ IsTable(record)
  /\ resort = [r \in Resort |-> resort[r]] /\ \A r \in Resort : IsResort(resort[r])
  /\ ImportTyped /\ ReviewTyped

(* Committed and as the import sees it: a record that is not linked has no
   resort, unless a review that overlapped an import rejected it; no two areas
   share one; what a record is linked to exists. *)
Tidy(recs) ==
  \A a \in Area \ raced :
    recs[a].status # "linked" => recs[a].resort = Nil /\ recs[a].method = Nil

OneArea(recs) ==
  \A a, b \in Area, r \in Resort \ raced :
    Linked(recs, a, r) /\ Linked(recs, b, r) => a = b

LinkedExist(recs, rows) ==
  \A a \in Area : recs[a].status = "linked" => rows[recs[a].resort].stored

(* What an operator resolved, the import has not decided again. *)
Resolved(row) == row.status = "rejected" \/ row.method = "manual"

ImportKeepsReviews ==
  \A a \in DOMAIN imp.rec \ raced :
    /\ Resolved(record[a]) => /\ imp.rec[a].status = record[a].status
                              /\ imp.rec[a].resort = record[a].resort
                              /\ imp.rec[a].method = record[a].method

(* A record whose turn has not come is as it was read, or was reviewed since;
   its resort is not to be claimed, and nobody else is linked to it. *)
Waiting == {Areas[i] : i \in imp.next..Len(Areas)}

LinkingIsOrdered ==
  imp.phase = "linking" =>
    /\ imp.next \in 1..Len(Areas) + 1
    /\ IsTable(imp.snap)
    /\ DOMAIN imp.pool \subseteq {r \in Resort : resort[r].stored} /\ imp.eligible \subseteq DOMAIN imp.pool
    /\ \A r \in DOMAIN imp.pool : IsResort(imp.pool[r])
    /\ \A a \in Area : imp.snap[a].status = "linked" => resort[imp.snap[a].resort].stored
    /\ \A a \in Waiting :
         \/ Seen[a] = imp.snap[a]
         \/ a \in raced /\ Seen[a].status \in {"linked", "rejected"}
    /\ \A r \in imp.eligible \ raced, a \in Area : ~ Linked(Seen, a, r)
    /\ \A a \in Waiting, r \in Resort \ raced :
         Linked(imp.snap, a, r) =>
           /\ r \notin imp.eligible
           /\ \A b \in Area \ {a} : ~ Linked(Seen, b, r)
           /\ \A b \in Waiting \ {a} : ~ Linked(imp.snap, b, r)

(* The record of a review that overlaps nothing is still pending and rejected
   without a resort, and the resort that the review links has no area. *)
ReviewIsAlone ==
  rev.phase # "idle" =>
    /\ rev.area \notin raced =>
         /\ record[rev.area].status = "pending_review"
         /\ rev.phase = "flushed" /\ rev.op = "reject" => rev.row.resort = Nil /\ rev.row.method = Nil
    /\ rev.op = "link" /\ rev.resort \notin raced => \A a \in Area : ~ Linked(record, a, rev.resort)

(* All of it. *)
CatInv ==
  /\ CatTyped
  /\ Tidy(record) /\ Tidy(Seen)
  /\ OneArea(record) /\ OneArea(Seen)
  /\ LinkedExist(record, resort) /\ LinkedExist(Seen, SeenResorts)
  /\ ImportKeepsReviews /\ LinkingIsOrdered /\ ReviewIsAlone

(* The inductive invariant behind MergedIsCurrent, beside CatInv. *)

(* A merge is dated by the clock, and a running import is later than every
   merge but those of the reviews that overlap it. *)
Importing == {"upsert", "link", "linking", "merge"}

DatesInOrder ==
  /\ now \in Nat
  /\ \A r \in Resort : resort[r].merged \in -1..now
  /\ \A r \in DOMAIN imp.res : imp.res[r].merged \in -1..now
  /\ rev.phase = "flushed" /\ rev.op # "reject" => rev.will.merged \in -1..now
  /\ imp.phase \in Importing =>
       /\ imp.start \in 0..now
       /\ \A r \in Resort \ raced : resort[r].merged < imp.start

(* What the import writes it dates with its start, and the resorts that it
   creates wait for the merge. *)
ImportIsDated ==
  imp.phase \in Importing =>
    /\ \A a \in DOMAIN imp.rec : imp.rec[a].upd = imp.start
    /\ \A r \in DOMAIN imp.res : imp.res[r].merged = Never

(* Once it has merged, what it is about to commit is current. *)
LeftByImport == left \cup {r \in Resort : \E a \in Area : record[a].resort = r /\ Seen[a].resort # r}
SeenRaced == raced \cup {Seen[a].resort : a \in raced \cap Area}

ImportIsCurrent ==
  imp.phase \in {"sync", "commit"} =>
    \A r \in Resort \ (LeftByImport \cup SeenRaced) :
      SeenResorts[r].stored => Current(Seen, r, SeenResorts[r])

(* So is what a review is about to commit, over the resort that it has read. *)
ReviewIsCurrent ==
  rev.phase = "flushed" /\ rev.op # "reject" /\ rev.resort \notin raced =>
    /\ Current([record EXCEPT ![rev.area] = rev.row], rev.resort, rev.will)
    /\ rev.op = "link" => rev.was = resort[rev.resort]

(* All of it: from the clock of the writes to the resort that is merged. *)
MergeInv ==
  MergedIsCurrent /\ DatesInOrder /\ ImportIsDated /\ ImportIsCurrent /\ ReviewIsCurrent
===============================================================================
