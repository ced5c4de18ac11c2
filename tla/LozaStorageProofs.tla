--------------------------- MODULE LozaStorageProofs ---------------------------
(***************************************************************************)
(* What holds of the storage through every interleaving of handlers,       *)
(* reconciliation passes, faults and crashes, for every set of clients,    *)
(* names, requests and contents, and without the bounds of TLC's runs.     *)
(***************************************************************************)
EXTENDS LozaStorage, LozaFilesProofs

\* A step of something that is no handler.
LEMMA QuietStep ==
  ASSUME Inv, UNCHANGED <<proc, issued, answer>>, faults' \in Nat,
         RowInv', NoMoreUnfinished(disk')
  PROVE  Inv'
<1>1. ProcInv'
  BY DEF Inv, ProcInv
<1>2. issued \in Nat
  BY DEF Inv, ProcInv
<1>3. DiskInv'
  BY <1>2, DiskStep
<1> QED BY <1>1, <1>3 DEF Inv

LEMMA RecStepLemma == ASSUME Inv, RecStep PROVE Inv'
<1>1. disk \subseteq DiskType /\ NoMoreUnfinished(disk) /\ RowInv /\ faults \in Nat
  BY SubsetOfDisk DEF Inv, DiskInv
<1>2. CASE RecSnapshot \/ RecCheckRow \/ RecRowsDone \/ RecListMore \/ RecKeep \/ RecDone
  <2>1. UNCHANGED vars
    BY <1>2 DEF RecSnapshot, RecCheckRow, RecRowsDone, RecListMore, RecKeep, RecDone
  <2> QED BY <1>1, <2>1, QuietStep, RowsUnchanged DEF vars
<1>3. CASE RecDeleteRow
  <2>1. RowInv'
    BY <1>1, <1>3, RowsDeleted DEF RecDeleteRow
  <2> QED BY <1>1, <1>3, <2>1, QuietStep DEF RecDeleteRow
<1>4. CASE RecRemove
  <2>1. RowInv' /\ UNCHANGED <<proc, issued, faults, answer>>
    BY <1>1, <1>4, RowsUnchanged DEF RecRemove
  <2>2. disk' \subseteq disk
    BY <1>4 DEF RecRemove
  <2> QED BY <1>1, <2>1, <2>2, SubsetOfDisk, QuietStep
<1> QED BY <1>2, <1>3, <1>4 DEF RecStep

LEMMA RecFaultLemma == ASSUME Inv, RecFault PROVE Inv'
<1>1. NoMoreUnfinished(disk) /\ RowInv /\ faults \in Nat
  BY SubsetOfDisk DEF Inv, DiskInv
<1>2. UNCHANGED <<store, proc, answer, issued>> /\ faults' = faults + 1
  BY DEF RecFault, Fault
<1> QED BY <1>1, <1>2, RowsUnchanged, QuietStep DEF store

LEMMA RecWalkFailsLemma == ASSUME Inv, RecWalkFails PROVE Inv'
<1>1. disk \subseteq DiskType /\ RowInv /\ faults \in Nat
  BY DEF Inv, DiskInv
<1>2. disk' \subseteq disk
  BY DEF RecWalkFails, Leftovers
<1>3. RowInv' /\ UNCHANGED <<proc, issued, answer>> /\ faults' \in Nat
  BY <1>1, RowsUnchanged DEF RecWalkFails, Fault
<1> QED BY <1>1, <1>2, <1>3, SubsetOfDisk, QuietStep

LEMMA CrashLemma == ASSUME Inv, Crash PROVE Inv'
<1>1. NoMoreUnfinished(disk) /\ RowInv /\ faults \in Nat /\ issued \in Nat
  BY SubsetOfDisk DEF Inv, DiskInv, ProcInv
<1>2. /\ proc' = [p \in Procs |-> Idle] /\ answer' = "none"
      /\ UNCHANGED <<rows, disk, shares, nextId, issued>> /\ faults' = faults + 1
  BY DEF Crash, Fault, store
<1>3. Sound(Idle, issued) /\ Idle.pc = "idle"
  BY <1>1, IdleSound DEF Idle
<1>4. ProcInv'
  BY <1>1, <1>2, <1>3 DEF ProcInv, Sound
<1>5. DiskInv'
  BY <1>1, <1>2, <1>3, DiskStep
<1>6. RowInv'
  BY <1>1, <1>2, RowsUnchanged
<1> QED BY <1>1, <1>2, <1>4, <1>5, <1>6 DEF Inv

LEMMA StorageNext == Inv /\ [NextStorage]_allvars => Inv'
<1> SUFFICES ASSUME Inv, [NextStorage]_allvars PROVE Inv'
  OBVIOUS
<1>1. CASE UNCHANGED allvars
  <2>1. [Next]_vars
    BY <1>1 DEF allvars
  <2> QED BY <2>1, NextLemma
<1>2. CASE Serve
  <2>1. PICK p \in Procs : Start(p) \/ HandlerStep(p) \/ HandlerFault(p)
    BY <1>2 DEF Serve
  <2> QED BY <2>1, StartStep, HandlerStepLemma, FaultStep
<1> QED BY <1>1, <1>2, RecStepLemma, RecFaultLemma, RecWalkFailsLemma, CrashLemma DEF NextStorage

LEMMA StorageInv == SpecStorage => []Inv
<1>1. InitStorage => Inv
  BY InitLemma DEF InitStorage
<1> QED BY <1>1, StorageNext, PTL DEF SpecStorage

-----------------------------------------------------------------------------
\* Crashes and passes included, a handler's steps stay those of its operation
\* and rows name client paths and complete contents only.
THEOREM StorageTypeCorrect == SpecStorage => []TypeOK
BY StorageInv, InvImpliesTypeOK, PTL

\* The keys of user_files and file_shares: no interleaving of inserts,
\* upserts, path updates and deletes makes two rows of one path or of one id,
\* or leaves a link to a row that is gone.
THEOREM KeysAreSound == SpecStorage => []KeysSound
<1>1. Inv => KeysSound
  BY DEF Inv, RowInv, KeysSound
<1> QED BY <1>1, StorageInv, PTL

\* A file that is still being written has a name no client can name, through
\* every rename and copy of the directories above it, broken streams, dropped
\* handlers, crashes and passes.
THEOREM UploadsAreAtomic == SpecStorage => []UploadsAtomic
<1>1. Inv => UploadsAtomic
  <2> SUFFICES ASSUME Inv, NEW e \in disk, e.data = Partial PROVE IsTemp(e.path)
    BY DEF UploadsAtomic
  <2>1. Last(e.path) \in Unfinished(disk)
    BY DEF Unfinished
  <2>2. Last(e.path) \in 1..issued /\ issued \in Nat
    BY <2>1 DEF Inv, DiskInv, ProcInv
  <2>3. Last(e.path) \in Nat
    BY <2>2
  <2> QED BY <2>3, TempAssumption DEF IsTemp
<1> QED BY <1>1, StorageInv, PTL

-----------------------------------------------------------------------------
(* Links and rows from one state to the next.                              *)

\* A statement that keeps, adds or deletes rows, or sets their checksums.
LEMMA SamePaths ==
  ASSUME Inv, \A s \in rows' : \/ \E r \in rows : r.id = s.id /\ r.path = s.path
                              \/ s.id = nextId
  PROVE  PathsKept
<1> SUFFICES ASSUME NEW r \in rows, NEW s \in rows', r.id = s.id, r.path # s.path
             PROVE  FALSE
  BY DEF PathsKept
<1>1. r.id < nextId /\ r.id \in Nat /\ nextId \in Nat
  BY DEF Inv, RowInv, RowType
<1>2. PICK t \in rows : t.id = s.id /\ t.path = s.path
  BY <1>1
<1> QED BY <1>2 DEF Inv, RowInv

LEMMA SameRows ==
  ASSUME Inv, UNCHANGED rows, shares \subseteq shares'
  PROVE  LinksKept /\ PathsKept
BY SamePaths DEF LinksKept

LEMMA MoreRows ==
  ASSUME Inv, NEW path, NEW dir, NEW sha, rows' = rows \cup {Row(path, nextId, dir, sha)},
         UNCHANGED shares
  PROVE  LinksKept /\ PathsKept
<1>1. \A s \in rows' : (\E r \in rows : r.id = s.id /\ r.path = s.path) \/ s.id = nextId
  BY DEF Row
<1> QED BY <1>1, SamePaths DEF LinksKept

LEMMA FewerRows ==
  ASSUME Inv, rows' \subseteq rows, shares' = Cascade(rows')
  PROVE  LinksKept /\ PathsKept
<1>1. PathsKept
  BY SamePaths
<1>2. LinksKept
  BY DEF LinksKept, Cascade
<1> QED BY <1>1, <1>2

LEMMA RowsRenamed ==
  ASSUME Inv, NEW p \in Procs, RenameRows(p), \A w \in Wild : w[1] = w[2]
  PROVE  LinksKept /\ PathsKept
<1>1. UNCHANGED shares
  BY DEF RenameRows
<1>2. CASE UNCHANGED rows
  BY <1>1, <1>2, SameRows
<1>3. CASE rows' = MovedRows(p)
  <2>1. /\ Source(p) \in Path /\ Target(p) \in Path /\ RowInv
        /\ proc[p].op = "rename" /\ Source(p) = proc[p].from /\ Target(p) = proc[p].to
    BY BusyHandler DEF RenameRows, AtStep, Source, Target
  <2> SUFFICES ASSUME NEW r \in rows, NEW s \in rows', r.id = s.id, r.path # s.path
               PROVE  /\ AtOrUnder(Source(p), r.path)
                      /\ s.path = Rebase(r.path, Source(p), Target(p))
    BY <1>1, <2>1 DEF LinksKept, PathsKept
  <2>2. PICK t \in rows : s = IF IsMoved(p, t.path) THEN MovedRow(p, t) ELSE t
    BY <1>3 DEF MovedRows
  <2>3. t.id = s.id
    BY <2>1, <2>2, MovedRowLemma
  <2>4. t = r
    BY <2>1, <2>3 DEF RowInv
  <2>5. IsMoved(p, r.path) /\ s.path = Rebase(r.path, Source(p), Target(p))
    BY <2>1, <2>2, <2>4, MovedRowLemma
  <2>6. r.path \in Seq(Name) /\ Source(p) \in Seq(Name)
    BY <2>1 DEF RowInv, RowType, Path
  <2>7. AtOrUnder(Source(p), r.path)
    BY <2>5, <2>6, LikeIsUnder DEF IsMoved, AtOrUnder
  <2> QED BY <2>5, <2>7
<1> QED BY <1>2, <1>3 DEF RenameRows

LEMMA HandlerKeepsLinks ==
  ASSUME Inv, NEW p \in Procs, HandlerStep(p), \A w \in Wild : w[1] = w[2]
  PROVE  LinksKept /\ PathsKept
<1>1. CASE UNCHANGED rows /\ shares \subseteq shares'
  BY <1>1, SameRows
<1>2. CASE ParentRow(p)
  <2>1. PICK path : \/ UNCHANGED rows
                    \/ rows' = rows \cup {Row(path, nextId, TRUE, NoData)}
    BY <1>2 DEF ParentRow
  <2>2. UNCHANGED shares
    BY <1>2 DEF ParentRow
  <2> QED BY <2>1, <2>2, SameRows, MoreRows
<1>3. CASE Upload(p)
  <2>1. CASE UploadUpsert(p)
    <3>1. UNCHANGED shares
      BY <2>1 DEF UploadUpsert
    <3>2. CASE Target(p) \in Paths(rows)
      <4>1. \A r \in rows : r \in RowType
        BY DEF Inv, RowInv
      <4>2. \A s \in rows' : \E r \in rows : r.id = s.id /\ r.path = s.path
        BY <2>1, <3>2, <4>1 DEF UploadUpsert, RowType
      <4> QED BY <3>1, <4>2, SamePaths DEF LinksKept
    <3>3. CASE Target(p) \notin Paths(rows)
      BY <2>1, <3>1, <3>3, MoreRows DEF UploadUpsert
    <3> QED BY <3>2, <3>3
  <2>2. CASE ~UploadUpsert(p)
    <3>1. UNCHANGED <<rows, shares>>
      BY <1>3, <2>2 DEF Upload, UploadCheck, UploadMakeParents, UploadCreateTemp,
                        UploadStream, UploadPublish, store
    <3> QED BY <3>1, SameRows
  <2> QED BY <2>1, <2>2
<1>4. CASE Delete(p)
  <2>1. CASE DeleteRows(p)
    <3>1. rows' \subseteq rows /\ shares' = Cascade(rows')
      BY <2>1 DEF DeleteRows
    <3> QED BY <3>1, FewerRows
  <2>2. CASE ~DeleteRows(p)
    <3>1. UNCHANGED <<rows, shares>>
      BY <1>4, <2>2 DEF Delete, DeleteCheck, DeleteDisk, store
    <3> QED BY <3>1, SameRows
  <2> QED BY <2>1, <2>2
<1>5. CASE ReadSource(p) \/ CheckTarget(p) \/ TargetParents(p) \/ Share(p)
  <2>1. UNCHANGED rows /\ shares \subseteq shares'
    BY <1>5 DEF ReadSource, CheckTarget, TargetParents, Share, ShareLookup, ShareInsert, store
  <2> QED BY <2>1, SameRows
<1>6. CASE Rename(p)
  <2>1. CASE RenameDisk(p)
    <3>1. UNCHANGED <<rows, shares>>
      BY <2>1 DEF RenameDisk
    <3> QED BY <3>1, SameRows
  <2> QED BY <1>6, <2>1, RowsRenamed DEF Rename
<1>7. CASE Copy(p)
  <2>1. CASE CopyInsert(p)
    <3>1. PICK path, dir, sha : \/ UNCHANGED rows
                                \/ rows' = rows \cup {Row(path, nextId, dir, sha)}
      BY <2>1 DEF CopyInsert
    <3>2. UNCHANGED shares
      BY <2>1 DEF CopyInsert
    <3> QED BY <3>1, <3>2, SameRows, MoreRows
  <2>2. CASE ~CopyInsert(p)
    <3>1. UNCHANGED <<rows, shares>>
      BY <1>7, <2>2 DEF Copy, CopyDisk, CopyRollback, CopyChildRows, CopyResult, store
    <3> QED BY <3>1, SameRows
  <2> QED BY <2>1, <2>2
<1>8. CASE Mkdir(p)
  <2>1. CASE MkdirInsert(p)
    <3>1. PICK path : \/ UNCHANGED rows
                      \/ rows' = rows \cup {Row(path, nextId, TRUE, NoData)}
      BY <2>1 DEF MkdirInsert
    <3>2. UNCHANGED shares
      BY <2>1 DEF MkdirInsert
    <3> QED BY <3>1, <3>2, SameRows, MoreRows
  <2>2. CASE ~MkdirInsert(p)
    <3>1. UNCHANGED <<rows, shares>>
      BY <1>8, <2>2 DEF Mkdir, MkdirCheck, MkdirDisk, store
    <3> QED BY <3>1, SameRows
  <2> QED BY <2>1, <2>2
<1> QED BY <1>2, <1>3, <1>4, <1>5, <1>6, <1>7, <1>8 DEF HandlerStep

LEMMA StepKeepsLinks ==
  ASSUME Inv, [NextStorage]_allvars, \A w \in Wild : w[1] = w[2]
  PROVE  LinksKept /\ PathsKept
<1>1. CASE UNCHANGED <<rows, shares>>
  BY <1>1, SameRows
<1>2. ASSUME NEW p \in Procs, Start(p) \/ HandlerFault(p)
      PROVE  UNCHANGED <<rows, shares>>
  BY <1>2 DEF Start, HandlerFault, DbFails, DiskFails, DeleteFailsMidway, CopyFailsMidway,
              UploadFails, Abandon, store
<1>3. CASE Serve
  <2>1. PICK p \in Procs : Start(p) \/ HandlerStep(p) \/ HandlerFault(p)
    BY <1>3 DEF Serve
  <2> QED BY <1>1, <1>2, <2>1, HandlerKeepsLinks
<1>4. CASE RecStep
  <2>1. CASE RecDeleteRow
    <3>1. rows' \subseteq rows /\ shares' = Cascade(rows')
      BY <2>1 DEF RecDeleteRow
    <3> QED BY <3>1, FewerRows
  <2>2. CASE ~RecDeleteRow
    BY <1>1, <1>4, <2>2 DEF RecStep, RecSnapshot, RecCheckRow, RecRowsDone, RecListMore,
                            RecKeep, RecRemove, RecDone, vars
  <2> QED BY <2>1, <2>2
<1>5. CASE RecFault \/ RecWalkFails \/ Crash
  BY <1>1, <1>5 DEF RecFault, RecWalkFails, Crash, store
<1>6. CASE UNCHANGED allvars
  BY <1>1, <1>6 DEF allvars, vars
<1> QED BY <1>3, <1>4, <1>5, <1>6 DEF NextStorage

\* If no name holds an SQL wildcard, a link is revoked only with its row, and a
\* row changes its path only as a rename says: links follow their nodes.
THEOREM LinksFollowNodes ==
  ASSUME \A w \in Wild : w[1] = w[2]
  PROVE  SpecStorage => LinkFollowsNode
<1>1. Inv /\ [NextStorage]_allvars => LinksKept /\ PathsKept
  BY StepKeepsLinks
<1> QED BY <1>1, StorageInv, PTL DEF SpecStorage, LinkFollowsNode

-----------------------------------------------------------------------------
(* The shape of the disk, and of what the pass keeps.                      *)

RecSteps == {"off", "snapshot", "rows", "deleteRow", "walk"}

RecShape(r) ==
  /\ r \in [pc: RecSteps, snap: SUBSET Path, todo: SUBSET Path, victim: {r.victim},
            pending: {r.pending}, listed: {r.listed}, ok: BOOLEAN]
  /\ r.todo \subseteq r.snap
  /\ Paths(r.pending) \subseteq r.listed

RecInv == RecShape(rec) /\ calm \in 0..2

\* What a step may make of the record, field by field.
Parts(pc, snap, todo, victim, pending, listed, ok) ==
  [pc: {pc}, snap: {snap}, todo: {todo}, victim: {victim},
   pending: {pending}, listed: {listed}, ok: {ok}]

LEMMA ShapeOf ==
  ASSUME NEW pc \in RecSteps, NEW ok \in BOOLEAN, NEW victim,
         NEW snap \in SUBSET Path, NEW todo \in SUBSET snap,
         NEW pending, NEW listed, Paths(pending) \subseteq listed,
         NEW r, r \in Parts(pc, snap, todo, victim, pending, listed, ok)
  PROVE  RecShape(r)
<1>1. /\ r.pc = pc /\ r.snap = snap /\ r.todo = todo /\ r.victim = victim
      /\ r.pending = pending /\ r.listed = listed /\ r.ok = ok
  BY DEF Parts
<1>2. todo \in SUBSET Path
  OBVIOUS
<1>3. r \in [pc: RecSteps, snap: SUBSET Path, todo: SUBSET Path, victim: {r.victim},
             pending: {r.pending}, listed: {r.listed}, ok: BOOLEAN]
  BY <1>1, <1>2 DEF Parts
<1> QED BY <1>1, <1>3 DEF RecShape

LEMMA OffShape == RecShape(RecOff) /\ RecShape(RecStart)
<1>1. RecShape(RecOff)
  BY DEF RecShape, RecOff, RecSteps, Paths
<1>2. RecShape(RecStart)
  BY DEF RecShape, RecStart, RecOff, RecSteps, Paths
<1> QED BY <1>1, <1>2

LEMMA ListingShape ==
  ASSUME RecShape(rec), NEW dir, NEW left, Paths(left) \subseteq rec.listed
  PROVE  RecShape(Listing(dir, left))
<1> DEFINE pending == left \cup Kinds(Children(dir))
           listed == rec.listed \cup Paths(Children(dir))
<1>1. Paths(pending) \subseteq listed
  BY DEF Paths, Kinds
<1>2. Listing(dir, left) = [rec EXCEPT !.pc = "walk", !.pending = pending,
                                       !.listed = rec.listed \cup Paths(Children(dir))]
  BY DEF Listing
<1> HIDE DEF pending
<1>3. Listing(dir, left) \in Parts("walk", rec.snap, rec.todo, rec.victim, pending, listed, rec.ok)
  BY <1>2 DEF RecShape, Parts
<1> HIDE DEF listed
<1> QED BY <1>1, <1>3, ShapeOf DEF RecShape, RecSteps

LEMMA RecStepShape ==
  ASSUME Inv, RecInv, RecStep
  PROVE  RecInv'
<1>1. RecShape(rec) /\ calm \in 0..2 /\ Paths(rows) \subseteq Path
  BY DEF RecInv, Inv, RowInv, RowType, Paths
<1>2. /\ rec.todo \in SUBSET rec.snap /\ rec.snap \in SUBSET Path
      /\ Paths(rec.pending) \subseteq rec.listed
      /\ rec.ok \in BOOLEAN /\ rec.pc \in RecSteps
  BY <1>1 DEF RecShape
<1>3. {"rows", "deleteRow", "walk"} \subseteq RecSteps
  BY DEF RecSteps
<1>4. ASSUME RecShape(rec'), UNCHANGED calm PROVE RecInv'
  <2>1. RecShape(rec)'
    BY <1>4 DEF RecShape, Paths
  <2> QED BY <1>1, <1>4, <2>1 DEF RecInv
<1>5. CASE RecSnapshot
  <2>1. rec' \in Parts("rows", Paths(rows), Paths(rows), rec.victim, rec.pending, rec.listed, rec.ok)
    BY <1>1, <1>5 DEF RecSnapshot, RecShape, Parts
  <2>2. RecShape(rec')
    BY <1>1, <1>2, <1>3, <2>1, ShapeOf
  <2> QED BY <1>4, <1>5, <2>2 DEF RecSnapshot
<1>6. CASE RecCheckRow
  <2>1. PICK path \in rec.todo :
          rec' = IF At(disk, path) # {}
                 THEN [rec EXCEPT !.todo = @ \ {path}]
                 ELSE [rec EXCEPT !.todo = @ \ {path}, !.pc = "deleteRow", !.victim = path]
    BY <1>6 DEF RecCheckRow
  <2>2. PICK pc \in RecSteps, victim \in {path, rec.victim} :
          rec' \in Parts(pc, rec.snap, rec.todo \ {path}, victim, rec.pending, rec.listed, rec.ok)
    <3>1. CASE At(disk, path) # {}
      <4>1. rec' \in Parts(rec.pc, rec.snap, rec.todo \ {path}, rec.victim, rec.pending,
                           rec.listed, rec.ok)
        BY <1>1, <2>1, <3>1 DEF RecShape, Parts
      <4> QED BY <1>2, <4>1
    <3>2. CASE At(disk, path) = {}
      <4>1. rec' \in Parts("deleteRow", rec.snap, rec.todo \ {path}, path, rec.pending,
                           rec.listed, rec.ok)
        BY <1>1, <2>1, <3>2 DEF RecShape, Parts
      <4> QED BY <1>3, <4>1
    <3> QED BY <3>1, <3>2
  <2>3. rec.todo \ {path} \in SUBSET rec.snap
    BY <1>2
  <2>4. RecShape(rec')
    BY <1>2, <2>2, <2>3, ShapeOf
  <2> QED BY <1>4, <1>6, <2>4 DEF RecCheckRow
<1>7. CASE RecDeleteRow
  <2>1. rec' \in Parts("rows", rec.snap, rec.todo, rec.victim, rec.pending, rec.listed, rec.ok)
    BY <1>1, <1>7 DEF RecDeleteRow, RecGoto, RecShape, Parts
  <2>2. RecShape(rec')
    BY <1>2, <1>3, <2>1, ShapeOf
  <2> QED BY <1>4, <1>7, <2>2 DEF RecDeleteRow
<1>8. CASE RecRowsDone
  <2>1. Paths({}) \subseteq rec.listed
    BY DEF Paths
  <2>2. RecShape(rec')
    BY <1>1, <1>8, <2>1, ListingShape DEF RecRowsDone
  <2> QED BY <1>4, <1>8, <2>2 DEF RecRowsDone
<1>9. CASE RecListMore
  <2>1. PICK e \in disk :
          rec' = [rec EXCEPT !.pending = @ \cup Kinds({e}), !.listed = @ \cup {e.path}]
    BY <1>9 DEF RecListMore
  <2> DEFINE pending == rec.pending \cup Kinds({e})
  <2>2. rec' \in Parts(rec.pc, rec.snap, rec.todo, rec.victim, pending,
                       rec.listed \cup {e.path}, rec.ok)
    <3> HIDE DEF pending
    <3>1. rec' = [rec EXCEPT !.pending = pending, !.listed = rec.listed \cup {e.path}]
      BY <2>1 DEF pending
    <3> QED BY <1>1, <3>1 DEF RecShape, Parts
  <2>3. Paths(pending) \subseteq rec.listed \cup {e.path}
    BY <1>2 DEF Paths, Kinds
  <2> HIDE DEF pending
  <2>4. RecShape(rec')
    BY <1>2, <2>2, <2>3, ShapeOf
  <2> QED BY <1>4, <1>9, <2>4 DEF RecListMore
<1>10. ASSUME NEW e \in rec.pending, rec' = [rec EXCEPT !.pending = @ \ {e}] PROVE RecShape(rec')
  <2>1. rec' \in Parts(rec.pc, rec.snap, rec.todo, rec.victim, rec.pending \ {e}, rec.listed, rec.ok)
    BY <1>1, <1>10 DEF RecShape, Parts
  <2>2. Paths(rec.pending \ {e}) \subseteq rec.listed
    BY <1>2 DEF Paths
  <2> QED BY <1>2, <2>1, <2>2, ShapeOf
<1>11. CASE RecKeep
  <2>1. PICK e \in rec.pending :
          rec' = IF ~e.dir THEN [rec EXCEPT !.pending = @ \ {e}]
                 ELSE IF IsDirAt(e.path) THEN Listing(e.path, rec.pending \ {e})
                 ELSE RecOff
    BY <1>11 DEF RecKeep
  <2>2. Paths(rec.pending \ {e}) \subseteq rec.listed
    BY <1>2 DEF Paths
  <2>3. RecShape(Listing(e.path, rec.pending \ {e}))
    BY <1>1, <2>2, ListingShape
  <2>4. RecShape(rec')
    BY <1>10, <2>1, <2>3, OffShape
  <2> QED BY <1>4, <1>11, <2>4 DEF RecKeep
<1>12. CASE RecRemove
  <2>1. PICK e \in rec.pending : rec' = [rec EXCEPT !.pending = @ \ {e}] \/ rec' = RecOff
    BY <1>12 DEF RecRemove
  <2>2. RecShape(rec')
    BY <1>10, <2>1, OffShape
  <2> QED BY <1>4, <1>12, <2>2 DEF RecRemove
<1>13. CASE RecDone
  <2>1. rec' = RecOff /\ calm' \in 0..2
    BY <1>1, <1>13 DEF RecDone
  <2>2. RecShape(rec)'
    BY <2>1, OffShape DEF RecShape, Paths
  <2> QED BY <2>1, <2>2 DEF RecInv
<1> QED BY <1>5, <1>6, <1>7, <1>8, <1>9, <1>11, <1>12, <1>13 DEF RecStep

LEMMA RecOtherShape ==
  ASSUME RecInv, Serve \/ RecFault \/ RecWalkFails \/ Crash
  PROVE  RecInv'
<1>1. RecShape(rec) /\ calm \in 0..2
  BY DEF RecInv
<1>2. /\ rec.todo \in SUBSET rec.snap /\ rec.snap \in SUBSET Path
      /\ Paths(rec.pending) \subseteq rec.listed
      /\ rec.ok \in BOOLEAN /\ rec.pc \in RecSteps /\ {"rows", "deleteRow"} \subseteq RecSteps
  BY <1>1 DEF RecShape, RecSteps
<1>3. ASSUME RecShape(rec'), calm' \in {0, calm} PROVE RecInv'
  <2>1. RecShape(rec)'
    BY <1>3 DEF RecShape, Paths
  <2> QED BY <1>1, <1>3, <2>1 DEF RecInv
<1>4. ASSUME rec' = RecOff \/ rec' = RecStart PROVE RecShape(rec')
  BY <1>4, OffShape
<1>5. CASE Serve
  <2> DEFINE ok == (rec.pc = "off")
  <2>1. rec' = [rec EXCEPT !.ok = ok] /\ calm' = 0 /\ ok \in BOOLEAN
    BY <1>5 DEF Serve, Disturb
  <2> HIDE DEF ok
  <2>2. rec' \in Parts(rec.pc, rec.snap, rec.todo, rec.victim, rec.pending, rec.listed, ok)
    BY <1>1, <2>1 DEF RecShape, Parts
  <2>3. RecShape(rec')
    BY <1>2, <2>1, <2>2, ShapeOf
  <2> QED BY <1>3, <2>1, <2>3
<1>6. CASE RecFault
  <2>1. calm' = 0
    BY <1>6 DEF RecFault
  <2>2. CASE \E path \in rec.todo :
               rec' = [rec EXCEPT !.todo = @ \ {path}, !.pc = "deleteRow",
                                  !.victim = path, !.ok = FALSE]
    <3>1. PICK path \in rec.todo :
            rec' = [rec EXCEPT !.todo = @ \ {path}, !.pc = "deleteRow",
                               !.victim = path, !.ok = FALSE]
      BY <2>2
    <3>2. rec' \in Parts("deleteRow", rec.snap, rec.todo \ {path}, path, rec.pending,
                         rec.listed, FALSE)
      BY <1>1, <3>1 DEF RecShape, Parts
    <3>3. rec.todo \ {path} \in SUBSET rec.snap /\ FALSE \in BOOLEAN
      BY <1>2
    <3>4. RecShape(rec')
      BY <1>2, <3>2, <3>3, ShapeOf
    <3> QED BY <1>3, <2>1, <3>4
  <2>3. CASE rec' = [rec EXCEPT !.pc = "rows", !.ok = FALSE]
    <3>1. rec' \in Parts("rows", rec.snap, rec.todo, rec.victim, rec.pending, rec.listed, FALSE)
      BY <1>1, <2>3 DEF RecShape, Parts
    <3>2. FALSE \in BOOLEAN
      OBVIOUS
    <3>3. RecShape(rec')
      BY <1>2, <3>1, <3>2, ShapeOf
    <3> QED BY <1>3, <2>1, <3>3
  <2> QED BY <1>3, <1>4, <1>6, <2>1, <2>2, <2>3 DEF RecFault
<1>7. CASE RecWalkFails \/ Crash
  <2>1. (rec' = RecOff \/ rec' = RecStart) /\ calm' \in {0, calm}
    BY <1>7 DEF RecWalkFails, Crash
  <2> QED BY <1>3, <1>4, <2>1
<1> QED BY <1>5, <1>6, <1>7

\* A step of the pass removes trees, or a part of one when it fails.
LEMMA PassTree ==
  ASSUME Inv, TreeInv, RecStep \/ RecFault \/ RecWalkFails
  PROVE  TreeInv'
<1>1. Shaped(disk) /\ Follows(disk)
  BY SameTreeFollows DEF TreeInv
<1>2. UNCHANGED <<proc, issued>>
  BY DEF RecStep, RecSnapshot, RecCheckRow, RecDeleteRow, RecRowsDone, RecListMore, RecKeep,
         RecRemove, RecDone, RecFault, RecWalkFails, Fault, vars
<1>3. Follows(disk')
  <2>1. CASE UNCHANGED disk
    BY <1>1, <2>1
  <2>2. CASE RecRemove
    <3>1. PICK e \in rec.pending :
            \/ (\E d \in At(disk, e.path) : d.dir = e.dir) /\ disk' = disk \ Subtree(disk, e.path)
            \/ UNCHANGED disk
      BY <2>2 DEF RecRemove
    <3>2. ASSUME NEW d \in At(disk, e.path) PROVE e.path \in Seq(Segment)
      <4>1. d \in disk /\ d.path = e.path
        BY DEF At
      <4> QED BY <1>1, <4>1, Entries DEF Shaped
    <3> QED BY <1>1, <2>1, <3>1, <3>2, SubtreeGone
  <2>3. CASE RecWalkFails
    BY <1>1, <2>1, <2>3, LeftoversLemma DEF RecWalkFails
  <2> QED BY <2>1, <2>2, <2>3
          DEF RecStep, RecSnapshot, RecCheckRow, RecDeleteRow, RecRowsDone, RecListMore, RecKeep,
              RecDone, RecFault, vars, store
<1>4. Shaped(disk)' /\ TempNos(disk)' = TempNos(disk') /\ Shaped(disk')
        /\ TempNos(disk') \subseteq TempNos(disk)
  BY <1>3 DEF Follows, Shaped, Tree, DirIn, TempNos
<1>5. TempsInv'
  BY <1>2, <1>4 DEF TreeInv, TempsInv, Early
<1>6. AcrossInv'
  BY <1>2 DEF TreeInv, AcrossInv
<1> QED BY <1>4, <1>5, <1>6 DEF TreeInv

LEMMA StorageTree ==
  ASSUME Inv, TreeInv, RecInv, [NextStorage]_allvars
  PROVE  TreeInv' /\ RecInv'
<1>1. Inv'
  BY StorageNext
<1>2. CASE UNCHANGED allvars
  <2>1. UNCHANGED <<disk, proc, issued, rec, calm>>
    BY <1>2 DEF allvars, vars
  <2> QED BY <2>1 DEF TreeInv, Shaped, Tree, DirIn, TempsInv, TempNos, AcrossInv, Early, RecInv,
                      RecShape, Paths
<1>3. CASE Serve
  <2>1. PICK p \in Procs : Start(p) \/ HandlerStep(p) \/ HandlerFault(p)
    BY <1>3 DEF Serve
  <2> QED BY <1>1, <1>3, <2>1, HandlerTree, RecOtherShape
<1>4. CASE RecStep
  BY <1>4, PassTree, RecStepShape
<1>5. CASE RecFault \/ RecWalkFails
  BY <1>5, PassTree, RecOtherShape
<1>6. CASE Crash
  <2>1. UNCHANGED <<disk, issued>> /\ \A p \in Procs : proc'[p] = Idle
    BY <1>6 DEF Crash, store, Fault
  <2>2. Idle.pc = "idle"
    BY DEF Idle
  <2>3. TreeInv'
    BY <2>1, <2>2 DEF TreeInv, Shaped, Tree, DirIn, TempsInv, TempNos, AcrossInv, Early
  <2> QED BY <1>6, <2>3, RecOtherShape
<1> QED BY <1>2, <1>3, <1>4, <1>5, <1>6 DEF NextStorage

LEMMA StorageTreeInv == SpecStorage => [](Inv /\ TreeInv /\ RecInv)
<1>1. InitStorage => Inv /\ TreeInv /\ RecInv
  BY InitLemma, InitTree, OffShape DEF InitStorage, RecInv
<1>2. Inv /\ TreeInv /\ RecInv /\ [NextStorage]_allvars => (Inv /\ TreeInv /\ RecInv)'
  BY StorageNext, StorageTree
<1> QED BY <1>1, <1>2, PTL DEF SpecStorage

\* The disk stays a tree, with one entry per path and every entry in a
\* directory, under every interleaving of renames, copies, removals, half done
\* ones included, crashes and passes; and the pass only ever looks up rows it
\* has read and deals with entries it has listed.
THEOREM DiskStaysATree == SpecStorage => []RecTypeOK
<1>1. Inv /\ TreeInv /\ RecInv => RecTypeOK
  <2> SUFFICES ASSUME Inv, TreeInv, RecInv PROVE RecTypeOK
    OBVIOUS
  <2>1. TypeOK
    BY InvImpliesTypeOK
  <2>2. DiskIsTree
    BY TreeHasParents DEF DiskIsTree, TreeInv, Shaped, Tree
  <2> QED BY <2>1, <2>2 DEF RecTypeOK, RecInv, RecShape, RecSteps
<1> QED BY <1>1, StorageTreeInv, PTL
-----------------------------------------------------------------------------
(* What the requests, the pass and the crashes may touch.                  *)

\* Of the handlers, a step changes its own only.
LEMMA OneHandler ==
  ASSUME ProcInv, NEW p \in Procs, Start(p) \/ HandlerStep(p) \/ HandlerFault(p),
         NEW q \in Procs, q # p
  PROVE  proc'[q] = proc[q]
<1>1. proc \in [Procs -> ProcType]
  BY DEF ProcInv
<1>2. \A pc : Goto(p, pc) => proc'[q] = proc[q]
  BY <1>1 DEF Goto
<1>3. \A result : Return(p, result) => proc'[q] = proc[q]
  BY <1>1 DEF Return
<1>4. \A k : NextParent(p, k) => proc'[q] = proc[q]
  BY <1>1 DEF NextParent
<1>5. CASE Start(p)
  BY <1>1, <1>5 DEF Start
<1>6. CASE HandlerFault(p)
  BY <1>3, <1>6 DEF HandlerFault, DbFails, DiskFails, DeleteFailsMidway, CopyFailsMidway,
                    UploadFails, Abandon, Refuse
<1>7. CASE ParentRow(p)
  BY <1>4, <1>7 DEF ParentRow
<1>8. CASE Upload(p)
  BY <1>2, <1>3, <1>4, <1>8
     DEF Upload, UploadCheck, UploadMakeParents, UploadCreateTemp, UploadStream, UploadPublish,
         UploadUpsert, Refuse, Succeed, GotoParents
<1>9. CASE Delete(p)
  BY <1>2, <1>3, <1>9 DEF Delete, DeleteCheck, DeleteDisk, DeleteRows, Refuse, Succeed
<1>10. CASE ReadSource(p)
  BY <1>1, <1>3, <1>10 DEF ReadSource, Refuse
<1>11. CASE CheckTarget(p) \/ TargetParents(p)
  BY <1>2, <1>3, <1>11 DEF CheckTarget, TargetParents, Refuse
<1>12. CASE Rename(p)
  BY <1>3, <1>4, <1>12 DEF Rename, RenameDisk, RenameRows, Refuse, Succeed, GotoParents
<1>13. CASE Copy(p)
  BY <1>2, <1>3, <1>4, <1>13 DEF Copy, CopyDisk, CopyInsert, CopyRollback, CopyChildRows,
                                 CopyResult, Refuse, Succeed, GotoParents
<1>14. CASE Mkdir(p)
  BY <1>2, <1>3, <1>4, <1>14 DEF Mkdir, MkdirCheck, MkdirDisk, MkdirInsert, Refuse, Succeed,
                                 GotoParents
<1>15. CASE Share(p)
  BY <1>1, <1>3, <1>15 DEF Share, ShareLookup, ShareInsert, Refuse, Succeed
<1> QED BY <1>5, <1>6, <1>7, <1>8, <1>9, <1>10, <1>11, <1>12, <1>13, <1>14, <1>15 DEF HandlerStep

\* The request a handler executes is all it touches: Confined of a step.
ConfinedStep ==
  \A p \in Procs :
    proc'[p] # proc[p] =>
      /\ Outside(p, rows') = Outside(p, rows)
      /\ Outside(p, Whole(disk')) = Outside(p, Whole(disk))

LEMMA StepConfined ==
  ASSUME Inv, TreeInv, RecInv, [NextStorage]_allvars, \A w \in Wild : w[1] = w[2]
  PROVE  ConfinedStep
<1>1. TreeInv'
  BY StorageTree
<1>2. CASE UNCHANGED <<rows, disk>>
  BY <1>2 DEF ConfinedStep
<1>3. CASE UNCHANGED proc
  BY <1>3 DEF ConfinedStep
<1>4. CASE Serve
  <2>1. PICK p \in Procs : Start(p) \/ HandlerStep(p) \/ HandlerFault(p)
    BY <1>4 DEF Serve
  <2>2. \A q \in Procs : proc'[q] # proc[q] => q = p
    BY <2>1, OneHandler DEF Inv
  <2>3. CASE Start(p)
    BY <1>2, <2>3 DEF Start, store
  <2>4. CASE HandlerStep(p) \/ HandlerFault(p)
    BY <1>1, <2>2, <2>4, HandlerConfined DEF ConfinedStep
  <2> QED BY <2>1, <2>3, <2>4
<1> QED BY <1>2, <1>3, <1>4
       DEF NextStorage, allvars, vars, store, Crash, RecStep, RecSnapshot, RecCheckRow,
           RecDeleteRow, RecRowsDone, RecListMore, RecKeep, RecRemove, RecDone, RecFault,
           RecWalkFails

\* Where no name is an SQL wildcard, a step of a request changes no row and no
\* complete file but those at and below the paths it names and the directories
\* above its target, whatever the other requests, the pass and crashes did
\* between its steps.
THEOREM RequestsAreConfined ==
  ASSUME \A w \in Wild : w[1] = w[2]
  PROVE  SpecStorage => Confined
<1>1. Inv /\ TreeInv /\ RecInv /\ [NextStorage]_allvars => [ConfinedStep]_vars
  BY StepConfined
<1> QED BY <1>1, StorageTreeInv, PTL DEF SpecStorage, Confined, ConfinedStep
-----------------------------------------------------------------------------
(* What a pass achieves.  It works on a copy of the row paths; the argument *)
(* is about a pass beside which nothing else has happened, rec.ok.         *)

\* Rows of the copy that have still to be compared with the disk.
Unchecked == rec.todo \cup (IF rec.pc = "deleteRow" THEN {rec.victim} ELSE {})

\* A path of the copy that is on the disk still has its row, and a row that is
\* not on the disk is still to be found out.
CopyInv ==
  (rec.ok /\ rec.pc \in {"rows", "deleteRow", "walk"}) =>
    /\ Paths(rows) \subseteq rec.snap
    /\ rec.snap \cap Paths(disk) \subseteq Paths(rows)
    /\ rec.pc = "deleteRow" => rec.victim \notin Paths(disk)
    /\ rec.pc # "walk" => Paths(rows) \subseteq Paths(disk) \cup Unchecked

ListedAreThere ==
  \A r \in rows : Ancestors(r.path) \subseteq Paths(rows) => r.path \in Paths(disk)

\* What has no row is at or below an entry the walk will still deal with, and
\* those entries are what they were when they were listed.
Awaited ==
  \A e \in disk : e.path \in Paths(rows) \/ \E q \in rec.pending : AtOrUnder(q.path, e.path)
AsListed == \A q \in rec.pending, d \in disk : d.path = q.path => d.dir = q.dir

WalkInv == (rec.ok /\ rec.pc = "walk") => ListedAreThere /\ Awaited /\ AsListed

\* After one whole pass, in the walk of the next, and after that.
CalmInv ==
  /\ calm >= 1 => rec.ok /\ Paths(disk) \subseteq Paths(rows) /\ ListedAreThere
  /\ (calm >= 1 /\ rec.pc = "walk") => Paths(rows) \subseteq Paths(disk)
  /\ calm = 2 => Paths(rows) \subseteq Paths(disk)

AloneInv == (calm >= 1 \/ (rec.ok /\ rec.pc # "off")) => Quiescent

\* Entries have paths.
PendingInv == \A q \in rec.pending : q.path \in Seq(Segment) /\ q.path # <<>>

PassInv == PendingInv /\ CopyInv /\ WalkInv /\ CalmInv /\ AloneInv

\* Only what has no row in the copy is removed, when no name a client may use
\* looks like a temporary file's.
LEMMA OrphanHasNoRow ==
  ASSUME Inv, PartName = {}, Paths(rows) \subseteq rec.snap, NEW e, IsOrphan(e)
  PROVE  e.path \notin Paths(rows)
<1> SUFFICES ASSUME e.path \in Paths(rows) PROVE FALSE
  OBVIOUS
<1>1. e.path \in Path
  BY DEF Paths, Inv, RowInv, RowType
<1>2. ~IsTemp(e.path)
  BY <1>1, PathTypes DEF IsTemp
<1> QED BY <1>2 DEF IsOrphan, IsTempArtifact

\* So a row that goes with it from the disk is one of a directory without a row.
LEMMA TreeRemoved ==
  ASSUME Inv, NEW path \in Seq(Segment), path # <<>>, path \notin Paths(rows),
         UNCHANGED rows, disk \ Subtree(disk, path) \subseteq disk', ListedAreThere
  PROVE  ListedAreThere'
<1> SUFFICES ASSUME NEW r \in rows, Ancestors(r.path) \subseteq Paths(rows)
             PROVE  r.path \in Paths(disk')
  BY DEF ListedAreThere, Paths
<1>1. PICK e \in disk : e.path = r.path
  BY DEF ListedAreThere, Paths
<1>2. r.path \in Path /\ r.path \in Paths(rows)
  BY DEF Inv, RowInv, RowType, Paths
<1>3. r.path \in Seq(Segment)
  BY <1>2, PathTypes DEF Segment
<1>4. ~AtOrUnder(path, r.path)
  BY <1>2, <1>3, AncestorsAbove DEF AtOrUnder
<1> QED BY <1>1, <1>4 DEF Subtree, Paths

\* Once the walk has opened a directory, what is in it waits for it there.
LEMMA ListingAwaits ==
  ASSUME Shaped(disk), NEW dir \in Seq(Segment), NEW e \in disk, Under(dir, e.path)
  PROVE  \E q \in Kinds(Children(dir)) : AtOrUnder(q.path, e.path)
<1>1. e.path \in Seq(Segment)
  BY Entries DEF Shaped
<1>2. PICK c \in Seq(Segment) : c # <<>> /\ Parent(c) = dir /\ AtOrUnder(c, e.path)
  BY <1>1, ChildToward
<1>3. PICK d \in disk : d.path = c
  <2>1. CASE c = e.path
    BY <2>1
  <2>2. CASE Under(c, e.path)
    BY <1>2, <2>2, AboveIsDir DEF Shaped, DirIn
  <2> QED BY <1>2, <2>1, <2>2 DEF AtOrUnder
<1>4. [path |-> d.path, dir |-> d.dir] \in Kinds(Children(dir))
  BY <1>2, <1>3 DEF Kinds, Children
<1> QED BY <1>2, <1>3, <1>4

LEMMA ListingListed ==
  ASSUME Shaped(disk), NEW S, S \subseteq disk, NEW q \in Kinds(S)
  PROVE  /\ q.path \in Seq(Segment) /\ q.path # <<>>
         /\ \A d \in disk : d.path = q.path => d.dir = q.dir
<1>1. PICK e \in S : q = [path |-> e.path, dir |-> e.dir]
  BY DEF Kinds
<1> QED BY <1>1, Entries DEF Shaped, Tree
\* Whatever else happens ends what is known of the running pass.
LEMMA PassDisturbed ==
  ASSUME Inv, RecInv, PassInv, Serve \/ RecFault \/ RecWalkFails
  PROVE  PassInv'
<1>1. RecShape(rec)
  BY DEF RecInv
<1>2. RecOff.pc = "off" /\ RecOff.pending = {}
  BY DEF RecOff
<1>3. calm' = 0 /\ PendingInv' /\ ~(rec'.ok /\ rec'.pc # "off")
  <2>1. CASE Serve
    <3>1. calm' = 0 /\ rec' = [rec EXCEPT !.ok = (rec.pc = "off")]
      BY <2>1 DEF Serve, Disturb
    <3> QED BY <1>1, <3>1 DEF RecShape, PassInv, PendingInv
  <2>2. CASE RecFault \/ RecWalkFails
    <3>1. calm' = 0
      BY <2>2 DEF RecFault, RecWalkFails
    <3>2. CASE rec' = RecOff
      BY <1>2, <3>1, <3>2 DEF PendingInv
    <3>3. CASE rec' # RecOff
      BY <1>1, <2>2, <3>1, <3>3 DEF RecFault, RecWalkFails, RecShape, PassInv, PendingInv
    <3> QED BY <3>2, <3>3
  <2> QED BY <2>1, <2>2
<1>4. calm' # 1 /\ calm' # 2 /\ ~(calm' >= 1)
  BY <1>3
<1> QED BY <1>3, <1>4 DEF PassInv, CopyInv, WalkInv, CalmInv, AloneInv

LEMMA PassRestarts ==
  ASSUME Inv, RecInv, PassInv, Crash
  PROVE  PassInv'
<1>1. /\ RecStart.pc = "snapshot" /\ RecStart.pending = {} /\ RecStart.ok
  BY DEF RecStart, RecOff
<1>2. UNCHANGED <<rows, disk, calm>> /\ rec' = RecStart /\ \A p \in Procs : proc'[p] = Idle
  BY DEF Crash, store
<1>3. Quiescent'
  BY <1>2 DEF Quiescent, Idle
<1>4. Paths(rows)' = Paths(rows) /\ Paths(disk)' = Paths(disk)
        /\ (ListedAreThere <=> ListedAreThere')
  BY <1>2 DEF Paths, ListedAreThere
<1> QED BY <1>1, <1>2, <1>3, <1>4
       DEF PassInv, PendingInv, CopyInv, WalkInv, CalmInv, AloneInv

\* The pass reads, and changes neither rows nor disk.
LEMMA PassReads ==
  ASSUME Inv, TreeInv, RecInv, PassInv,
         RecSnapshot \/ RecCheckRow \/ RecRowsDone \/ RecListMore \/ RecKeep \/ RecDone
  PROVE  PassInv'
<1>1. RecShape(rec) /\ calm \in 0..2 /\ Shaped(disk)
  BY DEF RecInv, TreeInv
<1>2. UNCHANGED <<rows, disk, proc>>
  BY DEF RecSnapshot, RecCheckRow, RecRowsDone, RecListMore, RecKeep, RecDone, vars
<1>3. Paths(rows)' = Paths(rows) /\ Paths(disk)' = Paths(disk)
        /\ (ListedAreThere <=> ListedAreThere') /\ (Quiescent <=> Quiescent')
  BY <1>2 DEF Paths, ListedAreThere, Quiescent
<1>4. CASE RecSnapshot
  <2>1. /\ rec'.pc = "rows" /\ rec'.snap = Paths(rows) /\ rec'.todo = Paths(rows)
        /\ rec'.pending = rec.pending /\ rec'.ok = rec.ok /\ calm' = calm
        /\ rec.pc = "snapshot"
    BY <1>1, <1>4 DEF RecSnapshot, RecShape
  <2> QED BY <1>3, <2>1
         DEF PassInv, PendingInv, CopyInv, WalkInv, CalmInv, AloneInv, Unchecked
<1>5. CASE RecCheckRow
  <2>1. PICK path \in rec.todo :
          rec' = IF At(disk, path) # {}
                 THEN [rec EXCEPT !.todo = @ \ {path}]
                 ELSE [rec EXCEPT !.todo = @ \ {path}, !.pc = "deleteRow", !.victim = path]
    BY <1>5 DEF RecCheckRow
  <2>2. /\ rec'.snap = rec.snap /\ rec'.todo = rec.todo \ {path} /\ rec'.pending = rec.pending
        /\ rec'.ok = rec.ok /\ rec.pc = "rows" /\ calm' = calm
    BY <1>1, <1>5, <2>1 DEF RecCheckRow, RecShape
  <2>3. \/ rec'.pc = "rows" /\ path \in Paths(disk)
        \/ rec'.pc = "deleteRow" /\ rec'.victim = path /\ path \notin Paths(disk)
    BY <1>1, <2>1, <2>2 DEF RecShape, At, Paths
  <2> QED BY <1>3, <2>2, <2>3
         DEF PassInv, PendingInv, CopyInv, WalkInv, CalmInv, AloneInv, Unchecked
<1>6. ASSUME rec.pc \in {"rows", "walk"}, UNCHANGED calm, rec'.pc = "walk",
             rec'.snap = rec.snap, rec'.ok = rec.ok, PendingInv',
             rec.pc = "rows" => rec.todo = {},
             rec.ok => Awaited' /\ AsListed'
      PROVE  PassInv'
  <2>1. (rec.ok /\ rec.pc = "rows") => Paths(rows) \subseteq Paths(disk)
    BY <1>6 DEF PassInv, CopyInv, Unchecked
  <2>2. Paths(rows) \subseteq Paths(disk) => ListedAreThere
    BY DEF ListedAreThere, Paths
  <2>3. CopyInv' /\ AloneInv'
    BY <1>3, <1>6 DEF PassInv, CopyInv, AloneInv
  <2>4. WalkInv'
    BY <1>3, <1>6, <2>1, <2>2 DEF PassInv, WalkInv
  <2>5. CalmInv'
    BY <1>3, <1>6, <2>1 DEF PassInv, CalmInv
  <2> QED BY <1>6, <2>3, <2>4, <2>5 DEF PassInv
<1>7. ASSUME NEW dir \in Seq(Segment), NEW left, left \subseteq rec.pending,
             rec' = Listing(dir, left), rec.pc \in {"rows", "walk"}, UNCHANGED calm,
             rec.pc = "rows" => rec.todo = {},
             rec.ok => \A e \in disk : \/ e.path \in Paths(rows)
                                       \/ Under(dir, e.path)
                                       \/ \E q \in left : AtOrUnder(q.path, e.path),
             (rec.ok /\ rec.pc = "rows") => left = {}
      PROVE  PassInv'
  <2> DEFINE here == Kinds(Children(dir))
  <2>1. /\ rec'.pc = "walk" /\ rec'.snap = rec.snap /\ rec'.ok = rec.ok
        /\ rec'.pending = left \cup here
    BY <1>1, <1>7 DEF Listing, RecShape
  <2>2. Children(dir) \subseteq disk
    BY DEF Children
  <2>3. \A q \in here : /\ q.path \in Seq(Segment) /\ q.path # <<>>
                        /\ \A d \in disk : d.path = q.path => d.dir = q.dir
    BY <1>1, <2>2, ListingListed
  <2>4. \A e \in disk : Under(dir, e.path) => \E q \in here : AtOrUnder(q.path, e.path)
    BY <1>1, ListingAwaits
  <2> HIDE DEF here
  <2>5. PendingInv'
    BY <1>7, <2>1, <2>3 DEF PassInv, PendingInv
  <2>6. ASSUME rec.ok PROVE Awaited'
    BY <1>2, <1>3, <1>7, <2>1, <2>4, <2>6 DEF Awaited
  <2>7. ASSUME rec.ok PROVE AsListed'
    <3>1. rec.pc = "walk" => AsListed
      BY <2>7 DEF PassInv, WalkInv
    <3>2. rec.pc = "rows" => left = {}
      BY <1>7, <2>7
    <3> QED BY <1>2, <1>7, <2>1, <2>3, <3>1, <3>2 DEF AsListed
  <2> QED BY <1>6, <1>7, <2>1, <2>5, <2>6, <2>7
<1>8. CASE RecRowsDone
  <2>1. <<>> \in Seq(Segment)
    OBVIOUS
  <2>2. \A e \in disk : Under(<<>>, e.path)
    <3> TAKE e \in disk
    <3>1. e.path \in Seq(Segment) /\ e.path # <<>>
      BY <1>1, Entries DEF Shaped
    <3>2. Len(e.path) \in Nat /\ Len(e.path) # 0
      BY <3>1, LenProperties, EmptySeq
    <3>3. Len(<<>>) < Len(e.path) /\ 1..Len(<<>>) = {}
      BY <3>2
    <3>4. \A i \in 1..Len(<<>>) : <<>>[i] = e.path[i]
      BY <3>3
    <3> QED BY <2>1, <3>1, <3>3, <3>4, UnderMeans
  <2>3. rec.pc = "rows" /\ rec.todo = {} /\ rec' = Listing(<<>>, {}) /\ UNCHANGED calm
    BY <1>8 DEF RecRowsDone
  <2> QED BY <1>7, <2>1, <2>2, <2>3
<1>9. CASE RecListMore
  <2>1. PICK e \in disk :
          rec' = [rec EXCEPT !.pending = @ \cup Kinds({e}), !.listed = @ \cup {e.path}]
    BY <1>9 DEF RecListMore
  <2>2. rec.pc = "walk" /\ UNCHANGED calm
    BY <1>9 DEF RecListMore
  <2> DEFINE here == Kinds({e})
  <2>3. /\ rec'.pc = "walk" /\ rec'.snap = rec.snap /\ rec'.ok = rec.ok
        /\ rec'.pending = rec.pending \cup here
    BY <1>1, <2>1, <2>2 DEF RecShape
  <2>4. \A q \in here : /\ q.path \in Seq(Segment) /\ q.path # <<>>
                        /\ \A d \in disk : d.path = q.path => d.dir = q.dir
    BY <1>1, ListingListed
  <2> HIDE DEF here
  <2>5. PendingInv'
    BY <2>3, <2>4 DEF PassInv, PendingInv
  <2>6. ASSUME rec.ok PROVE Awaited' /\ AsListed'
    <3>1. Awaited /\ AsListed
      BY <2>2, <2>6 DEF PassInv, WalkInv
    <3> QED BY <1>2, <1>3, <2>3, <2>4, <3>1 DEF Awaited, AsListed
  <2> QED BY <1>6, <2>2, <2>3, <2>5, <2>6
<1>10. CASE RecKeep
  <2>1. PICK e \in rec.pending :
          /\ ~IsOrphan(e)
          /\ rec' = IF ~e.dir THEN [rec EXCEPT !.pending = @ \ {e}]
                    ELSE IF IsDirAt(e.path) THEN Listing(e.path, rec.pending \ {e})
                    ELSE RecOff
    BY <1>10 DEF RecKeep
  <2>2. rec.pc = "walk" /\ UNCHANGED calm
    BY <1>10 DEF RecKeep
  <2>3. e.path \in rec.snap /\ e.path \in Seq(Segment) /\ e.path # <<>>
    BY <2>1 DEF IsOrphan, PassInv, PendingInv
  <2>4. ASSUME rec.ok, NEW d \in disk
        PROVE  \/ d.path \in Paths(rows)
               \/ Under(e.path, d.path)
               \/ \E q \in rec.pending \ {e} : AtOrUnder(q.path, d.path)
    <3>1. Awaited /\ rec.snap \cap Paths(disk) \subseteq Paths(rows)
      BY <2>2, <2>4 DEF PassInv, WalkInv, CopyInv
    <3>2. d.path = e.path => d.path \in Paths(rows)
      BY <2>3, <3>1 DEF Paths
    <3> QED BY <3>1, <3>2 DEF Awaited, AtOrUnder
  <2>5. CASE ~e.dir
    <3>1. /\ rec'.pc = "walk" /\ rec'.snap = rec.snap /\ rec'.ok = rec.ok
          /\ rec'.pending = rec.pending \ {e}
      BY <1>1, <2>1, <2>2, <2>5 DEF RecShape
    <3>2. PendingInv'
      BY <3>1 DEF PassInv, PendingInv
    <3>3. ASSUME rec.ok PROVE Awaited' /\ AsListed'
      <4>1. AsListed
        BY <2>2, <3>3 DEF PassInv, WalkInv
      <4>2. \A d \in disk : ~Under(e.path, d.path)
        BY <1>1, <2>3, <2>5, <4>1, AboveIsDir DEF AsListed, Shaped, DirIn
      <4>3. Awaited'
        BY <1>2, <1>3, <2>4, <3>1, <3>3, <4>2 DEF Awaited
      <4> QED BY <1>2, <3>1, <4>1, <4>3 DEF AsListed
    <3> QED BY <1>6, <2>2, <3>1, <3>2, <3>3
  <2>6. CASE rec' = Listing(e.path, rec.pending \ {e})
    BY <1>7, <2>2, <2>3, <2>4, <2>6
  <2>7. CASE rec' = RecOff
    <3>1. rec'.pc = "off" /\ rec'.ok /\ rec'.pending = {}
      BY <2>7 DEF RecOff
    <3> QED BY <1>3, <2>2, <3>1
           DEF PassInv, PendingInv, CopyInv, WalkInv, CalmInv, AloneInv
  <2> QED BY <2>1, <2>5, <2>6, <2>7
<1>11. CASE RecDone
  <2>1. /\ rec.pc = "walk" /\ rec.pending = {}
        /\ rec'.pc = "off" /\ rec'.ok /\ rec'.pending = {}
        /\ calm' = IF rec.ok /\ calm < 2 THEN calm + 1 ELSE calm
    BY <1>11 DEF RecDone, RecOff
  <2>2. rec.ok => ListedAreThere /\ Paths(disk) \subseteq Paths(rows) /\ Quiescent
    BY <2>1 DEF PassInv, WalkInv, Awaited, AloneInv, Paths
  <2>3. (calm >= 1) => rec.ok /\ Paths(rows) \subseteq Paths(disk)
    BY <2>1 DEF PassInv, CalmInv
  <2>4. PendingInv' /\ CopyInv' /\ WalkInv'
    BY <2>1 DEF PendingInv, CopyInv, WalkInv
  <2>5. calm' >= 1 => rec.ok
    BY <1>1, <2>1, <2>3
  <2>6. calm' = 2 => calm >= 1
    BY <1>1, <2>1
  <2>7. CalmInv' /\ AloneInv'
    BY <1>3, <2>1, <2>2, <2>3, <2>5, <2>6 DEF CalmInv, AloneInv
  <2> QED BY <2>4, <2>7 DEF PassInv
<1> QED BY <1>4, <1>5, <1>8, <1>9, <1>10, <1>11

\* The pass removes a row, or what has none.
LEMMA PassRemoves ==
  ASSUME Inv, TreeInv, RecInv, PassInv, PartName = {}, RecDeleteRow \/ RecRemove
  PROVE  PassInv'
<1>1. RecShape(rec) /\ calm \in 0..2 /\ Shaped(disk)
  BY DEF RecInv, TreeInv
<1>2. UNCHANGED <<proc, calm>>
  BY DEF RecDeleteRow, RecRemove
<1>3. (Quiescent <=> Quiescent')
  BY <1>2 DEF Quiescent
<1>4. CASE RecDeleteRow
  <2>1. /\ rec.pc = "deleteRow" /\ rec'.pc = "rows" /\ rec'.snap = rec.snap
        /\ rec'.todo = rec.todo /\ rec'.pending = rec.pending /\ rec'.ok = rec.ok
        /\ rows' = rows \ At(rows, rec.victim) /\ UNCHANGED disk
    BY <1>1, <1>4 DEF RecDeleteRow, RecGoto, RecShape
  <2>2. Paths(rows)' = Paths(rows) \ {rec.victim} /\ Paths(disk)' = Paths(disk)
    BY <2>1 DEF Paths, At
  <2>3. rec.ok => rec.victim \notin Paths(disk)
    BY <2>1 DEF PassInv, CopyInv
  <2>4. CopyInv'
    BY <2>1, <2>2, <2>3 DEF PassInv, CopyInv, Unchecked
  <2>5. ListedAreThere => ListedAreThere'
    BY <2>1, <2>2 DEF ListedAreThere
  <2>6. CalmInv'
    BY <1>2, <2>1, <2>2, <2>3, <2>5 DEF PassInv, CalmInv
  <2> QED BY <1>2, <1>3, <2>1, <2>4, <2>6 DEF PassInv, PendingInv, WalkInv, AloneInv
<1>5. CASE RecRemove
  <2>1. PICK e \in rec.pending :
          /\ IsOrphan(e)
          /\ \/ /\ \E d \in At(disk, e.path) : d.dir = e.dir
                /\ disk' = disk \ Subtree(disk, e.path)
                /\ rec' = [rec EXCEPT !.pending = @ \ {e}]
             \/ rec' = RecOff /\ UNCHANGED disk
    BY <1>5 DEF RecRemove
  <2>2. rec.pc = "walk" /\ UNCHANGED rows
    BY <1>5 DEF RecRemove
  <2>3. e.path \in Seq(Segment) /\ e.path # <<>>
    BY DEF PassInv, PendingInv
  <2>4. Paths(rows)' = Paths(rows)
    BY <2>2 DEF Paths
  <2>5. CASE rec' = RecOff /\ UNCHANGED disk
    <3>1. rec'.pc = "off" /\ rec'.ok /\ rec'.pending = {}
      BY <2>5 DEF RecOff
    <3>2. Paths(disk)' = Paths(disk) /\ (ListedAreThere => ListedAreThere')
      BY <2>2, <2>5 DEF Paths, ListedAreThere
    <3> QED BY <1>2, <1>3, <2>2, <2>4, <3>1, <3>2
           DEF PassInv, PendingInv, CopyInv, WalkInv, CalmInv, AloneInv
  <2>6. CASE /\ \E d \in At(disk, e.path) : d.dir = e.dir
             /\ disk' = disk \ Subtree(disk, e.path)
             /\ rec' = [rec EXCEPT !.pending = @ \ {e}]
    <3>1. /\ rec'.pc = "walk" /\ rec'.snap = rec.snap /\ rec'.ok = rec.ok
          /\ rec'.pending = rec.pending \ {e}
      BY <1>1, <2>2, <2>6 DEF RecShape
    <3>2. Paths(disk)' \subseteq Paths(disk) /\ disk' \subseteq disk
      BY <2>6 DEF Paths
    <3>3. rec.ok => e.path \notin Paths(rows)
      BY <2>1, <2>2, OrphanHasNoRow DEF PassInv, CopyInv
    <3>4. e.path \in Paths(disk)
      BY <2>6 DEF At, Paths
    <3>5. calm >= 1 => FALSE
      BY <3>3, <3>4 DEF PassInv, CalmInv
    <3>6. calm # 2
      BY <1>1, <3>5
    <3>7. PendingInv'
      BY <3>1 DEF PassInv, PendingInv
    <3>8. CopyInv'
      BY <2>2, <2>4, <3>1, <3>2 DEF PassInv, CopyInv
    <3>9. WalkInv'
      <4> SUFFICES ASSUME rec.ok PROVE ListedAreThere' /\ Awaited' /\ AsListed'
        BY <3>1 DEF WalkInv
      <4>1. ListedAreThere /\ Awaited /\ AsListed
        BY <2>2 DEF PassInv, WalkInv
      <4>2. ListedAreThere'
        BY <2>2, <2>3, <2>6, <3>3, <4>1, TreeRemoved
      <4>3. Awaited'
        BY <2>4, <2>6, <3>1, <4>1 DEF Awaited, Subtree
      <4> QED BY <3>1, <3>2, <4>1, <4>2, <4>3 DEF AsListed
    <3> QED BY <1>2, <1>3, <2>2, <3>1, <3>5, <3>6, <3>7, <3>8, <3>9 DEF PassInv, CalmInv, AloneInv
  <2> QED BY <2>1, <2>5, <2>6
<1> QED BY <1>4, <1>5
LEMMA PassStep ==
  ASSUME Inv, TreeInv, RecInv, PassInv, PartName = {}, [NextStorage]_allvars
  PROVE  PassInv'
<1>1. CASE UNCHANGED allvars
  <2>1. UNCHANGED <<rows, disk, rec, calm, proc>>
    BY <1>1 DEF allvars, vars
  <2> QED BY <2>1 DEF PassInv, PendingInv, CopyInv, WalkInv, CalmInv, AloneInv, Unchecked,
                      ListedAreThere, Awaited, AsListed, Paths, Quiescent
<1> QED BY <1>1, PassDisturbed, PassRestarts, PassReads, PassRemoves DEF NextStorage, RecStep

LEMMA PassHolds ==
  ASSUME PartName = {}
  PROVE  SpecStorage => [](Inv /\ TreeInv /\ RecInv /\ PassInv)
<1>1. InitStorage => PassInv
  <2> SUFFICES ASSUME InitStorage PROVE PassInv
    OBVIOUS
  <2>1. rec.pc = "snapshot" /\ rec.pending = {} /\ calm = 0
    BY DEF InitStorage, RecStart, RecOff
  <2>2. Quiescent
    BY DEF InitStorage, Init, Quiescent, Idle
  <2> QED BY <2>1, <2>2 DEF PassInv, PendingInv, CopyInv, WalkInv, CalmInv, AloneInv
<1>2. Inv /\ TreeInv /\ RecInv /\ PassInv /\ [NextStorage]_allvars => PassInv'
  BY PassStep
<1> QED BY <1>1, <1>2, StorageTreeInv, PTL DEF SpecStorage

\* Where no name a client uses looks like a temporary file's, one pass that is
\* not disturbed leaves nothing on the disk without a row, and no row without
\* its entry unless a directory above it has none.
THEOREM PassesClean ==
  ASSUME PartName = {}
  PROVE  SpecStorage => []PassCleans
<1>1. PassInv => PassCleans
  BY DEF PassInv, CalmInv, ListedAreThere, PassCleans
<1> QED BY <1>1, PassHolds, PTL

\* .. and after two of them in a row, rows and disk have the same paths.
THEOREM PassesReconcile ==
  ASSUME PartName = {}
  PROVE  SpecStorage => []TwoPassesReconcile
<1>1. PassInv => TwoPassesReconcile
  BY DEF PassInv, CalmInv, TwoPassesReconcile
<1> QED BY <1>1, PassHolds, PTL

-----------------------------------------------------------------------------
(* What a pass keeps, when clients send nothing until it has ended.  Its   *)
(* copy of the rows is then never older than the rows themselves.          *)

QuietInv ==
  /\ PendingInv
  /\ rec.pc # "off" =>
       /\ Quiescent
       /\ rec.pc # "snapshot" => Paths(rows) \subseteq rec.snap

LEMMA QuietStays ==
  ASSUME RecInv, TreeInv, QuietInv, QuietRecovery, [NextStorage]_allvars
  PROVE  QuietInv'
<1>1. RecShape(rec) /\ Shaped(disk)
  BY DEF RecInv, TreeInv
<1>2. RecOff.pc = "off" /\ RecStart.pc = "snapshot" /\ RecOff.pending = {} /\ RecStart.pending = {}
  BY DEF RecOff, RecStart
<1>3. CASE UNCHANGED allvars
  BY <1>3 DEF allvars, vars, QuietInv, PendingInv, Quiescent, Paths
<1>4. CASE Serve
  <2>1. rec' = [rec EXCEPT !.ok = (rec.pc = "off")]
    BY <1>4 DEF Serve, Disturb
  <2>2. rec'.pc = rec.pc /\ rec'.pending = rec.pending
    BY <1>1, <2>1 DEF RecShape
  <2>3. PICK p \in Procs : \/ Start(p) /\ (QuietRecovery => rec.pc = "off")
                           \/ HandlerStep(p) \/ HandlerFault(p)
    BY <1>4 DEF Serve
  <2>4. ASSUME HandlerStep(p) \/ HandlerFault(p) PROVE proc[p].pc # "idle"
    BY <2>4, StepOfBusy
  <2>5. rec.pc = "off"
    BY <2>3, <2>4 DEF QuietInv, Quiescent
  <2> QED BY <2>2, <2>5 DEF QuietInv, PendingInv
<1>5. CASE Crash
  <2>1. rec' = RecStart /\ \A p \in Procs : proc'[p] = Idle
    BY <1>5 DEF Crash
  <2> QED BY <1>2, <2>1 DEF QuietInv, PendingInv, Quiescent, Idle
<1>6. CASE RecStep \/ RecFault \/ RecWalkFails
  <2>1. UNCHANGED proc /\ rec.pc # "off"
    BY <1>6 DEF RecStep, RecSnapshot, RecCheckRow, RecDeleteRow, RecRowsDone, RecListMore, RecKeep,
                RecRemove, RecDone, RecFault, RecWalkFails, vars
  <2>2. Quiescent'
    BY <2>1 DEF QuietInv, Quiescent
  <2>3. Paths(rows)' \subseteq Paths(rows)
    BY <1>6 DEF RecStep, RecSnapshot, RecCheckRow, RecDeleteRow, RecRowsDone, RecListMore, RecKeep,
                RecRemove, RecDone, RecFault, RecWalkFails, vars, store, Paths
  <2>4. \/ rec'.pc \in {"off", "snapshot"}
        \/ rec.pc = "snapshot" /\ rec'.snap = Paths(rows)
        \/ rec.pc # "snapshot" /\ rec'.snap = rec.snap
    <3>1. \A dir, left : Listing(dir, left).snap = rec.snap
      BY <1>1 DEF Listing, RecShape
    <3>2. CASE RecSnapshot
      BY <1>1, <3>2 DEF RecSnapshot, RecShape
    <3>3. CASE RecCheckRow \/ RecDeleteRow \/ RecListMore
      BY <1>1, <3>3 DEF RecCheckRow, RecDeleteRow, RecListMore, RecGoto, RecShape
    <3>4. CASE RecRowsDone \/ RecKeep
      <4>1. \/ rec' = RecOff
            \/ \E e \in rec.pending : rec' = [rec EXCEPT !.pending = @ \ {e}]
            \/ \E dir, left : rec' = Listing(dir, left)
        BY <3>4 DEF RecRowsDone, RecKeep
      <4>2. rec.pc # "snapshot"
        BY <3>4 DEF RecRowsDone, RecKeep
      <4> QED BY <1>1, <1>2, <3>1, <4>1, <4>2 DEF RecShape
    <3>5. CASE RecRemove \/ RecDone \/ RecFault \/ RecWalkFails
      BY <1>1, <1>2, <3>5 DEF RecRemove, RecDone, RecFault, RecWalkFails, RecShape
    <3> QED BY <1>6, <3>2, <3>3, <3>4, <3>5 DEF RecStep
  <2>5. PendingInv'
    <3>1. \A S \in SUBSET disk : \A q \in Kinds(S) : q.path \in Seq(Segment) /\ q.path # <<>>
      BY <1>1, ListingListed
    <3>2. \A dir : Children(dir) \in SUBSET disk
      BY DEF Children
    <3>3. \A e \in disk : {e} \in SUBSET disk
      OBVIOUS
    <3>4. \A dir, left : Listing(dir, left).pending = left \cup Kinds(Children(dir))
      BY <1>1 DEF Listing, RecShape
    <3>5. \/ rec'.pending \subseteq rec.pending
          \/ \E S \in SUBSET disk : rec'.pending \subseteq rec.pending \cup Kinds(S)
      <4>1. CASE RecListMore
        <5>1. PICK e \in disk :
                rec' = [rec EXCEPT !.pending = @ \cup Kinds({e}), !.listed = @ \cup {e.path}]
          BY <4>1 DEF RecListMore
        <5>2. rec'.pending = rec.pending \cup Kinds({e})
          BY <1>1, <5>1 DEF RecShape
        <5> QED BY <3>3, <5>2
      <4>2. CASE RecRowsDone
        BY <3>2, <3>4, <4>2 DEF RecRowsDone
      <4>3. CASE RecKeep
        <5>1. PICK e \in rec.pending :
                rec' = IF ~e.dir THEN [rec EXCEPT !.pending = @ \ {e}]
                       ELSE IF IsDirAt(e.path) THEN Listing(e.path, rec.pending \ {e})
                       ELSE RecOff
          BY <4>3 DEF RecKeep
        <5>2. CASE rec' = Listing(e.path, rec.pending \ {e})
          BY <3>2, <3>4, <5>2
        <5>3. CASE rec' = RecOff \/ rec' = [rec EXCEPT !.pending = @ \ {e}]
          BY <1>1, <1>2, <5>3 DEF RecShape
        <5> QED BY <5>1, <5>2, <5>3
      <4>4. CASE RecSnapshot \/ RecCheckRow \/ RecDeleteRow \/ RecRemove \/ RecDone
                   \/ RecFault \/ RecWalkFails
        <5>1. CASE RecSnapshot \/ RecCheckRow \/ RecDeleteRow
          BY <1>1, <5>1 DEF RecSnapshot, RecCheckRow, RecDeleteRow, RecGoto, RecShape
        <5>2. CASE RecRemove \/ RecDone
          BY <1>1, <1>2, <5>2 DEF RecRemove, RecDone, RecShape
        <5>3. CASE RecFault \/ RecWalkFails
          BY <1>1, <1>2, <5>3 DEF RecFault, RecWalkFails, RecShape
        <5> QED BY <4>4, <5>1, <5>2, <5>3
      <4> QED BY <1>6, <4>1, <4>2, <4>3, <4>4 DEF RecStep
    <3> QED BY <3>1, <3>5 DEF QuietInv, PendingInv
  <2> QED BY <2>1, <2>2, <2>3, <2>4, <2>5 DEF QuietInv
<1> QED BY <1>3, <1>4, <1>5, <1>6 DEF NextStorage

\* A pass removes what has no row, and what is below it.
LEMMA PassSpares ==
  ASSUME Inv, TreeInv, QuietInv, PartName = {}, [NextStorage]_allvars,
         rec.pc # "off", Quiescent, NEW e \in disk, Listable(e.path)
  PROVE  e \in disk'
<1>1. ASSUME NEW q \in rec.pending, IsOrphan(q), rec.pc = "walk" PROVE e \notin Subtree(disk, q.path)
  <2>1. q.path \notin Paths(rows)
    BY <1>1, OrphanHasNoRow DEF QuietInv
  <2>2. q.path \in Seq(Segment) /\ q.path # <<>> /\ e.path \in Seq(Segment)
    BY Entries DEF QuietInv, PendingInv, TreeInv, Shaped
  <2>3. AtOrUnder(q.path, e.path) => q.path \in Ancestors(e.path) \cup {e.path}
    BY <2>2, AncestorsAbove DEF AtOrUnder
  <2> QED BY <2>1, <2>3 DEF Listable, Subtree
<1>2. CASE UNCHANGED disk
  BY <1>2
<1>3. CASE RecRemove
  BY <1>1, <1>3 DEF RecRemove
<1>4. CASE RecWalkFails
  BY <1>1, <1>4 DEF RecWalkFails, Leftovers
<1>5. CASE Serve
  <2>1. PICK p \in Procs : Start(p) \/ HandlerStep(p) \/ HandlerFault(p)
    BY <1>5 DEF Serve
  <2>2. Start(p)
    BY <2>1, StepOfBusy DEF Quiescent
  <2> QED BY <1>2, <2>2 DEF Start, store
<1> QED BY <1>2, <1>3, <1>4, <1>5
       DEF NextStorage, allvars, vars, store, Crash, RecStep, RecSnapshot, RecCheckRow,
           RecDeleteRow, RecRowsDone, RecListMore, RecKeep, RecDone, RecFault

\* When clients wait for it, a pass removes no file that is listed in listed
\* directories, its own failures and crashes in the middle of it included.
THEOREM PassesKeepFiles ==
  ASSUME PartName = {}, QuietRecovery
  PROVE  SpecStorage => PassKeepsFiles
<1> DEFINE Keeps == (rec.pc # "off" /\ Quiescent) =>
                      \A e \in disk : (~e.dir /\ Listable(e.path)) => e \in disk'
<1>1. InitStorage => QuietInv
  <2> SUFFICES ASSUME InitStorage PROVE QuietInv
    OBVIOUS
  <2>1. rec.pc = "snapshot" /\ rec.pending = {}
    BY DEF InitStorage, RecStart, RecOff
  <2> QED BY <2>1 DEF InitStorage, Init, QuietInv, PendingInv, Quiescent, Idle
<1>2. Inv /\ TreeInv /\ RecInv /\ QuietInv /\ [NextStorage]_allvars => QuietInv'
  BY QuietStays
<1>3. Inv /\ TreeInv /\ QuietInv /\ [NextStorage]_allvars => [Keeps]_allvars
  BY PassSpares
<1> QED BY <1>1, <1>2, <1>3, StorageTreeInv, PTL DEF SpecStorage, PassKeepsFiles

=============================================================================
