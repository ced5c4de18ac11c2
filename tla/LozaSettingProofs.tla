--------------------------- MODULE LozaSettingProofs ---------------------------
(***************************************************************************)
(* What the handlers keep when clients send requests of some kinds only:   *)
(* each theorem names the kinds it rules out, and holds for every storage, *)
(* any number of handlers and of requests, and the faults it does not      *)
(* exclude.  The hypotheses are on the constants Requests and Faults.      *)
(* The last part is about requests that come one after the other, and the  *)
(* tree of LozaTree that their clients then see (LozaSequential).          *)
(***************************************************************************)
EXTENDS LozaFilesProofs, LozaSequential

\* No client sends a request of one of these operations.
Never(ops) == \A r \in Requests : r.op \notin ops

\* Handler q executes request r.
Carries(q, r) == q.op = r.op /\ q.from = r.from /\ q.to = r.to /\ q.data = r.data

\* What a handler executes a client has asked for.
AskedInv == \A p \in Procs : proc[p].pc # "idle" => \E r \in Requests : Carries(proc[p], r)

Reached == Inv /\ TreeInv /\ AskedInv

LEMMA AskedNever ==
  ASSUME AskedInv, NEW ops, Never(ops), NEW p \in Procs, proc[p].pc # "idle"
  PROVE  proc[p].op \notin ops
BY DEF AskedInv, Never, Carries

LEMMA HandlerAsked ==
  ASSUME Inv, AskedInv, NEW p \in Procs, Start(p) \/ HandlerStep(p) \/ HandlerFault(p)
  PROVE  AskedInv'
<1>1. CASE Start(p)
  <2>1. PICK r \in Requests : proc' = [proc EXCEPT ![p] = Accept(r, issued + 1)]
    BY <1>1 DEF Start
  <2>2. \A x \in Procs : proc'[x] = IF x = p THEN Accept(r, issued + 1) ELSE proc[x]
    BY <2>1 DEF Inv, ProcInv
  <2>3. Carries(Accept(r, issued + 1), r)
    BY DEF Carries, Accept
  <2>4. ASSUME NEW x \in Procs, proc'[x].pc # "idle"
        PROVE  \E s \in Requests : Carries(proc'[x], s)
    BY <2>2, <2>3, <2>4 DEF AskedInv
  <2> QED BY <2>4 DEF AskedInv, Carries
<1>2. CASE HandlerStep(p) \/ HandlerFault(p)
  <2>1. \A x \in Procs : Continues(proc'[x], proc[x])
    BY <1>2, HandlerContinues
  <2>2. ASSUME NEW x \in Procs, proc'[x].pc # "idle"
        PROVE  \E s \in Requests : Carries(proc'[x], s)
    BY <2>1, <2>2 DEF AskedInv, Carries, Continues
  <2> QED BY <2>2 DEF AskedInv, Carries
<1> QED BY <1>1, <1>2

LEMMA ReachedStep == Reached /\ [Next]_vars => Reached'
<1> SUFFICES ASSUME Reached, [Next]_vars PROVE Reached'
  OBVIOUS
<1>1. Inv'
  BY NextLemma DEF Reached
<1>2. CASE UNCHANGED vars
  <2>1. TreeInv'
    BY <1>2 DEF vars, Reached, TreeInv, Shaped, Tree, DirIn, TempsInv, TempNos, AcrossInv
  <2>2. AskedInv'
    BY <1>2 DEF vars, Reached, AskedInv, Carries
  <2> QED BY <1>1, <2>1, <2>2 DEF Reached
<1>3. ASSUME NEW p \in Procs, Start(p) \/ HandlerStep(p) \/ HandlerFault(p) PROVE Reached'
  BY <1>1, <1>3, HandlerTree, HandlerAsked DEF Reached
<1> QED BY <1>2, <1>3 DEF Next

LEMMA InitReached == Init => Reached
<1>1. Init => AskedInv
  BY DEF Init, AskedInv, Idle
<1> QED BY <1>1, InitLemma, InitTree DEF Reached

LEMMA AlwaysReached == Spec => []Reached
BY InitReached, ReachedStep, PTL DEF Spec

-----------------------------------------------------------------------------
(* Nobody deletes or renames: rows stay.                                   *)

\* A row that stays, perhaps with another checksum.
Keeps(S, T) == \A r \in S : \E s \in T : s.path = r.path /\ s.id = r.id /\ s.dir = r.dir

LEMMA RowsStay ==
  ASSUME Reached, Never({"delete", "rename"}), NEW p \in Procs,
         Start(p) \/ HandlerStep(p) \/ HandlerFault(p)
  PROVE  Keeps(rows, rows')
<1>1. ASSUME rows \subseteq rows' PROVE Keeps(rows, rows')
  BY <1>1 DEF Keeps
<1>2. CASE Start(p) \/ HandlerFault(p)
  BY <1>1, <1>2 DEF Start, HandlerFault, DbFails, DiskFails, DeleteFailsMidway, CopyFailsMidway,
                    UploadFails, Abandon, store
<1>3. CASE HandlerStep(p)
  <2>1. proc[p].op \notin {"delete", "rename"}
    BY <1>3, StepOfBusy, AskedNever DEF Reached
  <2>2. CASE UploadUpsert(p) /\ Target(p) \in Paths(rows)
    <3> DEFINE U(r) == IF r.path = Target(p) THEN [r EXCEPT !.sha = proc[p].data] ELSE r
    <3>1. rows' = {U(r) : r \in rows}
      BY <2>2 DEF UploadUpsert
    <3>2. \A r \in rows : U(r).path = r.path /\ U(r).id = r.id /\ U(r).dir = r.dir
      BY DEF Reached, Inv, RowInv, RowType
    <3> HIDE DEF U
    <3> QED BY <3>1, <3>2 DEF Keeps
  <2>3. CASE ~(UploadUpsert(p) /\ Target(p) \in Paths(rows))
    BY <1>1, <1>3, <2>1, <2>3
       DEF HandlerStep, ParentRow, Upload, UploadCheck, UploadMakeParents, UploadCreateTemp,
           UploadStream, UploadPublish, UploadUpsert, Delete, DeleteCheck, DeleteDisk, DeleteRows,
           ReadSource, CheckTarget, TargetParents, Rename, RenameDisk, RenameRows, Copy, CopyDisk,
           CopyInsert, CopyRollback, CopyChildRows, CopyResult, Mkdir, MkdirCheck, MkdirDisk,
           MkdirInsert, Share, ShareLookup, ShareInsert, AtStep, store
  <2> QED BY <2>2, <2>3
<1> QED BY <1>2, <1>3

\* (upload_file, "UPSERT preserving the existing id")  As long as nobody deletes
\* or renames, a row stays with its id whatever the handlers overwrite and
\* whatever fails: share links survive.
THEOREM RowsOutliveOverwrites ==
  ASSUME Never({"delete", "rename"})
  PROVE  Spec => NodesStay
<1>1. Reached /\ [Next]_vars =>
        [\A r \in rows : \E s \in rows' : s.path = r.path /\ s.id = r.id /\ s.dir = r.dir]_vars
  BY RowsStay DEF Next, Keeps
<1> QED BY <1>1, AlwaysReached, PTL DEF Spec, NodesStay

-----------------------------------------------------------------------------
(* Nobody deletes, renames or copies: what is on the disk stays there.      *)

Adding == Never({"delete", "rename", "copy"})

\* Of what is not still being written, every entry stays, with its kind.
KeepsEntries(S, T) ==
  \A e \in S : ~IsTemp(e.path) => \E d \in T : d.path = e.path /\ d.dir = e.dir

\* What an upload publishes replaces a file at most, and moves no other one.
LEMMA PublishedDisk ==
  ASSUME Inv, TreeInv, NEW p \in Procs, proc[p].pc # "idle",
         NEW t, t = Temp(p), CanRename(t, Target(p)), NEW S, S = RenamedDisk(t, Target(p))
  PROVE  \E s \in disk :
           /\ s.path = t /\ ~s.dir
           /\ \A e \in disk : ~IsTemp(e.path) => e \in S \/ (e.path = Target(p) /\ ~e.dir)
           /\ \A e \in S : e \in disk \/ e = [s EXCEPT !.path = Target(p)]
           /\ [s EXCEPT !.path = Target(p)] \in S
           /\ t \notin Paths(S)
<1>1. /\ Shaped(disk) /\ Target(p) \in Path /\ Target(p) \in Seq(Segment) /\ Target(p) # <<>>
  BY HandlerPaths
<1>2. t \in Seq(Segment) /\ t # <<>> /\ IsTemp(t) /\ ~AtOrUnder(t, Target(p))
  BY TempShape
<1>3. PICK s \in disk : s.path = t
  BY DEF CanRename, At
<1>4. ~s.dir
  BY <1>1, <1>2, <1>3 DEF Shaped
<1>5. ASSUME NEW e \in Subtree(disk, t) PROVE e = s
  <2>1. e \in disk /\ e.path \in Seq(Segment) /\ AtOrUnder(t, e.path)
    BY <1>1, Entries DEF Subtree, Shaped
  <2>2. Under(t, e.path) => s.dir
    BY <1>1, <1>2, <1>3, <2>1, AboveIsDir DEF Shaped
  <2> QED BY <1>1, <1>3, <1>4, <2>1, <2>2 DEF AtOrUnder, Shaped, Tree
<1>6. s \in Subtree(disk, t)
  BY <1>3 DEF Subtree, AtOrUnder
<1>7. Rebase(t, t, Target(p)) = Target(p)
  BY <1>1, <1>2, RebaseProperties
<1>8. S = {e \in disk : ~AtOrUnder(t, e.path) /\ e.path # Target(p)}
            \cup {[s EXCEPT !.path = Target(p)]}
  <2>1. [s EXCEPT !.path = Rebase(@, t, Target(p))] = [s EXCEPT !.path = Target(p)]
    BY <1>3, <1>7
  <2>2. {[e EXCEPT !.path = Rebase(@, t, Target(p))] : e \in Subtree(disk, t)}
          = {[s EXCEPT !.path = Target(p)]}
    BY <1>5, <1>6, <2>1
  <2> QED BY <2>2 DEF RenamedDisk
<1>9. \A e \in disk : ~IsTemp(e.path) => e \in S \/ (e.path = Target(p) /\ ~e.dir)
  <2> SUFFICES ASSUME NEW e \in disk, ~IsTemp(e.path), e \notin S
               PROVE  e.path = Target(p) /\ ~e.dir
    OBVIOUS
  <2>1. ~AtOrUnder(t, e.path)
    BY <1>1, <1>2, BelowTemp
  <2>2. e.path = Target(p)
    BY <1>8, <2>1
  <2>3. s.dir = e.dir
    BY <1>3, <2>2 DEF CanRename, At
  <2> QED BY <1>4, <2>2, <2>3
<1>10. t \notin Paths(S)
  <2>1. s \in DiskType
    BY <1>1 DEF Shaped
  <2>2. [s EXCEPT !.path = Target(p)].path = Target(p)
    BY <2>1 DEF DiskType
  <2> QED BY <1>2, <1>8, <2>2 DEF Paths, AtOrUnder
<1> QED BY <1>3, <1>4, <1>8, <1>9, <1>10

LEMMA EntriesStay ==
  ASSUME Reached, Adding, NEW p \in Procs, Start(p) \/ HandlerStep(p) \/ HandlerFault(p)
  PROVE  KeepsEntries(disk, disk')
<1>1. ASSUME disk \subseteq disk' PROVE KeepsEntries(disk, disk')
  BY <1>1 DEF KeepsEntries
<1>2. CASE Start(p)
  BY <1>1, <1>2 DEF Start, store
<1> SUFFICES ASSUME HandlerStep(p) \/ HandlerFault(p) PROVE KeepsEntries(disk, disk')
  BY <1>2
<1>3. proc[p].pc # "idle"
  BY StepOfBusy
<1>4. proc[p].op \notin {"delete", "rename", "copy"}
  BY <1>3, AskedNever DEF Adding, Reached
<1>5. CASE HandlerFault(p)
  <2>1. IsTemp(Temp(p))
    BY <1>3, TempShape DEF Reached
  <2>2. CASE UploadFails(p)
    BY <2>1, <2>2 DEF UploadFails, KeepsEntries, At
  <2>3. CASE ~UploadFails(p)
    BY <1>1, <1>4, <1>5, <2>3 DEF HandlerFault, DbFails, DiskFails, DeleteFailsMidway, CopyFailsMidway,
                                  Abandon, AtStep, store
  <2> QED BY <2>2, <2>3
<1>6. CASE UploadStream(p)
  <2> DEFINE W(d) == IF d.data = Partial /\ Last(d.path) = proc[p].rid
                     THEN [d EXCEPT !.data = proc[p].data] ELSE d
  <2>1. disk' = {W(d) : d \in disk}
    BY <1>6 DEF UploadStream
  <2>2. \A d \in disk : W(d).path = d.path /\ W(d).dir = d.dir
    BY DEF Reached, TreeInv, Shaped, DiskType
  <2> HIDE DEF W
  <2> QED BY <2>1, <2>2 DEF KeepsEntries
<1>7. CASE UploadPublish(p)
  <2>1. IsTemp(Temp(p))
    BY <1>3, TempShape DEF Reached
  <2>2. CASE disk' = disk \ At(disk, Temp(p))
    BY <2>1, <2>2 DEF KeepsEntries, At
  <2>3. CASE CanRename(Temp(p), Target(p)) /\ disk' = RenamedDisk(Temp(p), Target(p))
    <3>1. PICK s \in disk :
            /\ ~s.dir
            /\ \A e \in disk : ~IsTemp(e.path) => e \in disk' \/ (e.path = Target(p) /\ ~e.dir)
            /\ [s EXCEPT !.path = Target(p)] \in disk'
      BY <1>3, <2>3, PublishedDisk DEF Reached
    <3>2. s \in DiskType
      BY DEF Reached, TreeInv, Shaped
    <3>3. [s EXCEPT !.path = Target(p)].path = Target(p) /\ ~[s EXCEPT !.path = Target(p)].dir
      BY <3>1, <3>2 DEF DiskType
    <3>4. ASSUME NEW e \in disk, ~IsTemp(e.path)
          PROVE  \E d \in disk' : d.path = e.path /\ d.dir = e.dir
      <4>1. CASE e \in disk'
        BY <4>1
      <4>2. CASE e \notin disk'
        <5>1. e.path = Target(p) /\ ~e.dir
          BY <3>1, <3>4, <4>2
        <5>2. e.dir = FALSE
          BY <5>1 DEF Reached, TreeInv, Shaped, DiskType
        <5>3. [s EXCEPT !.path = Target(p)].dir = FALSE
          BY <3>1, <3>2 DEF DiskType
        <5> QED BY <3>1, <3>3, <5>1, <5>2, <5>3
      <4> QED BY <4>1, <4>2
    <3> QED BY <3>4 DEF KeepsEntries
  <2> QED BY <1>7, <2>2, <2>3 DEF UploadPublish
<1>8. CASE HandlerStep(p) /\ ~UploadStream(p) /\ ~UploadPublish(p)
  BY <1>1, <1>4, <1>8
     DEF HandlerStep, ParentRow, Upload, UploadCheck, UploadMakeParents, UploadCreateTemp,
         UploadUpsert, Delete, DeleteCheck, DeleteDisk, DeleteRows,
         ReadSource, CheckTarget, TargetParents, Rename, RenameDisk, RenameRows, Copy, CopyDisk,
         CopyInsert, CopyRollback, CopyChildRows, CopyResult, Mkdir, MkdirCheck, MkdirDisk,
         MkdirInsert, Share, ShareLookup, ShareInsert, AtStep, store, WithDirs
<1> QED BY <1>5, <1>6, <1>7, <1>8

\* (download_file)  As long as nobody deletes, renames or copies, a file that
\* can be downloaded stays downloadable, whatever is uploaded over it or beside
\* it and whatever fails.
THEOREM NothingStopsServing ==
  ASSUME Adding
  PROVE  Spec => StillServed
<1>1. ASSUME NEW p \in Procs, Reached, Start(p) \/ HandlerStep(p) \/ HandlerFault(p),
             NEW path \in Paths(disk), Served(path) # {}
      PROVE  Served(path)' # {}
  <2>1. Keeps(rows, rows') /\ KeepsEntries(disk, disk')
    BY <1>1, RowsStay, EntriesStay DEF Adding, Never
  <2>2. PICK e \in disk, r \in rows : e.path = path /\ ~e.dir /\ r.path = path /\ ~r.dir
    BY <1>1 DEF Served, At
  <2>3. ~IsTemp(path)
    BY <1>1, <2>2, PathTypes DEF Reached, Inv, RowInv, RowType, IsTemp
  <2>4. PICK s \in rows' : s.path = path /\ ~s.dir
    BY <2>1, <2>2 DEF Keeps
  <2>5. PICK d \in disk' : d.path = path /\ ~d.dir
    BY <2>1, <2>2, <2>3 DEF KeepsEntries
  <2>6. d.data \in Served(path)'
    BY <2>4, <2>5 DEF Served, At
  <2> QED BY <2>6
<1>2. ASSUME Reached, UNCHANGED vars, NEW path \in Paths(disk), Served(path) # {}
      PROVE  Served(path)' # {}
  BY <1>2 DEF vars, Served, At
<1>3. Reached /\ [Next]_vars =>
        [\A path \in Paths(disk) : Served(path) # {} => Served(path)' # {}]_vars
  BY <1>1, <1>2 DEF Next
<1> QED BY <1>3, AlwaysReached, PTL DEF Spec, StillServed

-----------------------------------------------------------------------------
(* Nobody renames or copies: temporary files are where they were made.      *)

Still == Never({"rename", "copy"})

\* What becomes of temporary files in a step of handler p: none but its own is
\* new or has other bytes, and it is made where p writes it.
LEMMA OwnTempOnly ==
  ASSUME Reached, Reached', Still, NEW p \in Procs, HandlerStep(p) \/ HandlerFault(p)
  PROVE  /\ \A e \in disk' : IsTemp(e.path) => e \in disk \/ Last(e.path) = proc[p].rid
         /\ \A e \in disk' : IsTemp(e.path) => \/ e.path \in Paths(disk)
                                               \/ e.path = Temp(p) /\ UploadCreateTemp(p)
<1>1. proc[p].pc # "idle"
  BY StepOfBusy
<1>2. proc[p].op \notin {"rename", "copy"}
  BY <1>1, AskedNever DEF Still, Reached
<1>3. Shaped(disk) /\ Shaped(disk')
  BY DEF Reached, TreeInv, Shaped, Tree, DirIn
<1> DEFINE t == Temp(p)
<1>4. t \in Seq(Segment) /\ t # <<>> /\ Last(t) = proc[p].rid /\ IsTemp(t)
  BY <1>1, TempShape DEF Reached
<1> HIDE DEF t
<1>5. ASSUME \A e \in disk' : IsTemp(e.path) => e \in disk
      PROVE  /\ \A e \in disk' : IsTemp(e.path) => e \in disk \/ Last(e.path) = proc[p].rid
             /\ \A e \in disk' : IsTemp(e.path) => \/ e.path \in Paths(disk)
                                                   \/ e.path = t /\ UploadCreateTemp(p)
  BY <1>5 DEF Paths
<1>6. CASE disk' \subseteq disk
  BY <1>5, <1>6 DEF t
<1>7. ASSUME NEW q, disk' = WithDirs(q) PROVE \A e \in disk' : IsTemp(e.path) => e \in disk
  <2>1. \A e \in disk' : e \in disk \/ e.dir
    BY <1>7 DEF WithDirs, Dir
  <2> QED BY <1>3, <2>1 DEF Shaped
<1>8. CASE UploadCreateTemp(p)
  <2>1. \A e \in disk' : e \in disk \/ e = File(t, Partial)
    BY <1>8 DEF UploadCreateTemp, t
  <2> QED BY <1>4, <1>8, <2>1 DEF File, Paths, t
<1>9. CASE UploadStream(p)
  <2> DEFINE W(d) == IF d.data = Partial /\ Last(d.path) = proc[p].rid
                     THEN [d EXCEPT !.data = proc[p].data] ELSE d
  <2>1. disk' = {W(d) : d \in disk}
    BY <1>9 DEF UploadStream
  <2>2. \A d \in disk : W(d).path = d.path /\ (W(d) = d \/ Last(d.path) = proc[p].rid)
    BY <1>3 DEF Shaped, DiskType
  <2> HIDE DEF W
  <2> QED BY <2>1, <2>2 DEF Paths
<1>10. CASE UploadPublish(p)
  <2>1. CASE disk' = disk \ At(disk, t)
    BY <1>6, <2>1
  <2>2. CASE CanRename(t, Target(p)) /\ disk' = RenamedDisk(t, Target(p))
    <3>a. t = Temp(p) /\ Inv /\ TreeInv
      BY DEF t, Reached
    <3>1. PICK s \in disk :
            /\ s.path = t /\ ~s.dir
            /\ \A e \in disk : ~IsTemp(e.path) => e \in disk' \/ (e.path = Target(p) /\ ~e.dir)
            /\ \A e \in disk' : e \in disk \/ e = [s EXCEPT !.path = Target(p)]
            /\ [s EXCEPT !.path = Target(p)] \in disk'
            /\ t \notin Paths(disk')
      BY <1>1, <2>2, <3>a, PublishedDisk
    <3>2. s \in DiskType
      BY <1>3 DEF Shaped
    <3>3. [s EXCEPT !.path = Target(p)].path = Target(p)
      BY <3>2 DEF DiskType
    <3>4. ~IsTemp(Target(p))
      BY <1>1, HandlerPaths, PathTypes DEF IsTemp, Reached
    <3> QED BY <1>5, <3>1, <3>3, <3>4 DEF t
  <2> QED BY <1>10, <2>1, <2>2 DEF UploadPublish, t
<1>11. CASE HandlerFault(p)
  BY <1>2, <1>6, <1>11 DEF HandlerFault, DbFails, DiskFails, DeleteFailsMidway, Leftovers, CopyFailsMidway,
                           UploadFails, Abandon, AtStep, store
<1>12. CASE HandlerStep(p) /\ ~UploadCreateTemp(p) /\ ~UploadStream(p) /\ ~UploadPublish(p)
  <2>1. disk' \subseteq disk \/ \E q : disk' = WithDirs(q)
    BY <1>2, <1>12
     DEF HandlerStep, ParentRow, Upload, UploadCheck, UploadMakeParents,
         UploadUpsert, Delete, DeleteCheck, DeleteDisk, DeleteRows,
         ReadSource, CheckTarget, TargetParents, Rename, RenameDisk, RenameRows, Copy, CopyDisk,
         CopyInsert, CopyRollback, CopyChildRows, CopyResult, Mkdir, MkdirCheck, MkdirDisk,
         MkdirInsert, Share, ShareLookup, ShareInsert, AtStep, store
  <2> QED BY <1>5, <1>6, <1>7, <2>1 DEF t
<1> QED BY <1>8, <1>9, <1>10, <1>11, <1>12

\* A temporary file holds what its upload has written of it: nothing complete
\* as long as the body is read, the body once it has been.
Written(q) == IF q.pc = "stream" THEN Partial ELSE q.data

WrittenInv ==
  \A p \in Procs : proc[p].pc \in {"stream", "publish"} =>
    \A e \in disk : e.path = Temp(p) => e.data = Written(proc[p])

\* The step of one handler leaves the others alone.
LEMMA OthersWait ==
  ASSUME Inv, NEW p \in Procs, Start(p) \/ HandlerStep(p) \/ HandlerFault(p)
  PROVE  \A x \in Procs : x # p => proc'[x] = proc[x]
BY DEF Inv, ProcInv, Start, HandlerStep, ParentRow, Upload, UploadCheck, UploadMakeParents,
       UploadCreateTemp, UploadStream, UploadPublish, UploadUpsert, Delete, DeleteCheck, DeleteDisk,
       DeleteRows, ReadSource, CheckTarget, TargetParents, Rename, RenameDisk, RenameRows, Copy,
       CopyDisk, CopyInsert, CopyRollback, CopyChildRows, CopyResult, Mkdir, MkdirCheck, MkdirDisk,
       MkdirInsert, Share, ShareLookup, ShareInsert, HandlerFault, DbFails, DiskFails,
       DeleteFailsMidway, CopyFailsMidway, UploadFails, Abandon, NextParent, GotoParents, Goto,
       Refuse, Succeed, Return

\* Where a handler at its temporary file goes, and where it comes from.
LEMMA TempSteps ==
  ASSUME Inv, NEW p \in Procs, HandlerStep(p) \/ HandlerFault(p)
  PROVE  /\ proc'[p].pc = "stream" => UploadCreateTemp(p)
         /\ proc'[p].pc = "publish" => UploadStream(p)
         /\ (proc[p].pc = "publish" /\ proc'[p].pc = "upsert") => UploadPublish(p)
         /\ proc[p].pc \in {"stream", "publish"} =>
              \/ UploadStream(p) \/ UploadPublish(p) \/ UploadFails(p) \/ Abandon(p)
<1>1. \A pc : Goto(p, pc) => proc'[p].pc = pc
  BY DEF Goto, Inv, ProcInv, ProcType
<1>2. \A r : Return(p, r) => proc'[p].pc = "idle"
  BY DEF Return, Inv, ProcInv, Idle
<1>3. ASSUME NEW k, NextParent(p, k), proc[p].op \in MakesParents
      PROVE  proc'[p].pc \in {"parentRows", "makeParents", "makeDir", "updateRows", "readResult"}
  <2>1. proc'[p].pc = ParentsFrom(p, k)
    BY <1>3 DEF NextParent, Inv, ProcInv, ProcType
  <2> QED BY <1>3, <2>1 DEF ParentsFrom, AfterParents, MakesParents
<1>4. CASE ParentRow(p)
  <2>1. proc[p].pc = "parentRows" /\ proc[p].op \in MakesParents
    BY <1>4 DEF ParentRow, Inv, ProcInv, Sound
  <2> QED BY <1>3, <1>4, <2>1 DEF ParentRow
<1>5. CASE Upload(p)
  BY <1>1, <1>2, <1>3, <1>5
     DEF Upload, UploadCheck, UploadMakeParents, UploadCreateTemp, UploadStream, UploadPublish,
         UploadUpsert, AtStep, Refuse, Succeed, GotoParents, MakesParents
<1>6. CASE Delete(p) \/ CheckTarget(p) \/ TargetParents(p)
  BY <1>1, <1>2, <1>6 DEF Delete, DeleteCheck, DeleteDisk, DeleteRows, CheckTarget, TargetParents, AtStep,
                          Refuse, Succeed
<1>7. CASE ReadSource(p) \/ ShareLookup(p)
  <2>1. proc[p].pc = "readRow"
    BY <1>7 DEF ReadSource, ShareLookup, AtStep
  <2>2. ASSUME NEW r, \/ proc' = [proc EXCEPT ![p].pc = "checkTarget", ![p].dir = r.dir, ![p].sha = r.sha]
                       \/ proc' = [proc EXCEPT ![p].pc = "insertShare", ![p].id = r.id]
        PROVE  proc'[p].pc \in {"checkTarget", "insertShare"}
    BY <2>2 DEF Inv, ProcInv, ProcType
  <2>3. proc'[p].pc \in {"checkTarget", "insertShare", "idle"}
    BY <1>2, <1>7, <2>2 DEF ReadSource, ShareLookup, Refuse
  <2> QED BY <2>1, <2>3
<1>8. CASE Rename(p) \/ Copy(p)
  BY <1>1, <1>2, <1>3, <1>8 DEF Rename, RenameDisk, RenameRows, Copy, CopyDisk, CopyInsert, CopyRollback,
                          CopyChildRows, CopyResult, AtStep, Refuse, Succeed, GotoParents, MakesParents
<1>9. CASE Mkdir(p) \/ ShareInsert(p)
  BY <1>1, <1>2, <1>3, <1>9 DEF Mkdir, MkdirCheck, MkdirDisk, MkdirInsert, ShareInsert, AtStep, Refuse,
                                Succeed, GotoParents, MakesParents
<1>10. CASE HandlerFault(p)
  BY <1>2, <1>10 DEF HandlerFault, DbFails, DiskFails, DeleteFailsMidway, CopyFailsMidway, UploadFails,
                     Abandon, Refuse, AtStep, SqlSteps, DiskSteps
<1> QED BY <1>4, <1>5, <1>6, <1>7, <1>8, <1>9, <1>10 DEF HandlerStep, Share

LEMMA TempOf ==
  ASSUME NEW p \in Procs, NEW x \in Procs, proc'[x].to = proc[x].to, proc'[x].rid = proc[x].rid
  PROVE  Temp(x)' = Temp(x)
BY DEF Temp, Target

LEMMA WrittenStep ==
  ASSUME Reached, Reached', Still, WrittenInv, NEW p \in Procs,
         Start(p) \/ HandlerStep(p) \/ HandlerFault(p)
  PROVE  WrittenInv'
<1> SUFFICES ASSUME NEW x \in Procs, proc'[x].pc \in {"stream", "publish"},
                    NEW e \in disk', e.path = Temp(x)'
             PROVE  e.data = Written(proc'[x])
  BY DEF WrittenInv, Written
<1>1. CASE Start(p)
  <2>1. p # x
    <3>1. PICK r \in Requests : proc' = [proc EXCEPT ![p] = Accept(r, issued + 1)]
      BY <1>1 DEF Start
    <3>2. proc'[p].pc = FirstStep[r.op] /\ r.op \in Ops
      BY <3>1, RequestAssumption DEF Accept, Reached, Inv, ProcInv, RequestType
    <3> QED BY <3>2 DEF FirstStep, Ops
  <2>2. proc'[x] = proc[x] /\ disk' = disk
    BY <1>1, <2>1, OthersWait DEF Reached, Start, store
  <2>3. Temp(x)' = Temp(x)
    BY <2>2, TempOf
  <2> QED BY <2>2, <2>3 DEF WrittenInv
<1>2. CASE HandlerStep(p) \/ HandlerFault(p)
  <2>1. proc[p].pc # "idle" /\ Continues(proc'[x], proc[x])
    BY <1>2, StepOfBusy, HandlerContinues DEF Reached
  <2>2. /\ proc[x].pc # "idle" /\ proc'[x].rid = proc[x].rid /\ proc'[x].to = proc[x].to
        /\ proc'[x].data = proc[x].data
    BY <2>1 DEF Continues
  <2>3. e.path = Temp(x)
    BY <2>2, TempOf
  <2>4. Last(Temp(x)) = proc[x].rid /\ IsTemp(Temp(x)) /\ (Early(proc[x]) => Temp(x) \notin Paths(disk))
    BY <2>2, TempShape DEF Reached
  <2>5. CASE x # p
    <3>1. proc'[x] = proc[x]
      BY <1>2, <2>5, OthersWait DEF Reached
    <3>2. proc[x].rid # proc[p].rid
      BY <2>1, <2>2, <2>5 DEF Reached, Inv, ProcInv
    <3>3. e \in disk
      BY <1>2, <2>3, <2>4, <3>2, OwnTempOnly
    <3> QED BY <2>3, <3>1, <3>3 DEF WrittenInv
  <2>6. CASE x = p /\ proc'[x].pc = "stream"
    <3>1. UploadCreateTemp(p)
      BY <1>2, <2>6, TempSteps DEF Reached
    <3>2. e \notin disk
      BY <2>3, <2>4, <3>1, <2>6 DEF UploadCreateTemp, AtStep, Early, Paths
    <3>3. disk' = disk \/ disk' = disk \cup {File(Temp(p), Partial)}
      BY <3>1 DEF UploadCreateTemp
    <3> QED BY <2>6, <3>2, <3>3 DEF File, Written
  <2>7. CASE x = p /\ proc'[x].pc = "publish"
    <3>1. UploadStream(p)
      BY <1>2, <2>7, TempSteps DEF Reached
    <3>2. PICK d \in disk :
            e = IF d.data = Partial /\ Last(d.path) = proc[p].rid
                THEN [d EXCEPT !.data = proc[p].data] ELSE d
      BY <3>1 DEF UploadStream
    <3>3. d \in DiskType
      BY DEF Reached, TreeInv, Shaped
    <3>4. d.path = e.path
      BY <3>2, <3>3 DEF DiskType
    <3>5. d.data = Partial
      BY <2>3, <2>7, <3>1, <3>4 DEF WrittenInv, Written, UploadStream, AtStep
    <3>6. e = [d EXCEPT !.data = proc[p].data]
      BY <2>3, <2>4, <2>7, <3>2, <3>4, <3>5
    <3>7. e.data = proc[p].data
      BY <3>3, <3>6 DEF DiskType
    <3> QED BY <2>2, <2>7, <3>7 DEF Written
  <2> QED BY <2>5, <2>6, <2>7
<1> QED BY <1>1, <1>2

\* (upload_file, "written to a temporary file .. and renamed atomically")  As
\* long as nobody moves or copies directories, what an upload gives its final
\* name is what its client sent, whatever other uploads and deletions do to the
\* directory meanwhile and whatever fails.
THEOREM WholeUploadsArePublished ==
  ASSUME Still
  PROVE  Spec => PublishedWhole
<1>1. Init => WrittenInv
  BY DEF Init, WrittenInv, Idle
<1>2. Reached /\ Reached' /\ WrittenInv /\ [Next]_vars => WrittenInv'
  <2>1. UNCHANGED vars /\ WrittenInv => WrittenInv'
    BY DEF vars, WrittenInv, Written, Temp, Target
  <2> QED BY <2>1, WrittenStep DEF Next
<1>3. ASSUME Reached, WrittenInv, NEW x \in Procs, Start(x) \/ HandlerStep(x) \/ HandlerFault(x),
             NEW p \in Procs, AtStep(p, "upload", "publish"), proc'[p].pc = "upsert"
      PROVE  File(Target(p), proc[p].data) \in disk'
  <2>1. x = p /\ ~Start(p)
    BY <1>3, OthersWait DEF Reached, AtStep, Start
  <2>2. UploadPublish(p) /\ proc[p].pc # "idle"
    BY <1>3, <2>1, TempSteps DEF Reached, AtStep
  <2>3. CanRename(Temp(p), Target(p)) /\ disk' = RenamedDisk(Temp(p), Target(p))
    <3>1. \A r : Return(p, r) => proc'[p].pc = "idle"
      BY <1>3 DEF Return, Reached, Inv, ProcInv, Idle
    <3> QED BY <1>3, <2>2, <3>1 DEF UploadPublish, Refuse
  <2>4. PICK s \in disk : s.path = Temp(p) /\ ~s.dir /\ [s EXCEPT !.path = Target(p)] \in disk'
    BY <1>3, <2>2, <2>3, PublishedDisk DEF Reached
  <2>5. s \in DiskType
    BY <1>3 DEF Reached, TreeInv, Shaped
  <2>6. s.data = proc[p].data
    BY <1>3, <2>4 DEF WrittenInv, Written, AtStep
  <2>7. [s EXCEPT !.path = Target(p)] = File(Target(p), proc[p].data)
    <3>1. s.dir = FALSE
      BY <2>4, <2>5 DEF DiskType
    <3>2. s = [path |-> s.path, dir |-> s.dir, data |-> s.data]
      BY <2>5 DEF DiskType
    <3>3. [s EXCEPT !.path = Target(p)] = [path |-> Target(p), dir |-> s.dir, data |-> s.data]
      BY <3>2
    <3> QED BY <2>6, <3>1, <3>3 DEF File
  <2> QED BY <2>4, <2>7
<1>4. Reached /\ WrittenInv /\ [Next]_vars =>
        [\A p \in Procs : (AtStep(p, "upload", "publish") /\ proc'[p].pc = "upsert")
                            => File(Target(p), proc[p].data) \in disk']_vars
  BY <1>3 DEF Next
<1> QED BY <1>1, <1>2, <1>4, AlwaysReached, PTL DEF Spec, PublishedWhole

-----------------------------------------------------------------------------
(* .. and no handler is dropped: none outlives its upload.                  *)

LEMMA StrayStep ==
  ASSUME Reached, Reached', Still, "drop" \notin Faults, NoStrayTemp, NEW p \in Procs,
         Start(p) \/ HandlerStep(p) \/ HandlerFault(p)
  PROVE  NoStrayTemp'
<1> SUFFICES ASSUME NEW e \in disk', IsTemp(e.path)
             PROVE  \E x \in Procs : proc'[x].pc \in {"stream", "publish"} /\ e.path = Temp(x)'
  BY DEF NoStrayTemp, IsTemp
<1>1. ASSUME NEW x \in Procs, x # p, proc[x].pc \in {"stream", "publish"}, e.path = Temp(x)
      PROVE  proc'[x].pc \in {"stream", "publish"} /\ e.path = Temp(x)'
  <2>1. proc'[x] = proc[x]
    BY <1>1, OthersWait DEF Reached
  <2> QED BY <1>1, <2>1, TempOf
<1>2. CASE Start(p)
  <2>1. disk' = disk /\ proc[p].pc = "idle"
    BY <1>2 DEF Start, store
  <2>2. PICK x \in Procs : proc[x].pc \in {"stream", "publish"} /\ e.path = Temp(x)
    BY <2>1 DEF NoStrayTemp
  <2> QED BY <1>1, <2>1, <2>2
<1>3. CASE HandlerStep(p) \/ HandlerFault(p)
  <2>1. proc[p].pc # "idle" /\ Continues(proc'[p], proc[p])
    BY <1>3, StepOfBusy, HandlerContinues DEF Reached
  <2>2. proc'[p].pc # "idle" => Temp(p)' = Temp(p)
    BY <2>1, TempOf DEF Continues
  <2>3. \A pc : Goto(p, pc) => proc'[p].pc = pc
    BY DEF Goto, Reached, Inv, ProcInv, ProcType
  <2>4. CASE UploadCreateTemp(p) /\ e.path \notin Paths(disk)
    <3>1. e.path = Temp(p)
      BY <1>3, <2>4, OwnTempOnly
    <3>2. Goto(p, "stream")
      BY <2>4 DEF UploadCreateTemp, Paths
    <3> QED BY <2>2, <2>3, <3>1, <3>2
  <2>5. CASE e.path \in Paths(disk)
    <3>1. PICK x \in Procs : proc[x].pc \in {"stream", "publish"} /\ e.path = Temp(x)
      BY <2>5 DEF NoStrayTemp, Paths
    <3>2. CASE x # p
      BY <1>1, <3>1, <3>2
    <3>3. CASE x = p
      <4>1. UploadStream(p) \/ UploadPublish(p) \/ UploadFails(p)
        BY <1>3, <3>1, <3>3, TempSteps DEF Reached, Abandon, Fault
      <4>2. CASE UploadStream(p)
        BY <2>2, <2>3, <3>1, <3>3, <4>2 DEF UploadStream
      <4>3. CASE UploadFails(p)
        BY <3>1, <3>3, <4>3 DEF UploadFails, At
      <4>4. CASE UploadPublish(p)
        <5>1. CanRename(Temp(p), Target(p)) => Temp(p) \notin Paths(RenamedDisk(Temp(p), Target(p)))
          BY <2>1, PublishedDisk DEF Reached
        <5> QED BY <3>1, <3>3, <4>4, <5>1 DEF UploadPublish, At, Paths
      <4> QED BY <4>1, <4>2, <4>3, <4>4
    <3> QED BY <3>2, <3>3
  <2> QED BY <1>3, <2>4, <2>5, OwnTempOnly
<1> QED BY <1>2, <1>3

LEMMA StrayNext ==
  ASSUME Still, "drop" \notin Faults
  PROVE  Spec => [](Reached /\ NoStrayTemp)
<1>1. Init => NoStrayTemp
  <2>1. Init => \A e \in disk : ~IsTemp(e.path)
    <3>1. \A i \in DOMAIN Stored : Stored[i] \in EntryType
      BY StoredAssumption, ElementOfSeq
    <3>2. \A i \in DOMAIN Stored : ~IsTemp(Stored[i].path)
      BY <3>1, PathTypes DEF EntryType, IsTemp
    <3> QED BY <3>2 DEF Init
  <2> QED BY <2>1 DEF NoStrayTemp
<1>2. Reached /\ Reached' /\ NoStrayTemp /\ [Next]_vars => NoStrayTemp'
  <2>1. UNCHANGED vars /\ NoStrayTemp => NoStrayTemp'
    BY DEF vars, NoStrayTemp, Temp, Target
  <2> QED BY <2>1, StrayStep DEF Next
<1> QED BY <1>1, <1>2, InitReached, ReachedStep, PTL DEF Spec

\* (upload_file, "the server leaves no garbage .loza-part")  As long as nobody
\* moves or copies directories and no handler is dropped, every temporary file
\* is one that a running upload still writes, however uploads and deletions
\* interleave and whatever fails.
THEOREM NoGarbage ==
  ASSUME Still, "drop" \notin Faults
  PROVE  Spec => []NoStrayTemp
BY StrayNext, PTL

-----------------------------------------------------------------------------
(* Nobody deletes, renames or copies, a body may break but nothing else     *)
(* fails, and clients agree which paths are directories: rows and disk list *)
(* the same nodes.                                                          *)

\* D are the directories that clients ask for, and those of the storage.
KindsAgreed(D) ==
  /\ \A i \in DOMAIN Stored : Stored[i].dir <=> Stored[i].path \in D
  /\ \A r \in Requests : r.op \in {"upload", "mkdir"} =>
       Ancestors(r.to) \subseteq D /\ (r.to \in D <=> r.op = "mkdir")

Agreeable(D) == Adding /\ Faults \subseteq {"stream"} /\ KindsAgreed(D)

\* Making the rows and the directories above the target; about to make the
\* target's own row.
Preparing == {"parentRows", "makeParents", "makeDir"}
Recording == {"upsert", "insertRow"}

\* What of its target's directories a handler q has made, R being the paths
\* with a row and E those with an entry on the disk.
Made(q, R, E) ==
  /\ q.pc = "parentRows" => \A i \in 1..q.k : SubSeq(q.to, 1, i) \in R
  /\ q.pc \in {"makeParents", "createTemp", "stream", "publish", "upsert", "makeDir", "insertRow"}
       => Ancestors(q.to) \subseteq R
  /\ q.pc \in {"createTemp", "stream", "publish", "upsert", "insertRow"}
       => Ancestors(q.to) \subseteq E
  /\ q.pc \in Recording => q.to \in E

MadeInv == \A p \in Procs : Made(proc[p], Paths(rows), Paths(disk))

KindsInv(D) ==
  /\ \A r \in rows : r.dir <=> r.path \in D
  /\ \A e \in disk : ~IsTemp(e.path) => (e.dir <=> e.path \in D)

\* A row without an entry is one of a directory that a handler is about to
\* make; an entry without a row is what a handler is about to record.
ListedInv ==
  \A r \in rows : \/ r.path \in Paths(disk)
                  \/ \E p \in Procs : proc[p].pc \in Preparing /\ r.path \in Ancestors(Target(p))

OnDiskInv ==
  \A e \in disk : \/ IsTemp(e.path) \/ e.path \in Paths(rows)
                  \/ \E p \in Procs : proc[p].pc \in Recording /\ e.path = Target(p)

Settled(D) == KindsInv(D) /\ MadeInv /\ ListedInv /\ OnDiskInv

\* What a step of handler p adds is of the right kind and accounted for, and
\* what the handler was to make it has made when it leaves.
AddsRows(p, D) ==
  \A r \in rows' :
    \/ \E s \in rows : s.path = r.path /\ (s.dir <=> r.dir)
    \/ /\ r.dir <=> r.path \in D
       /\ \/ r.path \in Paths(disk')
          \/ proc'[p].pc \in Preparing /\ r.path \in Ancestors(proc'[p].to)

AddsEntries(p, D) ==
  \A e \in disk' :
    \/ \E d \in disk : d.path = e.path /\ (d.dir <=> e.dir)
    \/ IsTemp(e.path)
    \/ /\ e.dir <=> e.path \in D
       /\ \/ e.path \in Paths(rows')
          \/ proc'[p].pc \in Recording /\ e.path = proc'[p].to

Leaves(p) ==
  /\ proc[p].pc \in Preparing =>
       \/ Ancestors(Target(p)) \subseteq Paths(disk')
       \/ proc'[p].pc \in Preparing /\ proc'[p].to = Target(p)
  /\ proc[p].pc \in Recording => Target(p) \in Paths(rows')

Advances(p, D) ==
  /\ AddsRows(p, D) /\ AddsEntries(p, D) /\ Leaves(p)
  /\ Made(proc'[p], Paths(rows'), Paths(disk'))

LEMMA PathsGrow ==
  ASSUME Reached, Adding, NEW p \in Procs, Start(p) \/ HandlerStep(p) \/ HandlerFault(p)
  PROVE  /\ Paths(rows) \subseteq Paths(rows')
         /\ \A q \in Paths(disk) : IsTemp(q) \/ q \in Paths(disk')
<1>1. Keeps(rows, rows')
  BY RowsStay DEF Adding, Never
<1>2. KeepsEntries(disk, disk')
  BY EntriesStay
<1> QED BY <1>1, <1>2 DEF Keeps, KeepsEntries, Paths

LEMMA AboveIsClient ==
  ASSUME NEW path \in Path
  PROVE  /\ ~IsTemp(path)
         /\ \A q \in Ancestors(path) : q \in Path /\ ~IsTemp(q)
<1>1. path \in Seq(Name)
  BY DEF Path
<1>2. \A q \in Ancestors(path) : q \in Path
  BY <1>1, AncestorsArePaths DEF Path
<1>3. \A q \in Path : ~IsTemp(q)
  BY PathTypes DEF IsTemp
<1> QED BY <1>2, <1>3

LEMMA MadeGrows ==
  ASSUME NEW q, q.to \in Path, NEW R, NEW E, NEW R2, NEW E2, Made(q, R, E), R \subseteq R2,
         \A path \in E : IsTemp(path) \/ path \in E2
  PROVE  Made(q, R2, E2)
<1>1. ~IsTemp(q.to) /\ \A path \in Ancestors(q.to) : ~IsTemp(path)
  BY AboveIsClient
<1> QED BY <1>1 DEF Made

\* A step that advances keeps rows and disk accounted for.
LEMMA AdvanceKeeps ==
  ASSUME Reached, Reached', NEW D, Agreeable(D), Settled(D), NEW p \in Procs,
         Start(p) \/ HandlerStep(p) \/ HandlerFault(p), Advances(p, D)
  PROVE  Settled(D)'
<1>1. /\ Paths(rows) \subseteq Paths(rows')
      /\ \A q \in Paths(disk) : IsTemp(q) \/ q \in Paths(disk')
  BY PathsGrow DEF Agreeable
<1>2. \A x \in Procs : x # p => proc'[x] = proc[x]
  BY OthersWait DEF Reached
<1>3. KindsInv(D)'
  <2>1. \A r \in rows' : r.dir <=> r.path \in D
    BY DEF Advances, AddsRows, Settled, KindsInv
  <2>2. \A e \in disk' : ~IsTemp(e.path) => (e.dir <=> e.path \in D)
    BY DEF Advances, AddsEntries, Settled, KindsInv
  <2> QED BY <2>1, <2>2 DEF KindsInv, IsTemp
<1>4. MadeInv'
  <2>1. ASSUME NEW x \in Procs PROVE Made(proc'[x], Paths(rows'), Paths(disk'))
    <3>1. CASE x = p
      BY <3>1 DEF Advances
    <3>2. CASE x # p /\ proc[x].pc # "idle"
      <4>1. proc[x].to \in Path
        BY <3>2, BusyHandler DEF Target, Reached
      <4>2. Made(proc[x], Paths(rows), Paths(disk))
        BY DEF Settled, MadeInv
      <4>3. Made(proc[x], Paths(rows'), Paths(disk'))
        BY <1>1, <4>1, <4>2, MadeGrows
      <4> QED BY <1>2, <3>2, <4>3
    <3>3. CASE x # p /\ proc[x].pc = "idle"
      <4>1. proc'[x].pc = "idle"
        BY <1>2, <3>3
      <4> QED BY <4>1 DEF Made, Recording
    <3> QED BY <3>1, <3>2, <3>3
  <2> QED BY <2>1 DEF MadeInv, Made, Paths
<1>5. ASSUME NEW r \in rows'
      PROVE  \/ r.path \in Paths(disk')
             \/ \E x \in Procs : proc'[x].pc \in Preparing /\ r.path \in Ancestors(proc'[x].to)
  <2>1. CASE \E s \in rows : s.path = r.path
    <3>1. PICK s \in rows : s.path = r.path
      BY <2>1
    <3>2. ~IsTemp(r.path)
      BY <3>1, AboveIsClient DEF Reached, Inv, RowInv, RowType
    <3>3. CASE s.path \in Paths(disk)
      BY <1>1, <3>1, <3>2, <3>3
    <3>4. ASSUME NEW x \in Procs, proc[x].pc \in Preparing, s.path \in Ancestors(Target(x))
          PROVE  \/ r.path \in Paths(disk')
                 \/ \E y \in Procs : proc'[y].pc \in Preparing /\ r.path \in Ancestors(proc'[y].to)
      <4>1. CASE x # p
        BY <1>2, <3>1, <3>4, <4>1 DEF Target
      <4>2. CASE x = p
        BY <3>1, <3>4, <4>2 DEF Advances, Leaves
      <4> QED BY <4>1, <4>2
    <3> QED BY <3>3, <3>4 DEF Settled, ListedInv
  <2>2. CASE ~\E s \in rows : s.path = r.path
    BY <2>2 DEF Advances, AddsRows
  <2> QED BY <2>1, <2>2
<1>6. ASSUME NEW e \in disk'
      PROVE  \/ IsTemp(e.path) \/ e.path \in Paths(rows')
             \/ \E x \in Procs : proc'[x].pc \in Recording /\ e.path = proc'[x].to
  <2>1. CASE \E d \in disk : d.path = e.path
    <3>1. PICK d \in disk : d.path = e.path
      BY <2>1
    <3>2. ASSUME NEW x \in Procs, proc[x].pc \in Recording, d.path = Target(x)
          PROVE  \/ e.path \in Paths(rows')
                 \/ \E y \in Procs : proc'[y].pc \in Recording /\ e.path = proc'[y].to
      <4>1. CASE x # p
        BY <1>2, <3>1, <3>2, <4>1 DEF Target
      <4>2. CASE x = p
        BY <3>1, <3>2, <4>2 DEF Advances, Leaves
      <4> QED BY <4>1, <4>2
    <3> QED BY <1>1, <3>1, <3>2 DEF Settled, OnDiskInv
  <2>2. CASE ~\E d \in disk : d.path = e.path
    BY <2>2 DEF Advances, AddsEntries
  <2> QED BY <2>1, <2>2
<1>7. ListedInv'
  BY <1>5 DEF ListedInv, Target, Paths
<1>8. OnDiskInv'
  BY <1>6 DEF OnDiskInv, Target, Paths, IsTemp
<1> QED BY <1>3, <1>4, <1>7, <1>8 DEF Settled, KindsInv, IsTemp

LEMMA AskedKinds ==
  ASSUME Reached, NEW D, Agreeable(D), NEW p \in Procs, proc[p].pc # "idle",
         proc[p].op \in {"upload", "mkdir"}
  PROVE  /\ Target(p) \in Path
         /\ Ancestors(Target(p)) \subseteq D
         /\ Target(p) \in D <=> proc[p].op = "mkdir"
<1>1. Target(p) \in Path
  BY BusyHandler DEF Reached
<1>2. PICK r \in Requests : Carries(proc[p], r)
  BY DEF Reached, AskedInv
<1>3. r.op \in {"upload", "mkdir"} /\ r.to = Target(p) /\ r.op = proc[p].op
  BY <1>2 DEF Carries, Target
<1> QED BY <1>1, <1>3 DEF Agreeable, KindsAgreed

\* Where directories belong nothing else is.
LEMMA ClearAbove ==
  ASSUME Reached, NEW D, KindsInv(D), NEW path \in Path, Ancestors(path) \subseteq D,
         NEW e \in disk, Under(e.path, path)
  PROVE  e.dir
<1>1. e.path \in Seq(Segment) /\ e.path # <<>> /\ path \in Seq(Segment)
  BY Entries, PathTypes DEF Reached, TreeInv, Shaped, Segment
<1>2. e.path \in Ancestors(path)
  BY <1>1, AncestorsAbove
<1>3. ~IsTemp(e.path)
  BY <1>2, AboveIsClient
<1> QED BY <1>2, <1>3 DEF KindsInv

LEMMA ParentsAncestors ==
  ASSUME NEW path \in Path
  PROVE  Ancestors(path) = IF Parent(path) = <<>> THEN {}
                           ELSE Ancestors(Parent(path)) \cup {Parent(path)}
<1> DEFINE up == Parent(path)
<1>1. path \in Seq(Name) /\ path # <<>> /\ up \in Seq(Name)
  BY PathTypes DEF Path
<1>2. \A q \in Seq(Name) : Under(q, path) <=> AtOrUnder(q, up)
  BY <1>1, UnderParent
<1> HIDE DEF up
<1>3. \A q \in Seq(Name) : q # <<>> => (Under(q, path) <=> q \in Ancestors(path))
  BY <1>1, AncestorsAbove
<1>4. \A q \in Seq(Name) : q # <<>> => (Under(q, up) <=> q \in Ancestors(up))
  BY <1>1, AncestorsAbove
<1>5. \A q \in Ancestors(path) : q \in Seq(Name) /\ q # <<>>
  BY <1>1, AncestorsArePaths
<1>6. \A q \in Ancestors(up) : q \in Seq(Name) /\ q # <<>>
  BY <1>1, AncestorsArePaths
<1>7. CASE up = <<>>
  <2>1. Ancestors(up) = {}
    BY <1>7 DEF Ancestors
  <2>2. \A q \in Ancestors(path) : FALSE
    BY <1>2, <1>3, <1>4, <1>5, <1>7, <2>1 DEF AtOrUnder
  <2> QED BY <1>7, <2>2 DEF up
<1>8. CASE up # <<>>
  <2>1. \A q : q \in Ancestors(path) <=> q \in Ancestors(up) \cup {up}
    BY <1>1, <1>2, <1>3, <1>4, <1>5, <1>6, <1>8 DEF AtOrUnder
  <2>2. Ancestors(path) = Ancestors(up) \cup {up}
    BY <2>1
  <2> QED BY <1>8, <2>2 DEF up
<1> QED BY <1>7, <1>8

\* create_dir_all makes directories at the path and above it.
LEMMA NewDirsAbove ==
  ASSUME NEW path, NEW e \in WithDirs(path), e \notin disk
  PROVE  e.dir = TRUE /\ path # <<>> /\ e.path \in Ancestors(path) \cup {path}
BY DEF WithDirs, Dir, MissingDirs

LEMMA ToParents ==
  ASSUME Reached, NEW p \in Procs, proc[p].op \in {"upload", "mkdir"}, Target(p) \in Path,
         NEW k \in Nat, k <= Len(Target(p)) - 1, NextParent(p, k),
         \A i \in 1..k : SubSeq(Target(p), 1, i) \in Paths(rows')
  PROVE  /\ Made(proc'[p], Paths(rows'), Paths(disk'))
         /\ proc'[p].pc \in Preparing /\ proc'[p].to = Target(p)
<1>1. proc'[p].pc = ParentsFrom(p, k) /\ proc'[p].to = Target(p) /\ proc'[p].k = k
  BY DEF NextParent, Reached, Inv, ProcInv, ProcType, Target
<1>2. Len(Target(p)) \in Nat
  BY LenProperties DEF Path
<1>3. CASE k < Len(Target(p)) - 1
  BY <1>1, <1>3 DEF ParentsFrom, Made, Preparing, Recording
<1>4. CASE ~(k < Len(Target(p)) - 1)
  <2>1. k = Len(Target(p)) - 1
    BY <1>2, <1>4
  <2>2. Ancestors(Target(p)) \subseteq Paths(rows')
    BY <2>1 DEF Ancestors
  <2>3. proc'[p].pc \in {"makeParents", "makeDir"}
    BY <1>1, <1>4 DEF ParentsFrom, AfterParents
  <2> QED BY <1>1, <2>2, <2>3 DEF Made, Preparing, Recording
<1> QED BY <1>3, <1>4

\* Steps that change neither rows nor disk.
LEMMA LooksOnly ==
  ASSUME NEW p \in Procs, NEW D, UNCHANGED <<rows, disk>>,
         proc[p].pc \notin Preparing \cup Recording,
         Made(proc'[p], Paths(rows'), Paths(disk'))
  PROVE  Advances(p, D)
BY DEF Advances, AddsRows, AddsEntries, Leaves

LEMMA StartAdvances ==
  ASSUME Reached, NEW D, NEW p \in Procs, Start(p)
  PROVE  Advances(p, D)
<1>1. PICK r \in Requests : proc' = [proc EXCEPT ![p] = Accept(r, issued + 1)]
  BY DEF Start
<1>2. proc'[p].pc = FirstStep[r.op] /\ r.op \in Ops
  BY <1>1, RequestAssumption DEF Accept, Reached, Inv, ProcInv, RequestType
<1>3. proc'[p].pc \in {"checkDisk", "checkRow", "readRow"}
  BY <1>2 DEF FirstStep, Ops
<1>4. Made(proc'[p], Paths(rows'), Paths(disk'))
  BY <1>3 DEF Made, Recording
<1>5. UNCHANGED <<rows, disk>> /\ proc[p].pc = "idle"
  BY DEF Start, store
<1> QED BY <1>4, <1>5, LooksOnly DEF Preparing, Recording

\* A handler that returns, or that has not begun, has nothing to account for.
LEMMA DoneMade ==
  ASSUME Reached, NEW p \in Procs, NEW R, NEW E,
         \/ \E r : Return(p, r) \/ Goto(p, "removeDisk") \/ proc'[p].pc = "insertShare"
  PROVE  Made(proc'[p], R, E)
<1>1. proc'[p].pc \in {"idle", "removeDisk", "insertShare"}
  BY DEF Return, Goto, Reached, Inv, ProcInv, ProcType, Idle
<1> QED BY <1>1 DEF Made, Recording

LEMMA CheckAdvances ==
  ASSUME Reached, NEW D, Agreeable(D), NEW p \in Procs, UploadCheck(p) \/ MkdirCheck(p)
  PROVE  Advances(p, D)
<1>1. /\ UNCHANGED <<rows, disk>> /\ proc[p].pc \in {"checkDisk", "checkRow"}
      /\ proc[p].op \in {"upload", "mkdir"}
      /\ Refuse(p) \/ NextParent(p, 0)
  BY DEF UploadCheck, MkdirCheck, AtStep, store, GotoParents
<1>2. Target(p) \in Path
  BY <1>1, BusyHandler DEF Reached
<1>3. Len(Target(p)) \in Nat \ {0}
  BY <1>2, EmptySeq DEF Path
<1>4. Made(proc'[p], Paths(rows'), Paths(disk'))
  <2>1. CASE Refuse(p)
    BY <2>1, DoneMade DEF Refuse
  <2>2. CASE NextParent(p, 0)
    <3>1. 0 \in Nat /\ 0 <= Len(Target(p)) - 1 /\ 1..0 = {}
      BY <1>3
    <3> QED BY <1>1, <1>2, <2>2, <3>1, ToParents
  <2> QED BY <1>1, <2>1, <2>2
<1> QED BY <1>1, <1>4, LooksOnly DEF Preparing, Recording

LEMMA ShareAdvances ==
  ASSUME Reached, NEW D, NEW p \in Procs, Share(p)
  PROVE  Advances(p, D)
<1>1. UNCHANGED <<rows, disk>> /\ proc[p].pc \in {"readRow", "insertShare"}
  BY DEF Share, ShareLookup, ShareInsert, AtStep, store
<1>2. ASSUME NEW r, proc' = [proc EXCEPT ![p].pc = "insertShare", ![p].id = r.id]
      PROVE  proc'[p].pc = "insertShare"
  BY <1>2 DEF Reached, Inv, ProcInv, ProcType
<1>3. Made(proc'[p], Paths(rows'), Paths(disk'))
  BY <1>2, DoneMade DEF Share, ShareLookup, ShareInsert, Refuse, Succeed
<1> QED BY <1>1, <1>3, LooksOnly DEF Preparing, Recording

LEMMA ParentRowAdvances ==
  ASSUME Reached, NEW D, Agreeable(D), Settled(D), NEW p \in Procs, ParentRow(p)
  PROVE  Advances(p, D)
<1> DEFINE n == proc[p].k + 1
           prefix == SubSeq(Target(p), 1, n)
<1>1. /\ proc[p].k \in Nat /\ proc[p].k < Len(Target(p)) - 1
      /\ proc[p].op \in MakesParents /\ proc[p].pc = "parentRows"
  BY DEF ParentRow, Reached, Inv, ProcInv, Sound, ProcType, Target
<1>2. proc[p].op \in {"upload", "mkdir"}
  BY <1>1, AskedNever DEF MakesParents, Agreeable, Adding, Reached
<1>3. Target(p) \in Path /\ Ancestors(Target(p)) \subseteq D
  BY <1>1, <1>2, AskedKinds
<1>4. Len(Target(p)) \in Nat
  BY <1>3, LenProperties DEF Path
<1>5. n \in Nat /\ n \in 1..(Len(Target(p)) - 1) /\ n <= Len(Target(p)) - 1
  BY <1>1, <1>4
<1>6. prefix \in Ancestors(Target(p))
  BY <1>5 DEF Ancestors
<1>7. UNCHANGED disk /\ NextParent(p, n)
  BY DEF ParentRow
<1>8. /\ \A r \in rows' : r \in rows \/ (r.dir = TRUE /\ r.path = prefix)
      /\ rows \subseteq rows' /\ prefix \in Paths(rows')
  <2>1. CASE prefix \in Paths(rows)
    BY <2>1 DEF ParentRow
  <2>2. CASE prefix \notin Paths(rows)
    <3> DEFINE new == Row(prefix, nextId, TRUE, NoData)
    <3>1. new.dir = TRUE /\ new.path = prefix
      BY DEF Row
    <3> HIDE DEF new
    <3>2. rows' = rows \cup {new}
      BY <2>2 DEF ParentRow, new
    <3> QED BY <3>1, <3>2 DEF Paths
  <2> QED BY <2>1, <2>2
<1>9. ASSUME NEW i \in 1..n PROVE SubSeq(Target(p), 1, i) \in Paths(rows')
  <2>1. i = n \/ i \in 1..proc[p].k
    BY <1>1, <1>5
  <2>2. i \in 1..proc[p].k => SubSeq(Target(p), 1, i) \in Paths(rows)
    BY <1>1 DEF Settled, MadeInv, Made, Target
  <2> QED BY <1>8, <2>1, <2>2 DEF Paths
<1> HIDE DEF n, prefix
<1>10. /\ Made(proc'[p], Paths(rows'), Paths(disk'))
       /\ proc'[p].pc \in Preparing /\ proc'[p].to = Target(p)
  BY <1>2, <1>3, <1>5, <1>7, <1>9, ToParents
<1>11. AddsRows(p, D)
  BY <1>3, <1>6, <1>8, <1>10 DEF AddsRows
<1>12. AddsEntries(p, D)
  BY <1>7 DEF AddsEntries
<1>13. Leaves(p)
  BY <1>1, <1>10 DEF Leaves, Recording
<1> QED BY <1>10, <1>11, <1>12, <1>13 DEF Advances

\* The walk to a directory that belongs there meets no file.
LEMMA CanMake ==
  ASSUME Reached, NEW D, KindsInv(D), NEW path \in Path, Ancestors(path) \subseteq D
  PROVE  /\ CanMakeDirs(Parent(path))
         /\ path \in D => CanMakeDirs(path)
<1>1. path \in Seq(Segment) /\ path # <<>> /\ ~IsTemp(path)
  BY PathTypes, AboveIsClient DEF Segment
<1>2. ASSUME NEW e \in disk, AtOrUnder(e.path, Parent(path)) PROVE e.dir
  <2>1. e.path \in Seq(Segment)
    BY Entries DEF Reached, TreeInv, Shaped
  <2>2. Under(e.path, path)
    BY <1>1, <1>2, <2>1, UnderParent
  <2> QED BY <2>2, ClearAbove
<1>3. ASSUME path \in D, NEW e \in disk, AtOrUnder(e.path, path) PROVE e.dir
  <2>1. CASE Under(e.path, path)
    BY <2>1, ClearAbove
  <2>2. CASE e.path = path
    BY <1>1, <1>3, <2>2 DEF KindsInv
  <2> QED BY <1>3, <2>1, <2>2 DEF AtOrUnder
<1> QED BY <1>2, <1>3 DEF CanMakeDirs

LEMMA MakeParentsAdvances ==
  ASSUME Reached, NEW D, Agreeable(D), Settled(D), NEW p \in Procs, UploadMakeParents(p)
  PROVE  Advances(p, D)
<1> DEFINE T == Target(p)
           up == Parent(T)
<1>1. AtStep(p, "upload", "makeParents") /\ proc[p].pc # "idle"
  BY DEF UploadMakeParents, AtStep
<1>2. T \in Path /\ Ancestors(T) \subseteq D
  BY <1>1, AskedKinds DEF AtStep
<1>3. Ancestors(T) \subseteq Paths(rows)
  BY <1>1 DEF Settled, MadeInv, Made, AtStep, Target
<1>4. CanMakeDirs(up)
  BY <1>2, CanMake DEF Settled
<1>5. disk' = WithDirs(up) /\ UNCHANGED rows /\ Goto(p, "createTemp")
  BY <1>4 DEF UploadMakeParents
<1>6. proc'[p].pc = "createTemp" /\ proc'[p].to = T
  BY <1>5 DEF Goto, Reached, Inv, ProcInv, ProcType, Target
<1>7. Ancestors(T) = IF up = <<>> THEN {} ELSE Ancestors(up) \cup {up}
  BY <1>2, ParentsAncestors
<1>8. up \in Seq(Name) /\ Shaped(disk)
  BY <1>2, PathTypes DEF Reached, TreeInv
<1> HIDE DEF T, up
<1>9. /\ disk \subseteq disk'
      /\ \A q \in Ancestors(up) : DirIn(disk', q)
      /\ up # <<>> => DirIn(disk', up)
  BY <1>4, <1>5, <1>8, WithDirsFollows
<1>10. Ancestors(T) \subseteq Paths(disk')
  BY <1>7, <1>9 DEF DirIn, Paths
<1>11. ASSUME NEW e \in disk', e \notin disk
       PROVE  e.dir = TRUE /\ e.path \in Ancestors(T)
  BY <1>5, <1>7, <1>11, NewDirsAbove
<1>12. AddsEntries(p, D)
  BY <1>2, <1>3, <1>5, <1>11 DEF AddsEntries
<1>13. AddsRows(p, D)
  BY <1>5 DEF AddsRows
<1>14. Leaves(p)
  BY <1>1, <1>10 DEF Leaves, AtStep, Recording, T
<1>15. Made(proc'[p], Paths(rows'), Paths(disk'))
  BY <1>3, <1>5, <1>6, <1>10 DEF Made, Recording
<1> QED BY <1>12, <1>13, <1>14, <1>15 DEF Advances

LEMMA MkdirDiskAdvances ==
  ASSUME Reached, NEW D, Agreeable(D), Settled(D), NEW p \in Procs, MkdirDisk(p)
  PROVE  Advances(p, D)
<1> DEFINE T == Target(p)
<1>1. AtStep(p, "mkdir", "makeDir") /\ proc[p].pc # "idle"
  BY DEF MkdirDisk, AtStep
<1>2. T \in Path /\ Ancestors(T) \subseteq D /\ T \in D
  BY <1>1, AskedKinds DEF AtStep
<1>3. Ancestors(T) \subseteq Paths(rows)
  BY <1>1 DEF Settled, MadeInv, Made, AtStep, Target
<1>4. CanMakeDirs(T)
  BY <1>2, CanMake DEF Settled
<1>5. disk' = WithDirs(T) /\ UNCHANGED rows /\ Goto(p, "insertRow")
  BY <1>4 DEF MkdirDisk
<1>6. proc'[p].pc = "insertRow" /\ proc'[p].to = T
  BY <1>5 DEF Goto, Reached, Inv, ProcInv, ProcType, Target
<1>7. T \in Seq(Name) /\ T # <<>> /\ Shaped(disk)
  BY <1>2 DEF Path, Reached, TreeInv
<1> HIDE DEF T
<1>8. /\ \A q \in Ancestors(T) : DirIn(disk', q)
      /\ DirIn(disk', T)
  BY <1>4, <1>5, <1>7, WithDirsFollows
<1>9. Ancestors(T) \subseteq Paths(disk') /\ T \in Paths(disk')
  BY <1>8 DEF DirIn, Paths
<1>10. ASSUME NEW e \in disk', e \notin disk
       PROVE  e.dir = TRUE /\ (e.path \in Ancestors(T) \/ e.path = T)
  BY <1>5, <1>10, NewDirsAbove
<1>11. AddsEntries(p, D)
  BY <1>2, <1>3, <1>5, <1>6, <1>10 DEF AddsEntries, Recording
<1>12. AddsRows(p, D)
  BY <1>5 DEF AddsRows
<1>13. Leaves(p)
  BY <1>1, <1>9 DEF Leaves, AtStep, Recording, T
<1>14. Made(proc'[p], Paths(rows'), Paths(disk'))
  BY <1>3, <1>5, <1>6, <1>9 DEF Made, Recording
<1> QED BY <1>11, <1>12, <1>13, <1>14 DEF Advances

LEMMA TempAdvances ==
  ASSUME Reached, Reached', NEW D, Agreeable(D), Settled(D), NEW p \in Procs,
         \/ UploadCreateTemp(p) \/ UploadStream(p)
         \/ UploadFails(p) /\ proc[p].pc = "stream"
  PROVE  Advances(p, D)
<1>1. /\ UNCHANGED rows /\ proc[p].pc \in {"createTemp", "stream"}
      /\ \E r : Return(p, r) \/ Goto(p, "stream") \/ Goto(p, "publish")
  BY DEF UploadCreateTemp, UploadStream, UploadFails, AtStep, Refuse
<1>2. Target(p) \in Path
  BY <1>1, BusyHandler DEF Reached
<1>3. Ancestors(Target(p)) \subseteq Paths(rows) /\ Ancestors(Target(p)) \subseteq Paths(disk)
  BY <1>1 DEF Settled, MadeInv, Made, Target
<1>4. \A q \in Paths(disk) : IsTemp(q) \/ q \in Paths(disk')
  BY PathsGrow DEF Agreeable, HandlerStep, Upload, HandlerFault
<1>5. Ancestors(Target(p)) \subseteq Paths(disk')
  BY <1>2, <1>3, <1>4, AboveIsClient
<1>6. Made(proc'[p], Paths(rows'), Paths(disk'))
  <2>1. CASE Goto(p, "stream") \/ Goto(p, "publish")
    <3>1. proc'[p].pc \in {"stream", "publish"} /\ proc'[p].to = Target(p)
      BY <2>1 DEF Goto, Reached, Inv, ProcInv, ProcType, Target
    <3> QED BY <1>1, <1>3, <1>5, <3>1 DEF Made, Recording
  <2> QED BY <1>1, <2>1, DoneMade
<1>7. ASSUME NEW e \in disk' PROVE IsTemp(e.path) \/ \E d \in disk : d.path = e.path /\ (d.dir <=> e.dir)
  <2>1. CASE UploadCreateTemp(p)
    <3>1. e \in disk \/ e = File(Temp(p), Partial)
      BY <2>1 DEF UploadCreateTemp
    <3>2. IsTemp(Temp(p))
      BY <1>1, TempShape DEF Reached
    <3> QED BY <3>1, <3>2 DEF File
  <2>2. CASE UploadStream(p)
    <3>1. PICK d \in disk :
            e = IF d.data = Partial /\ Last(d.path) = proc[p].rid
                THEN [d EXCEPT !.data = proc[p].data] ELSE d
      BY <2>2 DEF UploadStream
    <3>2. d \in DiskType
      BY DEF Reached, TreeInv, Shaped
    <3>3. d.path = e.path /\ d.dir = e.dir
      BY <3>1, <3>2 DEF DiskType
    <3> QED BY <3>3
  <2>3. CASE UploadFails(p)
    BY <2>3 DEF UploadFails
  <2> QED BY <2>1, <2>2, <2>3
<1>8. AddsRows(p, D) /\ AddsEntries(p, D) /\ Leaves(p)
  BY <1>1, <1>7 DEF AddsRows, AddsEntries, Leaves, Preparing, Recording
<1> QED BY <1>6, <1>8 DEF Advances

LEMMA PublishAdvances ==
  ASSUME Reached, Reached', NEW D, Agreeable(D), Settled(D), NEW p \in Procs, UploadPublish(p)
  PROVE  Advances(p, D)
<1>1. UNCHANGED rows /\ AtStep(p, "upload", "publish") /\ proc[p].pc # "idle"
  BY DEF UploadPublish, AtStep
<1>2. Target(p) \in Path /\ Target(p) \notin D
  BY <1>1, AskedKinds DEF AtStep
<1>3. Ancestors(Target(p)) \subseteq Paths(rows) /\ Ancestors(Target(p)) \subseteq Paths(disk)
  BY <1>1 DEF Settled, MadeInv, Made, Target, AtStep
<1>4. \A q \in Paths(disk) : IsTemp(q) \/ q \in Paths(disk')
  BY PathsGrow DEF Agreeable, HandlerStep, Upload
<1>5. Ancestors(Target(p)) \subseteq Paths(disk')
  BY <1>2, <1>3, <1>4, AboveIsClient
<1>6. AddsRows(p, D) /\ Leaves(p)
  BY <1>1 DEF AddsRows, Leaves, AtStep, Preparing, Recording
<1>7. CASE disk' \subseteq disk /\ Refuse(p)
  <2>1. Made(proc'[p], Paths(rows'), Paths(disk'))
    BY <1>7, DoneMade DEF Refuse
  <2>2. AddsEntries(p, D)
    BY <1>7 DEF AddsEntries
  <2> QED BY <1>6, <2>1, <2>2 DEF Advances
<1>8. CASE CanRename(Temp(p), Target(p)) /\ disk' = RenamedDisk(Temp(p), Target(p)) /\ Goto(p, "upsert")
  <2>1. PICK s \in disk :
           /\ s.path = Temp(p) /\ ~s.dir
           /\ \A e \in disk' : e \in disk \/ e = [s EXCEPT !.path = Target(p)]
           /\ [s EXCEPT !.path = Target(p)] \in disk'
    BY <1>1, <1>8, PublishedDisk DEF Reached
  <2>2. s \in DiskType
    BY DEF Reached, TreeInv, Shaped
  <2>3. [s EXCEPT !.path = Target(p)].path = Target(p) /\ ~[s EXCEPT !.path = Target(p)].dir
    BY <2>1, <2>2 DEF DiskType
  <2>4. proc'[p].pc = "upsert" /\ proc'[p].to = Target(p)
    BY <1>8 DEF Goto, Reached, Inv, ProcInv, ProcType, Target
  <2>5. Target(p) \in Paths(disk')
    BY <2>1, <2>3 DEF Paths
  <2>6. Made(proc'[p], Paths(rows'), Paths(disk'))
    BY <1>1, <1>3, <1>5, <2>4, <2>5 DEF Made
  <2>7. AddsEntries(p, D)
    BY <1>2, <2>1, <2>3, <2>4 DEF AddsEntries, Recording
  <2> QED BY <1>6, <2>6, <2>7 DEF Advances
<1> QED BY <1>7, <1>8 DEF UploadPublish

LEMMA RecordAdvances ==
  ASSUME Reached, NEW D, Agreeable(D), Settled(D), NEW p \in Procs,
         UploadUpsert(p) \/ MkdirInsert(p)
  PROVE  Advances(p, D)
<1>1. /\ UNCHANGED disk /\ proc[p].pc \in Recording /\ proc[p].pc # "idle"
      /\ proc[p].op \in {"upload", "mkdir"}
      /\ Refuse(p) \/ Succeed(p)
  BY DEF UploadUpsert, MkdirInsert, AtStep, Recording
<1>2. Target(p) \in Path /\ (Target(p) \in D <=> proc[p].op = "mkdir")
  BY <1>1, AskedKinds
<1>3. Target(p) \in Paths(disk')
  BY <1>1 DEF Settled, MadeInv, Made, Target
<1>4. Made(proc'[p], Paths(rows'), Paths(disk'))
  BY <1>1, DoneMade DEF Refuse, Succeed
<1>5. AddsEntries(p, D)
  BY <1>1 DEF AddsEntries
<1>6. /\ \A r \in rows' : \/ \E s \in rows : s.path = r.path /\ (s.dir <=> r.dir)
                          \/ r.path = Target(p) /\ (r.dir <=> proc[p].op = "mkdir")
      /\ Target(p) \in Paths(rows')
  <2>1. CASE UploadUpsert(p) /\ Target(p) \in Paths(rows)
    <3> DEFINE U(r) == IF r.path = Target(p) THEN [r EXCEPT !.sha = proc[p].data] ELSE r
    <3>1. rows' = {U(r) : r \in rows}
      BY <2>1 DEF UploadUpsert
    <3>2. \A r \in rows : U(r).path = r.path /\ U(r).dir = r.dir
      BY DEF Reached, Inv, RowInv, RowType
    <3> HIDE DEF U
    <3> QED BY <2>1, <3>1, <3>2 DEF Paths
  <2>2. ASSUME NEW new, rows' = rows \cup {new}, new.path = Target(p),
               new.dir <=> proc[p].op = "mkdir"
        PROVE  /\ \A r \in rows' : \/ \E s \in rows : s.path = r.path /\ (s.dir <=> r.dir)
                                   \/ r.path = Target(p) /\ (r.dir <=> proc[p].op = "mkdir")
               /\ Target(p) \in Paths(rows')
    BY <2>2 DEF Paths
  <2>3. CASE UploadUpsert(p) /\ Target(p) \notin Paths(rows)
    <3> DEFINE new == Row(Target(p), nextId, FALSE, proc[p].data)
    <3>1. new.path = Target(p) /\ new.dir = FALSE
      BY DEF Row
    <3>2. rows' = rows \cup {new} /\ proc[p].op = "upload"
      BY <2>3 DEF UploadUpsert, AtStep
    <3> HIDE DEF new
    <3> QED BY <2>2, <3>1, <3>2
  <2>4. CASE MkdirInsert(p)
    <3> DEFINE new == Row(Target(p), nextId, TRUE, NoData)
    <3>1. new.path = Target(p) /\ new.dir = TRUE
      BY DEF Row
    <3>2. proc[p].op = "mkdir" /\ (Target(p) \notin Paths(rows) => rows' = rows \cup {new})
            /\ (Target(p) \in Paths(rows) => rows' = rows)
      BY <2>4 DEF MkdirInsert, AtStep
    <3> HIDE DEF new
    <3>3. CASE rows' = rows /\ Target(p) \in Paths(rows)
      BY <3>3 DEF Paths
    <3> QED BY <2>2, <3>1, <3>2, <3>3
  <2> QED BY <2>1, <2>3, <2>4
<1>7. AddsRows(p, D)
  BY <1>2, <1>3, <1>6 DEF AddsRows
<1>8. Leaves(p)
  BY <1>1, <1>6 DEF Leaves, Preparing, Recording
<1> QED BY <1>4, <1>5, <1>7, <1>8 DEF Advances

LEMMA HandlerAdvances ==
  ASSUME Reached, Reached', NEW D, Agreeable(D), Settled(D), NEW p \in Procs,
         Start(p) \/ HandlerStep(p) \/ HandlerFault(p)
  PROVE  Advances(p, D)
<1>1. CASE Start(p)
  BY <1>1, StartAdvances
<1>2. CASE HandlerFault(p)
  <2>1. \A kind : Fault(kind) => kind = "stream"
    BY DEF Fault, Agreeable
  <2> QED BY <1>2, <2>1, TempAdvances DEF HandlerFault, DbFails, DiskFails, DeleteFailsMidway,
                                  CopyFailsMidway, UploadFails, Abandon
<1>3. CASE HandlerStep(p)
  <2>1. proc[p].op \notin {"delete", "rename", "copy"}
    BY <1>3, StepOfBusy, AskedNever DEF Agreeable, Adding, Reached
  <2>2. ~CheckTarget(p)
    BY <2>1 DEF CheckTarget, Reached, Inv, ProcInv, Sound
  <2> QED BY <1>3, <2>1, <2>2, CheckAdvances, ShareAdvances, ParentRowAdvances, MakeParentsAdvances,
             MkdirDiskAdvances, TempAdvances, PublishAdvances, RecordAdvances
          DEF HandlerStep, Upload, Delete, DeleteCheck, DeleteDisk, DeleteRows, ReadSource,
              TargetParents, Rename, RenameDisk, RenameRows, Copy, CopyDisk, CopyInsert,
              CopyRollback, CopyChildRows, CopyResult, Mkdir, AtStep
<1> QED BY <1>1, <1>2, <1>3

LEMMA InitSettled == ASSUME NEW D, KindsAgreed(D) PROVE Init => Settled(D)
<1> SUFFICES ASSUME Init PROVE Settled(D)
  OBVIOUS
<1>1. \A p \in Procs : proc[p].pc = "idle"
  BY DEF Init, Idle
<1>2. MadeInv
  BY <1>1 DEF MadeInv, Made, Recording
<1>3. /\ rows = {Row(Stored[i].path, i, Stored[i].dir, Stored[i].data) : i \in DOMAIN Stored}
      /\ disk = {Stored[i] : i \in DOMAIN Stored}
  BY DEF Init
<1>4. /\ \A r \in rows : \E i \in DOMAIN Stored : r.path = Stored[i].path /\ r.dir = Stored[i].dir
      /\ \A i \in DOMAIN Stored : \E r \in rows : r.path = Stored[i].path
  <2> DEFINE R(i) == Row(Stored[i].path, i, Stored[i].dir, Stored[i].data)
  <2>1. rows = {R(i) : i \in DOMAIN Stored}
    BY <1>3
  <2>2. \A i \in DOMAIN Stored : R(i).path = Stored[i].path /\ R(i).dir = Stored[i].dir
    BY DEF Row
  <2> HIDE DEF R
  <2> QED BY <2>1, <2>2
<1>5. KindsInv(D)
  BY <1>3, <1>4 DEF KindsInv, KindsAgreed
<1>6. \A i \in DOMAIN Stored : Stored[i].path \in Paths(disk)
  BY <1>3 DEF Paths
<1>7. ListedInv
  BY <1>4, <1>6 DEF ListedInv
<1>8. \A i \in DOMAIN Stored : Stored[i].path \in Paths(rows)
  <2> TAKE i \in DOMAIN Stored
  <2>1. PICK r \in rows : r.path = Stored[i].path
    BY <1>4
  <2> QED BY <2>1 DEF Paths
<1>9. OnDiskInv
  <2>1. \A e \in disk : \E i \in DOMAIN Stored : e = Stored[i]
    BY <1>3
  <2>2. \A e \in disk : e.path \in Paths(rows)
    BY <1>8, <2>1
  <2> QED BY <2>2 DEF OnDiskInv
<1> QED BY <1>2, <1>5, <1>7, <1>9 DEF Settled

\* (list_files, upload_file, create_directory)  As long as nobody deletes,
\* renames or copies, nothing but a body breaks, and no path is a directory for
\* one client and a file for another, the listing and the disk show the same
\* files and directories whenever no handler is running.
THEOREM ListingShowsTheDisk ==
  ASSUME NEW D, Agreeable(D)
  PROVE  Spec => []SameTree
<1>1. Still /\ "drop" \notin Faults /\ KindsAgreed(D)
  BY DEF Agreeable, Adding, Still, Never
<1>2. Spec => [](Reached /\ NoStrayTemp)
  BY <1>1, StrayNext
<1>3. Reached /\ Reached' /\ Settled(D) /\ [Next]_vars => Settled(D)'
  <2>1. UNCHANGED vars /\ Settled(D) => Settled(D)'
    BY DEF vars, Settled, KindsInv, IsTemp, MadeInv, Made, ListedInv, OnDiskInv, Paths, Target
  <2>2. ASSUME Reached, Reached', Settled(D), NEW p \in Procs,
               Start(p) \/ HandlerStep(p) \/ HandlerFault(p)
        PROVE  Settled(D)'
    BY <2>2, HandlerAdvances, AdvanceKeeps
  <2> QED BY <2>1, <2>2 DEF Next
<1>4. Reached /\ NoStrayTemp /\ Settled(D) => SameTree
  <2> SUFFICES ASSUME Reached, NoStrayTemp, Settled(D), Quiescent PROVE Kinds(rows) = Kinds(disk)
    BY DEF SameTree
  <2>1. \A p \in Procs : proc[p].pc \notin Preparing \cup Recording \cup {"stream", "publish"}
    BY DEF Quiescent, Preparing, Recording
  <2>2. \A e \in disk : ~IsTemp(e.path)
    BY <2>1 DEF NoStrayTemp
  <2>3. \A r \in rows : r.dir \in BOOLEAN /\ (r.dir <=> r.path \in D)
    BY DEF Settled, KindsInv, Reached, Inv, RowInv, RowType
  <2>4. \A e \in disk : e.dir \in BOOLEAN /\ (e.dir <=> e.path \in D)
    BY <2>2 DEF Settled, KindsInv, Reached, Inv, DiskInv, DiskType
  <2>5. \A r \in rows : \E e \in disk : e.path = r.path
    BY <2>1 DEF Settled, ListedInv, Paths
  <2>6. \A e \in disk : \E r \in rows : e.path = r.path
    BY <2>1, <2>2 DEF Settled, OnDiskInv, Paths
  <2>7. \A r \in rows, e \in disk : r.path = e.path => r.dir = e.dir
    BY <2>3, <2>4
  <2> QED BY <2>5, <2>6, <2>7 DEF Kinds
<1>5. Init => Settled(D)
  BY <1>1, InitSettled
<1> QED BY <1>2, <1>3, <1>4, <1>5, PTL DEF Spec


-----------------------------------------------------------------------------
(* One handler at a time, nothing but a body fails, names are no patterns:  *)
(* rows and disk agree after every request.                                 *)

\* Names F that only files have: whoever copies copies one of these.
FilesNamed(F) ==
  /\ \A i \in DOMAIN Stored : Stored[i].dir => Last(Stored[i].path) \notin F
  /\ \A r \in Requests :
       /\ \A q \in Ancestors(r.to) : Last(q) \notin F
       /\ r.op = "mkdir" => Last(r.to) \notin F
       /\ (r.op = "rename" /\ Last(r.to) \in F) => Last(r.from) \in F
       /\ r.op = "copy" => Last(r.from) \in F

OneAtATime(F) ==
  /\ \E p : Procs = {p}
  /\ Faults \subseteq {"stream"}
  /\ \A w \in Wild : w[1] = w[2]
  /\ FilesNamed(F)

\* The rows, as entries of the disk.
Listing == {Listed(r) : r \in rows}

\* The directories of a path, and the first k of them.
Aboves(path) == {Dir(q) : q \in Ancestors(path)}
Firsts(path, k) == {Dir(SubSeq(path, 1, i)) : i \in 1..k}

\* No file is where the path needs a directory; nothing is at or below it.
Clear(S, path) == \A e \in S : Under(e.path, path) => e.dir
Vacant(S, path) == \A e \in S : ~AtOrUnder(path, e.path)

\* A tree with what is at and below from moved to another name.
Moved(S, from, to) ==
  {e \in S : ~AtOrUnder(from, e.path)}
    \cup {[e EXCEPT !.path = Rebase(@, from, to)] : e \in Subtree(S, from)}

TempName(q) == Append(Parent(q.to), q.rid)

\* How the rows L and the disk D differ while handler q is at its work, and
\* what it has found out that nobody can change under it.
Uploading(q, L, D) ==
  /\ q.pc \in {"checkDisk", "parentRows", "makeParents", "createTemp", "stream", "publish", "upsert"}
  /\ q.pc = "checkDisk" => L = D
  /\ q.pc # "checkDisk" => Clear(L, q.to) /\ \A e \in L : e.path = q.to => ~e.dir
  /\ q.pc = "parentRows" => L = D \cup Firsts(q.to, q.k)
  /\ q.pc = "makeParents" => L = D \cup Aboves(q.to)
  /\ q.pc \in {"createTemp", "stream", "publish", "upsert"} => Aboves(q.to) \subseteq L
  /\ q.pc = "createTemp" => L = D
  /\ q.pc = "stream" => D = L \cup {File(TempName(q), Partial)}
  /\ q.pc = "publish" => D = L \cup {File(TempName(q), q.data)}
  /\ q.pc = "upsert" => D = {e \in L : e.path # q.to} \cup {File(q.to, q.data)}

Deleting(q, L, D) ==
  /\ q.pc \in {"checkRow", "removeDisk", "deleteRows"}
  /\ q.pc \in {"checkRow", "removeDisk"} => L = D
  /\ q.pc = "removeDisk" => q.to \in Paths(L)
  /\ q.pc = "deleteRows" => D = L \ Subtree(L, q.to)

Renaming(q, L, D) ==
  /\ q.pc \in {"readRow", "checkTarget", "makeParents", "renameDisk", "parentRows", "updateRows"}
  /\ q.pc \in {"readRow", "checkTarget", "makeParents"} => L = D
  /\ q.pc # "readRow" => q.from \in Paths(L)
  /\ q.pc \notin {"readRow", "checkTarget"} => Vacant(L, q.to)
  /\ q.pc \in {"renameDisk", "parentRows", "updateRows"} => Clear(L, q.to)
  /\ q.pc = "renameDisk" => D = L \cup Aboves(q.to)
  /\ q.pc \in {"parentRows", "updateRows"} => D = Moved(L, q.from, q.to) \cup Aboves(q.to)
  /\ q.pc = "parentRows" => Firsts(q.to, q.k) \subseteq L
  /\ q.pc = "updateRows" => Aboves(q.to) \subseteq L

Copying(q, L, D) ==
  /\ q.pc \in {"readRow", "checkTarget", "makeParents", "copyDisk", "insertRow", "parentRows", "readResult"}
  /\ q.pc \in {"readRow", "checkTarget", "makeParents", "readResult"} => L = D
  /\ q.pc \in {"checkTarget", "makeParents", "copyDisk", "insertRow"} =>
       q.dir = FALSE /\ File(q.from, q.sha) \in L
  /\ q.pc \in {"makeParents", "copyDisk", "insertRow"} => Vacant(L, q.to)
  /\ q.pc \in {"copyDisk", "insertRow", "parentRows"} => Clear(L, q.to)
  /\ q.pc = "copyDisk" => D = L \cup Aboves(q.to)
  /\ q.pc = "insertRow" => D = L \cup Aboves(q.to) \cup {File(q.to, q.sha)}
  /\ q.pc = "parentRows" => D = L \cup Aboves(q.to) /\ Firsts(q.to, q.k) \subseteq L
  /\ q.pc \in {"parentRows", "readResult"} => q.to \in Paths(L)

Making(q, L, D) ==
  /\ q.pc \in {"checkRow", "parentRows", "makeDir", "insertRow"}
  /\ q.pc = "checkRow" => L = D
  /\ q.pc # "checkRow" => Clear(L, q.to) /\ q.to \notin Paths(L)
  /\ q.pc = "parentRows" => L = D \cup Firsts(q.to, q.k)
  /\ q.pc = "makeDir" => L = D \cup Aboves(q.to)
  /\ q.pc = "insertRow" => Aboves(q.to) \subseteq L /\ D = L \cup {Dir(q.to)}

Stage(q, L, D) ==
  /\ q.pc = "idle" \/ q.op = "share" => L = D
  /\ q.op = "upload" => Uploading(q, L, D)
  /\ q.op = "delete" => Deleting(q, L, D)
  /\ q.op = "rename" => Renaming(q, L, D)
  /\ q.op = "copy" => Copying(q, L, D)
  /\ q.op = "mkdir" => Making(q, L, D)

\* Directories have no content, and no name of F.
Plain(S, F) == \A e \in S : e.dir => e = Dir(e.path) /\ Last(e.path) \notin F

\* Every entry has its directories, but for the rows of a file that has just
\* been copied.
Closed(S) == \A e \in S : Aboves(e.path) \subseteq S

Ordered(q, L, D, F) ==
  /\ Stage(q, L, D)
  /\ Plain(L, F) /\ Plain(D, F)
  /\ ~(q.op = "copy" /\ q.pc = "parentRows") => Closed(L)

SeqInv(F) == \A p \in Procs : Ordered(proc[p], Listing, disk, F)

-----------------------------------------------------------------------------
(* Rows as entries.                                                         *)

LEMMA ListingTypes ==
  ASSUME RowInv
  PROVE  /\ Listing \subseteq EntryType
         /\ \A d, e \in Listing : d.path = e.path => d = e
         /\ Paths(Listing) = Paths(rows)
<1>1. \A r \in rows : /\ Listed(r) \in EntryType /\ Listed(r).path = r.path
                      /\ Listed(r).dir = r.dir /\ Listed(r).data = r.sha
  BY DEF RowInv, RowType, Listed, EntryType
<1>2. Listing = {Listed(r) : r \in rows}
  BY DEF Listing
<1>3. \A r, s \in rows : r.path = s.path => r = s
  BY DEF RowInv
<1> QED BY <1>1, <1>2, <1>3 DEF Paths

\* What an SQL statement does to them.
LEMMA ListingStays == ASSUME UNCHANGED rows PROVE Listing' = Listing
BY DEF Listing

LEMMA ListingAdds ==
  ASSUME NEW path, NEW id, NEW dir, NEW sha, rows' = rows \cup {Row(path, id, dir, sha)}
  PROVE  Listing' = Listing \cup {[path |-> path, dir |-> dir, data |-> sha]}
<1>1. Listed(Row(path, id, dir, sha)) = [path |-> path, dir |-> dir, data |-> sha]
  BY DEF Listed, Row
<1> DEFINE new == Row(path, id, dir, sha)
<1>2. rows' = rows \cup {new} /\ Listed(new) = [path |-> path, dir |-> dir, data |-> sha]
  BY <1>1
<1> HIDE DEF new
<1>3. Listing' = {Listed(r) : r \in rows'} /\ Listing = {Listed(r) : r \in rows}
  BY DEF Listing, Listed
<1> QED BY <1>2, <1>3

LEMMA ListingPuts ==
  ASSUME Inv, NEW p \in Procs, UploadUpsert(p), Target(p) \in Path,
         \A e \in Listing : e.path = Target(p) => ~e.dir
  PROVE  Listing' = {e \in Listing : e.path # Target(p)} \cup {File(Target(p), proc[p].data)}
<1> DEFINE T == Target(p)
           d == proc[p].data
           L == Listing
<1>1. \A r \in rows : r \in RowType
  BY DEF Inv, RowInv
<1>2. L = {Listed(r) : r \in rows} /\ Listing' = {Listed(r) : r \in rows'}
  BY DEF Listing, Listed
<1>3. CASE T \in Paths(rows)
  <2> DEFINE U(r) == IF r.path = T THEN [r EXCEPT !.sha = d] ELSE r
  <2>1. rows' = {U(r) : r \in rows}
    BY <1>3 DEF UploadUpsert
  <2>2. ASSUME NEW r \in rows
        PROVE  Listed(U(r)) = IF r.path = T THEN File(T, d) ELSE Listed(r)
    <3>1. r \in RowType /\ Listed(r) \in L /\ Listed(r).path = r.path /\ Listed(r).dir = r.dir
      BY <1>1, <1>2 DEF Listed
    <3>2. r.path = T => r.dir = FALSE
      BY <3>1 DEF RowType
    <3> QED BY <3>1, <3>2 DEF Listed, File, RowType
  <2>3. Listing' = {Listed(U(r)) : r \in rows}
    BY <1>2, <2>1
  <2>4. \A r \in rows : Listed(r).path = r.path
    BY DEF Listed
  <2>5. \E r \in rows : r.path = T
    BY <1>3 DEF Paths
  <2> HIDE DEF U, T, d, L
  <2>6. Listing' = {e \in L : e.path # T} \cup {File(T, d)}
    BY <1>2, <2>2, <2>3, <2>4, <2>5
  <2> QED BY <2>6 DEF T, d, L
<1>4. CASE T \notin Paths(rows)
  <2>1. rows' = rows \cup {Row(T, nextId, FALSE, d)}
    BY <1>4 DEF UploadUpsert
  <2>2. Listing' = L \cup {File(T, d)}
    BY <2>1, ListingAdds DEF File
  <2>3. \A e \in L : e.path # T
    BY <1>4, ListingTypes DEF Inv, Paths
  <2> QED BY <2>2, <2>3
<1> QED BY <1>3, <1>4

LEMMA ListingDrops ==
  ASSUME Inv, \A w \in Wild : w[1] = w[2], NEW p \in Procs, DeleteRows(p), Target(p) \in Path
  PROVE  Listing' = Listing \ Subtree(Listing, Target(p))
<1> DEFINE T == Target(p)
<1>1. rows' = rows \ DeletedRows(T)
  BY DEF DeleteRows
<1>2. \A r \in rows : r \in DeletedRows(T) <=> AtOrUnder(T, r.path)
  <2> TAKE r \in rows
  <2>1. r.path \in Seq(Name) /\ T \in Seq(Name)
    BY DEF Inv, RowInv, RowType, Path
  <2>2. LikeUnder(T, r.path) <=> Under(T, r.path)
    <3>1. LikeUnder(T, r.path) => Under(T, r.path)
      BY <2>1, LikeIsUnder
    <3>2. Under(T, r.path) => LikeUnder(T, r.path)
      BY <2>1, UnderMeans DEF LikeUnder
    <3> QED BY <3>1, <3>2
  <2> QED BY <2>2 DEF DeletedRows, AtOrUnder
<1>3. Listing' = {Listed(r) : r \in rows'} /\ Listing = {Listed(r) : r \in rows}
  BY DEF Listing, Listed
<1>4. \A r \in rows : Listed(r).path = r.path
  BY DEF Listed
<1>5. \A r \in rows : Listed(r) \in Subtree(Listing, T) <=> AtOrUnder(T, r.path)
  BY <1>3, <1>4 DEF Subtree
<1>6. Paths(Listing) = Paths(rows) /\ \A d, e \in Listing : d.path = e.path => d = e
  BY ListingTypes DEF Inv
<1> HIDE DEF T
<1>7. Listing' = Listing \ Subtree(Listing, T)
  <2>1. ASSUME NEW e \in Listing' PROVE e \in Listing \ Subtree(Listing, T)
    <3>1. PICK r \in rows' : e = Listed(r)
      BY <1>3
    <3>2. r \in rows /\ ~AtOrUnder(T, r.path)
      BY <1>1, <1>2, <3>1
    <3> QED BY <1>3, <1>5, <3>1, <3>2
  <2>2. ASSUME NEW e \in Listing \ Subtree(Listing, T) PROVE e \in Listing'
    <3>1. PICK r \in rows : e = Listed(r)
      BY <1>3
    <3>2. ~AtOrUnder(T, r.path)
      BY <1>5, <2>2, <3>1
    <3>3. r \in rows'
      BY <1>1, <1>2, <3>2
    <3> QED BY <1>3, <3>1, <3>3
  <2> QED BY <2>1, <2>2
<1> QED BY <1>7 DEF T

LEMMA ListingMoves ==
  ASSUME Inv, \A w \in Wild : w[1] = w[2], NEW p \in Procs, rows' = MovedRows(p),
         Source(p) \in Path
  PROVE  Listing' = Moved(Listing, Source(p), Target(p))
<1> DEFINE from == Source(p)
           to == Target(p)
           R(r) == IF IsMoved(p, r.path) THEN MovedRow(p, r) ELSE r
           M(e) == [e EXCEPT !.path = Rebase(@, from, to)]
<1>1. \A r \in rows : IsMoved(p, r.path) <=> AtOrUnder(from, r.path)
  <2> TAKE r \in rows
  <2>1. r.path \in Seq(Name) /\ from \in Seq(Name)
    BY DEF Inv, RowInv, RowType, Path
  <2>2. LikeUnder(from, r.path) <=> Under(from, r.path)
    <3>1. LikeUnder(from, r.path) => Under(from, r.path)
      BY <2>1, LikeIsUnder
    <3>2. Under(from, r.path) => LikeUnder(from, r.path)
      BY <2>1, UnderMeans DEF LikeUnder
    <3> QED BY <3>1, <3>2
  <2> QED BY <2>2 DEF IsMoved, AtOrUnder
<1>2. Listing' = {Listed(r) : r \in rows'} /\ Listing = {Listed(r) : r \in rows}
  BY DEF Listing, Listed
<1>3. rows' = {R(r) : r \in rows}
  BY DEF MovedRows
<1>4. \A r \in rows : Listed(R(r)) = IF AtOrUnder(from, r.path) THEN M(Listed(r)) ELSE Listed(r)
  <2> TAKE r \in rows
  <2>1. r \in RowType
    BY DEF Inv, RowInv
  <2>2. CASE AtOrUnder(from, r.path)
    <3>1. R(r) = [r EXCEPT !.path = Rebase(@, from, to)]
      BY <1>1, <2>2 DEF MovedRow
    <3>2. Listed(R(r)) = [path |-> Rebase(r.path, from, to), dir |-> r.dir, data |-> r.sha]
      BY <2>1, <3>1 DEF Listed, RowType
    <3>3. M(Listed(r)) = [path |-> Rebase(r.path, from, to), dir |-> r.dir, data |-> r.sha]
      BY DEF Listed
    <3> HIDE DEF R, M
    <3> QED BY <2>2, <3>2, <3>3
  <2>3. CASE ~AtOrUnder(from, r.path)
    BY <1>1, <2>3
  <2> QED BY <2>2, <2>3
<1>5. \A r \in rows : Listed(r).path = r.path
  BY DEF Listed
<1>6. Moved(Listing, from, to) =
        {e \in Listing : ~AtOrUnder(from, e.path)} \cup {M(e) : e \in Subtree(Listing, from)}
  BY DEF Moved
<1>7. \A e : e \in Subtree(Listing, from) <=> e \in Listing /\ AtOrUnder(from, e.path)
  BY DEF Subtree
<1> HIDE DEF from, to, R, M
<1>8. Listing' = {e \in Listing : ~AtOrUnder(from, e.path)} \cup {M(e) : e \in Subtree(Listing, from)}
  <2>1. \A e : e \in Listing' <=> \E r \in rows : e = Listed(R(r))
    BY <1>2, <1>3
  <2>2. \A e : e \in Listing <=> \E r \in rows : e = Listed(r)
    BY <1>2
  <2>3. ASSUME NEW e \in Listing'
        PROVE  e \in {d \in Listing : ~AtOrUnder(from, d.path)} \cup {M(d) : d \in Subtree(Listing, from)}
    <3>1. PICK r \in rows : e = Listed(R(r))
      BY <2>1
    <3>2. Listed(r) \in Listing
      BY <2>2
    <3> QED BY <1>4, <1>5, <1>7, <3>1, <3>2
  <2>4. ASSUME NEW d \in Listing
        PROVE  IF AtOrUnder(from, d.path) THEN M(d) \in Listing' ELSE d \in Listing'
    <3>1. PICK r \in rows : d = Listed(r)
      BY <2>2
    <3> QED BY <1>4, <1>5, <2>1, <3>1
  <2> QED BY <1>7, <2>3, <2>4
<1> QED BY <1>6, <1>8 DEF from, to

LEMMA ListingParent ==
  ASSUME Inv, NEW F, Plain(Listing, F), NEW p \in Procs, ParentRow(p),
         NEW q, q = SubSeq(Target(p), 1, proc[p].k + 1),
         \A e \in Listing : e.path = q => e.dir
  PROVE  Listing' = Listing \cup {Dir(q)}
<1>1. CASE q \in Paths(rows)
  <2>1. Listing' = Listing
    BY <1>1, ListingStays DEF ParentRow
  <2>2. PICK e \in Listing : e.path = q
    BY <1>1, ListingTypes DEF Inv, Paths
  <2>3. e = Dir(q)
    BY <2>2 DEF Plain
  <2> QED BY <2>1, <2>3
<1>2. CASE q \notin Paths(rows)
  <2>1. rows' = rows \cup {Row(q, nextId, TRUE, NoData)}
    BY <1>2 DEF ParentRow
  <2> QED BY <2>1, ListingAdds DEF Dir
<1> QED BY <1>1, <1>2

-----------------------------------------------------------------------------
(* Directories above a path.                                                *)

LEMMA FirstsGrow ==
  ASSUME NEW path, NEW k \in Nat
  PROVE  Firsts(path, k + 1) = Firsts(path, k) \cup {Dir(SubSeq(path, 1, k + 1))}
<1>1. 1..(k + 1) = 1..k \cup {k + 1}
  OBVIOUS
<1> QED BY <1>1 DEF Firsts

LEMMA FirstsEnd ==
  ASSUME NEW path \in Path
  PROVE  /\ Firsts(path, 0) = {}
         /\ Firsts(path, Len(path) - 1) = Aboves(path)
         /\ \A k \in Nat : k <= Len(path) - 1 => Firsts(path, k) \subseteq Aboves(path)
<1>1. Len(path) \in Nat
  BY LenProperties DEF Path
<1>2. 1..0 = {}
  OBVIOUS
<1>3. ASSUME NEW k \in Nat, k <= Len(path) - 1
      PROVE  Firsts(path, k) \subseteq Aboves(path)
  <2>1. \A i \in 1..k : i \in 1..(Len(path) - 1)
    BY <1>1, <1>3
  <2> QED BY <2>1 DEF Firsts, Aboves, Ancestors
<1> QED BY <1>2, <1>3 DEF Firsts, Aboves, Ancestors

LEMMA AbovesAre ==
  ASSUME NEW path \in Path
  PROVE  \A e \in Aboves(path) :
           /\ e = Dir(e.path) /\ e.dir = TRUE /\ e.data = NoData
           /\ e.path \in Path /\ e.path \in Seq(Segment) /\ ~IsTemp(e.path)
           /\ e.path \in Ancestors(path) /\ Under(e.path, path)
<1> TAKE e \in Aboves(path)
<1>1. PICK q \in Ancestors(path) : e = Dir(q)
  BY DEF Aboves
<1>2. e.path = q /\ e.dir = TRUE /\ e.data = NoData
  BY <1>1 DEF Dir
<1>3. q \in Path /\ ~IsTemp(q)
  BY AboveIsClient
<1>4. Under(q, path)
  BY AncestorsArePaths DEF Path
<1>5. q \in Seq(Segment)
  BY <1>3, PathTypes DEF Segment
<1> QED BY <1>1, <1>2, <1>3, <1>4, <1>5

LEMMA AbovesIn == ASSUME NEW path, NEW q \in Ancestors(path) PROVE Dir(q) \in Aboves(path)
BY DEF Aboves

\* What a plain tree has above a path are its directories.
LEMMA AboveInPlain ==
  ASSUME NEW S, NEW F, Plain(S, F), NEW path \in Path, Clear(S, path),
         NEW q \in Ancestors(path), q \in Paths(S)
  PROVE  Dir(q) \in S
<1>1. PICK e \in S : e.path = q
  BY DEF Paths
<1>2. Under(q, path)
  BY AncestorsArePaths DEF Path
<1> QED BY <1>1, <1>2 DEF Plain, Clear

\* create_dir_all of the parent, and of the path itself.
LEMMA MakesAboves ==
  ASSUME TreeInv, NEW F, Plain(disk, F), NEW path \in Path, Clear(disk, path)
  PROVE  /\ CanMakeDirs(Parent(path))
         /\ WithDirs(Parent(path)) = disk \cup Aboves(path)
         /\ path \notin Paths(disk) =>
              /\ CanMakeDirs(path)
              /\ WithDirs(path) = disk \cup Aboves(path) \cup {Dir(path)}
<1> DEFINE up == Parent(path)
<1>1. path \in Seq(Segment) /\ path # <<>>
  BY PathTypes DEF Segment
<1>2. \A e \in disk : e.path \in Seq(Segment)
  BY Entries DEF TreeInv, Shaped
<1>3. \A e \in disk : AtOrUnder(e.path, up) <=> Under(e.path, path)
  BY <1>1, <1>2, UnderParent
<1>4. CanMakeDirs(up)
  BY <1>3 DEF CanMakeDirs, Clear
<1>5. Ancestors(path) = IF up = <<>> THEN {} ELSE Ancestors(up) \cup {up}
  BY ParentsAncestors
<1>6. \A q \in Ancestors(path) : q \in Paths(disk) => Dir(q) \in disk
  BY AboveInPlain
<1> HIDE DEF up
<1>7. WithDirs(up) = disk \cup Aboves(path)
  <2>1. CASE up = <<>>
    BY <1>5, <2>1 DEF WithDirs, Aboves
  <2>2. CASE up # <<>>
    <3>1. MissingDirs(up) = Ancestors(path) \ Paths(disk)
      BY <1>5, <2>2 DEF MissingDirs
    <3>2. WithDirs(up) = disk \cup {Dir(q) : q \in Ancestors(path) \ Paths(disk)}
      BY <2>2, <3>1 DEF WithDirs
    <3> QED BY <1>6, <3>2 DEF Aboves
  <2> QED BY <2>1, <2>2
<1>8. ASSUME path \notin Paths(disk)
      PROVE  CanMakeDirs(path) /\ WithDirs(path) = disk \cup Aboves(path) \cup {Dir(path)}
  <2>1. \A e \in disk : AtOrUnder(e.path, path) => e.dir
    BY <1>8 DEF Paths, AtOrUnder, Clear
  <2>2. WithDirs(path) = disk \cup {Dir(q) : q \in (Ancestors(path) \cup {path}) \ Paths(disk)}
    BY <1>1 DEF WithDirs, MissingDirs
  <2>3. WithDirs(path) = disk \cup Aboves(path) \cup {Dir(path)}
    BY <1>6, <1>8, <2>2 DEF Aboves
  <2> QED BY <2>1, <2>3 DEF CanMakeDirs
<1> QED BY <1>4, <1>7, <1>8 DEF up

\* The directory of an entry whose directories are there.
LEMMA ParentIsThere ==
  ASSUME NEW path \in Path, Aboves(path) \subseteq disk
  PROVE  IsDirAt(Parent(path))
<1>1. Ancestors(path) = IF Parent(path) = <<>> THEN {} ELSE Ancestors(Parent(path)) \cup {Parent(path)}
  BY ParentsAncestors
<1>2. Parent(path) # <<>> => Dir(Parent(path)) \in disk
  BY <1>1, AbovesIn
<1> QED BY <1>2 DEF IsDirAt, At, Dir

-----------------------------------------------------------------------------
(* What the stages have in common.                                          *)

\* The request of a busy handler is one of those clients send.
LEMMA AskedNames ==
  ASSUME Reached, NEW F, FilesNamed(F), NEW p \in Procs, proc[p].pc # "idle"
  PROVE  /\ Target(p) \in Path /\ Source(p) \in Path
         /\ Target(p) \in Seq(Segment) /\ Source(p) \in Seq(Segment)
         /\ \A q \in Ancestors(Target(p)) : Last(q) \notin F
         /\ proc[p].op = "mkdir" => Last(Target(p)) \notin F
         /\ (proc[p].op = "rename" /\ Last(Target(p)) \in F) => Last(Source(p)) \in F
         /\ proc[p].op = "copy" => Last(Source(p)) \in F
         /\ proc[p].op \in {"rename", "copy"} => ~AtOrUnder(Source(p), Target(p))
<1>1. PICK r \in Requests : Carries(proc[p], r)
  BY DEF Reached, AskedInv
<1>2. r.op = proc[p].op /\ r.from = Source(p) /\ r.to = Target(p)
  BY <1>1 DEF Carries, Source, Target
<1>3. Target(p) \in Path /\ Source(p) \in Path
  BY DEF Reached, Inv, ProcInv, Sound, Target, Source
<1>4. Target(p) \in Seq(Segment) /\ Source(p) \in Seq(Segment)
  BY <1>3, PathTypes DEF Segment
<1>5. proc[p].op \in {"rename", "copy"} => ~AtOrUnder(Source(p), Target(p))
  BY DEF Reached, TreeInv, AcrossInv, Source, Target
<1> QED BY <1>2, <1>3, <1>4, <1>5 DEF FilesNamed

\* A handler that goes on keeps its request and what it has found out.
SameRequest(p) ==
  LET q == proc'[p] IN
  /\ q.op = proc[p].op /\ q.from = proc[p].from /\ q.to = proc[p].to
  /\ q.data = proc[p].data /\ q.rid = proc[p].rid
  /\ q.dir = proc[p].dir /\ q.sha = proc[p].sha

LEMMA GotoKeeps ==
  ASSUME Inv, NEW p \in Procs, NEW pc, Goto(p, pc)
  PROVE  SameRequest(p) /\ proc'[p].pc = pc
BY DEF Goto, Inv, ProcInv, ProcType, SameRequest

LEMMA ParentsKeep ==
  ASSUME Inv, NEW p \in Procs, proc[p].op \in MakesParents, Target(p) \in Path,
         NEW k \in Nat, k <= Len(Target(p)) - 1, NextParent(p, k)
  PROVE  /\ SameRequest(p)
         /\ \/ proc'[p].pc = "parentRows" /\ proc'[p].k = k
            \/ proc'[p].pc = AfterParents[proc[p].op] /\ Firsts(Target(p), k) = Aboves(Target(p))
<1>1. proc'[p].pc = ParentsFrom(p, k) /\ proc'[p].k = k /\ SameRequest(p)
  BY DEF NextParent, Inv, ProcInv, ProcType, SameRequest
<1>2. Len(Target(p)) \in Nat
  BY LenProperties DEF Path
<1>3. CASE k < Len(Target(p)) - 1
  BY <1>1, <1>3 DEF ParentsFrom
<1>4. CASE ~(k < Len(Target(p)) - 1)
  <2>1. k = Len(Target(p)) - 1
    BY <1>2, <1>4
  <2> QED BY <1>1, <1>4, <2>1, FirstsEnd DEF ParentsFrom
<1> QED BY <1>3, <1>4

LEMMA TreeIsClosed ==
  ASSUME NEW F, NEW S, Plain(S, F), Tree(S)
  PROVE  Closed(S)
<1>1. \A e \in S : \A q \in Ancestors(e.path) : Dir(q) \in S
  <2> TAKE e \in S
  <2> TAKE q \in Ancestors(e.path)
  <2>1. PICK d \in S : d.path = q /\ d.dir
    BY DEF Tree, DirIn
  <2> QED BY <2>1 DEF Plain
<1> QED BY <1>1 DEF Closed, Aboves

LEMMA ReturnAgrees ==
  ASSUME Inv, NEW p \in Procs, NEW result, Return(p, result), NEW F, NEW L, NEW D, L = D,
         Plain(D, F), Tree(D)
  PROVE  Ordered(proc'[p], L, D, F)
<1>1. proc'[p].pc = "idle" /\ proc'[p].op = "none"
  BY DEF Return, Inv, ProcInv, Idle
<1> QED BY <1>1, TreeIsClosed DEF Ordered, Stage

LEMMA PlainUnion ==
  ASSUME NEW F, NEW S, NEW T, Plain(S, F), Plain(T, F)
  PROVE  Plain(S \cup T, F)
BY DEF Plain

LEMMA PlainPart ==
  ASSUME NEW F, NEW S, NEW T, Plain(S, F), T \subseteq S
  PROVE  Plain(T, F)
BY DEF Plain

LEMMA PlainFile == ASSUME NEW F, NEW path, NEW data PROVE Plain({File(path, data)}, F)
BY DEF Plain, File

LEMMA PlainDir ==
  ASSUME NEW F, NEW path, Last(path) \notin F PROVE Plain({Dir(path)}, F)
BY DEF Plain, Dir

LEMMA PlainAboves ==
  ASSUME NEW F, NEW path \in Path, \A q \in Ancestors(path) : Last(q) \notin F
  PROVE  Plain(Aboves(path), F)
BY AbovesAre DEF Plain

\* The directories of the next prefix are the ones before it.
LEMMA PrefixAboves ==
  ASSUME NEW path \in Path, NEW k \in Nat, k < Len(path) - 1,
         NEW q, q = SubSeq(path, 1, k + 1)
  PROVE  /\ Aboves(q) = Firsts(path, k)
         /\ q \in Ancestors(path) /\ q \in Path /\ q \in Seq(Segment) /\ Under(q, path)
<1>1. path \in Seq(Name) /\ Len(path) \in Nat
  BY LenProperties DEF Path
<1>2. k + 1 \in 1..(Len(path) - 1) /\ k + 1 \in 0..Len(path)
  BY <1>1
<1>3. q \in Ancestors(path)
  BY <1>2 DEF Ancestors
<1>4. q \in Path /\ Under(q, path)
  BY <1>1, <1>3, AncestorsArePaths, AboveIsClient
<1>5. Len(q) = k + 1 /\ \A i \in 1..(k + 1) : q[i] = path[i]
  BY <1>1, <1>2, FirstPart
<1>6. ASSUME NEW i \in 1..k PROVE SubSeq(q, 1, i) = SubSeq(path, 1, i)
  <2>1. q \in Seq(Name)
    BY <1>4 DEF Path
  <2>2. i \in 0..Len(q) /\ i \in 0..Len(path) /\ \A j \in 1..i : j \in 1..(k + 1)
    BY <1>1, <1>2, <1>5
  <2>3. /\ SubSeq(q, 1, i) \in Seq(Name) /\ Len(SubSeq(q, 1, i)) = i
        /\ \A j \in 1..i : SubSeq(q, 1, i)[j] = q[j]
    BY <2>1, <2>2, FirstPart
  <2>4. /\ SubSeq(path, 1, i) \in Seq(Name) /\ Len(SubSeq(path, 1, i)) = i
        /\ \A j \in 1..i : SubSeq(path, 1, i)[j] = path[j]
    BY <1>1, <2>2, FirstPart
  <2> QED BY <1>5, <2>2, <2>3, <2>4, SeqEqual
<1>7. (k + 1) - 1 = k
  OBVIOUS
<1>8. Ancestors(q) = {SubSeq(q, 1, i) : i \in 1..k}
  BY <1>5, <1>7 DEF Ancestors
<1>9. Aboves(q) = Firsts(path, k)
  <2> DEFINE P(i) == SubSeq(path, 1, i)
  <2>1. Ancestors(q) = {P(i) : i \in 1..k}
    BY <1>6, <1>8
  <2>2. Firsts(path, k) = {Dir(P(i)) : i \in 1..k}
    BY DEF Firsts
  <2> HIDE DEF P
  <2> QED BY <2>1, <2>2 DEF Aboves
<1>10. q \in Seq(Segment)
  BY <1>4, PathTypes DEF Segment
<1> QED BY <1>3, <1>4, <1>9, <1>10

\* A disk entry added to what moves is neither moved nor in the way.
LEMMA MovedAdds ==
  ASSUME NEW S, NEW from, NEW to, NEW e, ~AtOrUnder(from, e.path)
  PROVE  Moved(S \cup {e}, from, to) = Moved(S, from, to) \cup {e}
BY DEF Moved, Subtree

-----------------------------------------------------------------------------
(* What was found out is still true when it is acted on.                    *)

LEMMA EntryMoved ==
  ASSUME NEW path, NEW dir, NEW data, NEW to
  PROVE  [[path |-> path, dir |-> dir, data |-> data] EXCEPT !.path = to]
           = [path |-> to, dir |-> dir, data |-> data]
OBVIOUS

LEMMA FileMoved ==
  ASSUME NEW path, NEW data, NEW to
  PROVE  [File(path, data) EXCEPT !.path = to] = File(to, data)
BY EntryMoved DEF File

\* What is above the target of a rename is not moved by it.
LEMMA AbovesStay ==
  ASSUME NEW from \in Seq(Segment), NEW to \in Path, ~AtOrUnder(from, to)
  PROVE  \A e \in Aboves(to) : ~AtOrUnder(from, e.path) /\ ~AtOrUnder(to, e.path)
<1> TAKE e \in Aboves(to)
<1>1. e.path \in Seq(Segment) /\ Under(e.path, to) /\ to \in Seq(Segment)
  BY AbovesAre, PathTypes DEF Segment
<1>2. Under(from, e.path) => Under(from, to)
  BY <1>1, UnderTrans
<1>3. ~AtOrUnder(to, e.path)
  BY <1>1, UnderIrreflexive
<1> QED BY <1>1, <1>2, <1>3 DEF AtOrUnder

LEMMA MovedAreBelow ==
  ASSUME Inv, \A w \in Wild : w[1] = w[2], NEW p \in Procs, Source(p) \in Path, NEW r \in rows
  PROVE  IsMoved(p, r.path) <=> AtOrUnder(Source(p), r.path)
<1> DEFINE from == Source(p)
<1>1. r.path \in Seq(Name) /\ from \in Seq(Name)
  BY DEF Inv, RowInv, RowType, Path
<1>2. LikeUnder(from, r.path) => Under(from, r.path)
  BY <1>1, LikeIsUnder
<1>3. Under(from, r.path) => LikeUnder(from, r.path)
  BY <1>1, UnderMeans DEF LikeUnder
<1> QED BY <1>2, <1>3 DEF IsMoved, AtOrUnder

\* With nothing at or below the new name, the unique index has no objection.
LEMMA NoViolation ==
  ASSUME Inv, \A w \in Wild : w[1] = w[2], NEW p \in Procs, Source(p) \in Path, Target(p) \in Path,
         \A r \in rows : ~AtOrUnder(Target(p), r.path)
  PROVE  ~UniqueViolation(MovedRows(p))
<1> DEFINE from == Source(p)
           to == Target(p)
           M(r) == IF IsMoved(p, r.path) THEN MovedRow(p, r) ELSE r
<1>1. from \in Seq(Name) /\ to \in Seq(Name)
  BY DEF Path
<1>2. ASSUME NEW r \in rows
      PROVE  /\ r.path \in Seq(Name) /\ ~AtOrUnder(to, r.path)
             /\ AtOrUnder(from, r.path) => /\ M(r).path = Rebase(r.path, from, to)
                                           /\ AtOrUnder(to, M(r).path)
             /\ ~AtOrUnder(from, r.path) => M(r).path = r.path
  <2>1. r.path \in Seq(Name)
    BY DEF Inv, RowInv, RowType, Path
  <2>2. IsMoved(p, r.path) <=> AtOrUnder(from, r.path)
    BY MovedAreBelow
  <2>3. MovedRow(p, r).path = Rebase(r.path, from, to)
    BY MovedRowLemma DEF Inv
  <2>4. AtOrUnder(from, r.path) => AtOrUnder(to, Rebase(r.path, from, to))
    BY <1>1, <2>1, RebaseBelow
  <2> QED BY <2>1, <2>2, <2>3, <2>4
<1>3. MovedRows(p) = {M(r) : r \in rows}
  BY DEF MovedRows
<1>4. ASSUME NEW r \in rows, NEW s \in rows, M(r).path = M(s).path PROVE r = s
  <2>1. r.path = s.path => r = s
    BY DEF Inv, RowInv
  <2> HIDE DEF M, from, to
  <2>2. AtOrUnder(from, r.path) <=> AtOrUnder(from, s.path)
    BY <1>2, <1>4
  <2>3. CASE AtOrUnder(from, r.path)
    BY <1>1, <1>2, <1>4, <2>1, <2>2, <2>3, RebaseInjective
  <2>4. CASE ~AtOrUnder(from, r.path)
    BY <1>2, <1>4, <2>1, <2>2, <2>4
  <2> QED BY <2>3, <2>4
<1> HIDE DEF M
<1> QED BY <1>3, <1>4 DEF UniqueViolation

\* The names of rows are clients', those of temporary files are not.
LEMMA ListedAreClients ==
  ASSUME Inv
  PROVE  \A e \in Listing : e.path \in Path /\ ~IsTemp(e.path) /\ e.dir \in BOOLEAN
BY ListingTypes, PathTypes DEF Inv, EntryType, IsTemp

\* Nothing is in the way of an upload that publishes its temporary file.
LEMMA UploadPublishes ==
  ASSUME Reached, NEW F, OneAtATime(F), NEW p \in Procs,
         Ordered(proc[p], Listing, disk, F), AtStep(p, "upload", "publish")
  PROVE  /\ CanRename(Temp(p), Target(p))
         /\ RenamedDisk(Temp(p), Target(p))
              = {e \in Listing : e.path # Target(p)} \cup {File(Target(p), proc[p].data)}
<1> DEFINE T == Target(p)
           L == Listing
           D == disk
           d == proc[p].data
           t == Temp(p)
<1>1. proc[p].pc # "idle" /\ proc[p].op = "upload" /\ proc[p].pc = "publish"
  BY DEF AtStep
<1>2. T \in Path /\ T \in Seq(Segment)
  BY <1>1, AskedNames DEF OneAtATime
<1>3. t \in Seq(Segment) /\ t # <<>> /\ IsTemp(t) /\ ~AtOrUnder(t, T)
  BY <1>1, TempShape DEF Reached
<1>4. t = TempName(proc[p]) /\ T = proc[p].to
  BY DEF Temp, TempName, Target
<1>5. \A e \in L : e.path \in Path /\ ~IsTemp(e.path) /\ e.dir \in BOOLEAN
  BY ListedAreClients DEF Reached
<1>6. Shaped(D)
  BY DEF Reached, TreeInv
<1>7. D = L \cup {File(t, d)} /\ Aboves(T) \subseteq L /\ \A e \in L : e.path = T => ~e.dir
  BY <1>1, <1>4 DEF Ordered, Stage, Uploading
<1> HIDE DEF T, L, D, d, t
<1> DEFINE f == File(t, d)
<1>8. f \in D /\ f.path = t /\ f.dir = FALSE /\ f.data = d
  BY <1>7 DEF File
<1> HIDE DEF f
<1>9. \A e \in D : e = f \/ (e \in L /\ ~AtOrUnder(t, e.path))
  <2>1. \A e \in D : AtOrUnder(t, e.path) => IsTemp(e.path)
    BY <1>3, <1>6, BelowTemp
  <2> QED BY <1>5, <1>7, <2>1 DEF f
<1>10. L \subseteq D
  BY <1>7
<1>11. CanRename(t, T)
  <2>1. IsDirAt(Parent(T))
    BY <1>2, <1>7, ParentIsThere DEF D
  <2>2. \A e \in At(D, t) : e.dir = FALSE
    BY <1>8, <1>9 DEF At, AtOrUnder
  <2>3. \A e \in At(D, T) : e.dir = FALSE
    BY <1>5, <1>7, <1>8, <1>9 DEF At
  <2>4. At(D, t) # {}
    BY <1>8 DEF At
  <2> QED BY <2>1, <2>2, <2>3, <2>4 DEF CanRename, D
<1>12. Subtree(D, t) = {f}
  BY <1>8, <1>9 DEF Subtree, AtOrUnder
<1>13. [f EXCEPT !.path = Rebase(@, t, T)] = File(T, d)
  <2>1. Rebase(t, t, T) = T /\ t = f.path
    BY <1>2, <1>3, <1>8, RebaseProperties DEF Path
  <2>2. [f EXCEPT !.path = Rebase(@, t, T)] = [f EXCEPT !.path = T]
    BY <2>1
  <2>3. [f EXCEPT !.path = T] = File(T, d)
    BY FileMoved DEF f
  <2> QED BY <2>2, <2>3
<1>14. RenamedDisk(t, T) = {e \in L : e.path # T} \cup {File(T, d)}
  <2>1. RenamedDisk(t, T) = {e \in D : ~AtOrUnder(t, e.path) /\ e.path # T}
                              \cup {[e EXCEPT !.path = Rebase(@, t, T)] : e \in {f}}
    BY <1>12 DEF RenamedDisk, D
  <2>2. {e \in D : ~AtOrUnder(t, e.path) /\ e.path # T} = {e \in L : e.path # T}
    <3>1. AtOrUnder(t, f.path)
      BY <1>8 DEF AtOrUnder
    <3>2. \A e \in L : ~AtOrUnder(t, e.path)
      BY <1>5, <1>3, <1>8, <1>9, <1>10
    <3> QED BY <1>9, <1>10, <3>1, <3>2
  <2> QED BY <1>13, <2>1, <2>2
<1> QED BY <1>11, <1>14 DEF T, L, d, t

\* Nothing is in the way of a copy of a file.
LEMMA CopiesOneFile ==
  ASSUME Reached, NEW F, OneAtATime(F), NEW p \in Procs,
         Ordered(proc[p], Listing, disk, F), AtStep(p, "copy", "copyDisk")
  PROVE  /\ CanCopy(Source(p), Target(p), proc[p].dir)
         /\ CopiedDisk(Target(p), proc[p].dir, Copies(Source(p), Target(p)))
              = disk \cup {File(Target(p), proc[p].sha)}
<1> DEFINE T == Target(p)
           from == Source(p)
           L == Listing
           D == disk
           q == proc[p]
           f == File(T, q.sha)
           g == File(from, q.sha)
<1>1. q.pc = "copyDisk" /\ q.op = "copy" /\ T = q.to /\ from = q.from
  BY DEF AtStep, Target, Source
<1>2. /\ T \in Path /\ T \in Seq(Segment) /\ from \in Path /\ from \in Seq(Segment) /\ from # <<>>
      /\ ~AtOrUnder(from, T)
  BY <1>1, AskedNames, PathTypes DEF OneAtATime
<1>3. Shaped(D) /\ Tree(D) /\ Inv
  BY DEF Reached, TreeInv, Shaped
<1>4. D = L \cup Aboves(T) /\ Vacant(L, T) /\ q.dir = FALSE /\ g \in L
  BY <1>1 DEF Ordered, Stage, Copying
<1>5. \A e \in D : ~AtOrUnder(T, e.path)
  BY <1>2, <1>4, AbovesStay DEF Vacant
<1>6. f.path = T /\ f.dir = FALSE /\ f.data = q.sha
  BY DEF File
<1>7. g \in D /\ g.path = from /\ g.dir = FALSE /\ g.data = q.sha
  BY <1>4 DEF File
<1>8. CopiedData(q.sha) = q.sha
  <2>1. g \in EntryType
    BY <1>3, <1>4, ListingTypes DEF Inv
  <2>2. q.sha \in Data \cup {NoData}
    BY <1>7, <2>1 DEF EntryType
  <2> QED BY <2>2, DataAssumption DEF CopiedData
<1> HIDE DEF g
<1>9. Subtree(D, from) = {g}
  <2>1. ASSUME NEW e \in D, Under(from, e.path) PROVE FALSE
    BY <1>2, <1>3, <1>7, <2>1, AboveIsDir DEF Shaped
  <2>2. \A e \in D : e.path = from => e = g
    BY <1>3, <1>7 DEF Tree
  <2> QED BY <1>7, <2>1, <2>2 DEF Subtree, AtOrUnder
<1>10. Copies(from, T) = {f}
  <2>1. Rebase(g.path, from, T) = T
    BY <1>2, <1>7, RebaseProperties DEF Path
  <2>2. Copies(from, T)
          = {[path |-> Rebase(e.path, from, T), dir |-> e.dir, data |-> CopiedData(e.data)] : e \in {g}}
    BY <1>9 DEF Copies
  <2>3. [path |-> Rebase(g.path, from, T), dir |-> g.dir, data |-> CopiedData(g.data)] = f
    BY <1>7, <1>8, <2>1 DEF File
  <2> QED BY <2>2, <2>3
<1>11. CopyBase(T, q.dir) = D
  BY <1>4 DEF CopyBase
<1>12. CanCopy(from, T, q.dir)
  <2>1. IsDirAt(Parent(T))
    BY <1>2, <1>4, ParentIsThere
  <2>2. CanBeginCopy(T, q.dir)
    BY <1>4, <2>1 DEF CanBeginCopy
  <2>3. Fitting(from, T, q.dir) = Copies(from, T)
    BY <1>5, <1>6, <1>10, <1>11 DEF Fitting, AtOrUnder
  <2>4. \E e \in At(D, from) : e.dir = q.dir
    BY <1>4, <1>7 DEF At
  <2> QED BY <2>2, <2>3, <2>4 DEF CanCopy
<1>13. CopiedDisk(T, q.dir, {f}) = D \cup {f}
  BY <1>5, <1>6, <1>11 DEF CopiedDisk, Paths, AtOrUnder
<1> QED BY <1>10, <1>12, <1>13

\* What a handler has found out still holds when it acts on it.
LEMMA NothingInTheWay ==
  ASSUME Reached, NEW F, OneAtATime(F), NEW p \in Procs, Ordered(proc[p], Listing, disk, F)
  PROVE  /\ AtStep(p, "upload", "makeParents") => CanMakeDirs(Parent(Target(p)))
         /\ AtStep(p, "upload", "createTemp") => IsDirAt(Parent(Target(p)))
         /\ AtStep(p, "upload", "publish") => CanRename(Temp(p), Target(p))
         /\ AtStep(p, "delete", "removeDisk") => ~Blocked(Target(p))
         /\ AtStep(p, "rename", "renameDisk") => CanRename(Source(p), Target(p))
         /\ AtStep(p, "rename", "updateRows") => ~UniqueViolation(MovedRows(p))
         /\ AtStep(p, "copy", "copyDisk") => CanCopy(Source(p), Target(p), proc[p].dir)
         /\ ~AtStep(p, "copy", "rollback")
         /\ AtStep(p, "copy", "readResult") => Target(p) \in Paths(rows)
         /\ AtStep(p, "mkdir", "makeDir") => CanMakeDirs(Target(p))
         /\ AtStep(p, "mkdir", "insertRow") => Target(p) \notin Paths(rows)
<1> DEFINE T == Target(p)
           from == Source(p)
           L == Listing
           D == disk
           q == proc[p]
<1>1. T = q.to /\ from = q.from
  BY DEF Target, Source
<1>2. q.pc # "idle" => /\ T \in Path /\ T \in Seq(Segment) /\ T # <<>>
                       /\ from \in Path /\ from \in Seq(Segment)
                       /\ q.op \in {"rename", "copy"} => ~AtOrUnder(from, T)
  BY AskedNames, PathTypes DEF OneAtATime
<1>3. Shaped(D) /\ Tree(D) /\ Inv /\ TreeInv /\ Paths(L) = Paths(rows)
  BY ListingTypes DEF Reached, TreeInv, Shaped, Inv
<1>4. Stage(q, L, D) /\ Plain(L, F) /\ Plain(D, F)
  BY DEF Ordered
<1>5. ASSUME AtStep(p, "upload", "createTemp") PROVE IsDirAt(Parent(T))
  <2>1. Aboves(T) \subseteq D
    BY <1>1, <1>4, <1>5 DEF AtStep, Stage, Uploading
  <2> QED BY <1>2, <1>5, <2>1, ParentIsThere DEF AtStep
<1>6. ASSUME AtStep(p, "delete", "removeDisk") PROVE ~Blocked(T)
  <2>1. PICK e \in D : e.path = T
    BY <1>1, <1>4, <1>6 DEF AtStep, Stage, Deleting, Paths
  <2>2. ASSUME NEW f \in D, Under(f.path, T) PROVE f.dir
    <3>1. f.path \in Seq(Segment) /\ f.path # <<>>
      BY <1>3, Entries DEF Shaped
    <3> QED BY <1>3, <2>1, <2>2, <3>1, AboveIsDir DEF Shaped
  <2> QED BY <2>2 DEF Blocked
<1>7. ASSUME AtStep(p, "rename", "renameDisk") PROVE CanRename(from, T)
  <2>1. D = L \cup Aboves(T) /\ Vacant(L, T) /\ from \in Paths(L)
    BY <1>1, <1>4, <1>7 DEF AtStep, Stage, Renaming
  <2>2. IsDirAt(Parent(T))
    BY <1>2, <1>7, <2>1, ParentIsThere DEF AtStep
  <2>3. \A e \in D : ~AtOrUnder(T, e.path)
    BY <1>2, <1>7, <2>1, AbovesStay DEF AtStep, Vacant
  <2>4. At(D, from) # {} /\ At(D, T) = {}
    BY <2>1, <2>3 DEF At, Paths, AtOrUnder
  <2> QED BY <2>2, <2>4 DEF CanRename
<1>8. ASSUME AtStep(p, "rename", "updateRows") PROVE ~UniqueViolation(MovedRows(p))
  <2>1. Vacant(L, T)
    BY <1>1, <1>4, <1>8 DEF AtStep, Stage, Renaming
  <2>2. \A r \in rows : Listed(r) \in L /\ Listed(r).path = r.path
    BY DEF Listing, Listed
  <2>3. \A r \in rows : ~AtOrUnder(T, r.path)
    BY <2>1, <2>2 DEF Vacant
  <2> QED BY <1>2, <1>3, <1>8, <2>3, NoViolation DEF OneAtATime, AtStep
<1>9. ~AtStep(p, "copy", "rollback")
  BY <1>4 DEF AtStep, Stage, Copying
<1>10. AtStep(p, "copy", "readResult") => T \in Paths(rows)
  BY <1>1, <1>3, <1>4 DEF AtStep, Stage, Copying
<1>11. ASSUME AtStep(p, "mkdir", "makeDir") PROVE CanMakeDirs(T)
  <2>1. L = D \cup Aboves(T) /\ Clear(L, T) /\ T \notin Paths(L)
    BY <1>1, <1>4, <1>11 DEF AtStep, Stage, Making
  <2>2. Clear(D, T) /\ T \notin Paths(D)
    BY <2>1 DEF Clear, Paths
  <2> QED BY <1>2, <1>3, <1>4, <1>11, <2>2, MakesAboves DEF AtStep
<1>12. AtStep(p, "mkdir", "insertRow") => T \notin Paths(rows)
  BY <1>1, <1>3, <1>4 DEF AtStep, Stage, Making
<1>13. ASSUME AtStep(p, "upload", "makeParents") PROVE CanMakeDirs(Parent(T))
  <2>1. L = D \cup Aboves(T) /\ Clear(L, T)
    BY <1>1, <1>4, <1>13 DEF AtStep, Stage, Uploading
  <2>2. Clear(D, T)
    BY <2>1 DEF Clear
  <2> QED BY <1>2, <1>3, <1>4, <1>13, <2>2, MakesAboves DEF AtStep
<1> QED BY <1>5, <1>6, <1>7, <1>8, <1>9, <1>10, <1>11, <1>12, <1>13, UploadPublishes, CopiesOneFile

-----------------------------------------------------------------------------
(* The steps, by operation.                                                 *)

LEMMA ParentRowOrdered ==
  ASSUME Reached, Reached', NEW F, OneAtATime(F), NEW p \in Procs,
         Ordered(proc[p], Listing, disk, F), ParentRow(p)
  PROVE  Ordered(proc'[p], Listing', disk', F)
<1> DEFINE T == Target(p)
           k == proc[p].k
           q == SubSeq(T, 1, k + 1)
           L == Listing
           D == disk
           L2 == L \cup {Dir(q)}
           s == proc'[p]
<1>1. /\ proc[p].pc = "parentRows" /\ proc[p].op \in MakesParents
      /\ k \in Nat /\ k < Len(T) - 1 /\ k + 1 \in Nat
  BY DEF ParentRow, Reached, Inv, ProcInv, Sound, ProcType, Target
<1>2. /\ T \in Path /\ \A x \in Ancestors(T) : Last(x) \notin F
      /\ proc[p].op \in {"rename", "copy"} => ~AtOrUnder(Source(p), T)
      /\ Source(p) \in Seq(Segment) /\ T \in Seq(Segment)
  BY <1>1, AskedNames DEF OneAtATime
<1>3. Len(T) \in Nat
  BY <1>2, LenProperties DEF Path
<1>4. k + 1 <= Len(T) - 1
  BY <1>1, <1>3
<1>5. Aboves(q) = Firsts(T, k) /\ q \in Ancestors(T) /\ q \in Seq(Segment) /\ Under(q, T)
  BY <1>1, <1>2, PrefixAboves
<1>6. Stage(proc[p], L, D) /\ Plain(L, F) /\ Plain(D, F)
  BY DEF Ordered
<1>7. Clear(L, T) /\ Firsts(T, k) \subseteq L
  BY <1>1, <1>6 DEF Stage, Uploading, Renaming, Copying, Making, MakesParents, Target
<1>8. Listing' = L2 /\ disk' = D
  <2>1. \A e \in L : e.path = q => e.dir
    BY <1>5, <1>7 DEF Clear
  <2> QED BY <1>6, <2>1, ListingParent DEF ParentRow, Reached
<1>9. /\ SameRequest(p)
      /\ \/ s.pc = "parentRows" /\ s.k = k + 1
         \/ s.pc = AfterParents[proc[p].op] /\ Firsts(T, k + 1) = Aboves(T)
  BY <1>1, <1>2, <1>4, ParentsKeep DEF ParentRow, Reached
<1>10. Firsts(T, k + 1) = Firsts(T, k) \cup {Dir(q)}
  BY <1>1, FirstsGrow
<1>11. Dir(q).path = q /\ Dir(q).dir = TRUE /\ Dir(q) \in Aboves(T)
  BY <1>5, AbovesIn DEF Dir
<1>12. q # T /\ ~AtOrUnder(T, q)
  BY <1>2, <1>5, UnderIrreflexive
<1>13. Plain(L2, F)
  <2>1. Plain({Dir(q)}, F)
    BY <1>2, <1>5, PlainDir
  <2> QED BY <1>6, <2>1, PlainUnion
<1>14. Clear(L2, T)
  BY <1>7, <1>11 DEF Clear
<1>15. Firsts(T, k + 1) \subseteq L2
  BY <1>7, <1>10
<1>16. proc[p].op # "copy" => Closed(L2)
  <2>1. proc[p].op # "copy" => Closed(L)
    BY DEF Ordered
  <2>2. Closed(L) => Closed(L2)
    BY <1>5, <1>7, <1>11 DEF Closed
  <2> QED BY <2>1, <2>2
<1>17. s.op = proc[p].op /\ s.to = T /\ s.from = Source(p)
  BY <1>9 DEF SameRequest, Target, Source
<1>18. Tree(D)
  BY <1>8 DEF Reached, TreeInv, Shaped
<1> HIDE DEF L, D, T, k, s, q
<1>19. CASE proc[p].op = "upload"
  <2>1. L = D \cup Firsts(T, k) /\ \A e \in L : e.path = T => ~e.dir
    BY <1>1, <1>6, <1>19 DEF Stage, Uploading, Target, T, k
  <2>2. L2 = D \cup Firsts(T, k + 1) /\ \A e \in L2 : e.path = T => ~e.dir
    BY <1>10, <1>11, <1>12, <2>1
  <2>3. \/ s.pc = "parentRows" /\ s.k = k + 1
        \/ s.pc = "makeParents" /\ L2 = D \cup Aboves(T)
    BY <1>9, <1>19, <2>2 DEF AfterParents
  <2>4. Uploading(s, L2, D)
    BY <1>14, <1>17, <2>2, <2>3 DEF Uploading
  <2> QED BY <1>6, <1>8, <1>13, <1>16, <1>17, <1>19, <2>3, <2>4 DEF Ordered, Stage, s
<1>20. CASE proc[p].op = "mkdir"
  <2>1. L = D \cup Firsts(T, k) /\ T \notin Paths(L)
    BY <1>1, <1>6, <1>20 DEF Stage, Making, Target, T, k
  <2>2. L2 = D \cup Firsts(T, k + 1) /\ T \notin Paths(L2)
    BY <1>10, <1>11, <1>12, <2>1 DEF Paths
  <2>3. \/ s.pc = "parentRows" /\ s.k = k + 1
        \/ s.pc = "makeDir" /\ L2 = D \cup Aboves(T)
    BY <1>9, <1>20, <2>2 DEF AfterParents
  <2>4. Making(s, L2, D)
    BY <1>14, <1>17, <2>2, <2>3 DEF Making
  <2> QED BY <1>6, <1>8, <1>13, <1>16, <1>17, <1>20, <2>3, <2>4 DEF Ordered, Stage, s
<1>21. CASE proc[p].op = "rename"
  <2> DEFINE from == Source(p)
  <2>1. /\ D = Moved(L, from, T) \cup Aboves(T) /\ Vacant(L, T) /\ from \in Paths(L)
    BY <1>1, <1>6, <1>21 DEF Stage, Renaming, Target, Source, T, k
  <2>2. ~AtOrUnder(from, q)
    <3>1. Under(from, q) => Under(from, T)
      BY <1>2, <1>5, UnderTrans
    <3> QED BY <1>2, <1>5, <1>21, <3>1 DEF AtOrUnder
  <2>3. D = Moved(L2, from, T) \cup Aboves(T)
    BY <1>11, <2>1, <2>2, MovedAdds
  <2>4. Vacant(L2, T) /\ from \in Paths(L2)
    BY <1>11, <1>12, <2>1 DEF Vacant, Paths
  <2>5. \/ s.pc = "parentRows" /\ s.k = k + 1
        \/ s.pc = "updateRows" /\ Aboves(T) \subseteq L2
    BY <1>9, <1>15, <1>21 DEF AfterParents
  <2>6. Renaming(s, L2, D)
    BY <1>14, <1>15, <1>17, <2>3, <2>4, <2>5 DEF Renaming
  <2> QED BY <1>6, <1>8, <1>13, <1>16, <1>17, <1>21, <2>5, <2>6 DEF Ordered, Stage, s
<1>22. CASE proc[p].op = "copy"
  <2>1. D = L \cup Aboves(T) /\ T \in Paths(L)
    BY <1>1, <1>6, <1>22 DEF Stage, Copying, Target, T, k
  <2>2. D = L2 \cup Aboves(T) /\ T \in Paths(L2)
    BY <1>11, <2>1 DEF Paths
  <2>3. \/ s.pc = "parentRows" /\ s.k = k + 1
        \/ s.pc = "readResult" /\ L2 = D
    BY <1>9, <1>15, <1>22, <2>2 DEF AfterParents
  <2>4. Copying(s, L2, D)
    BY <1>14, <1>15, <1>17, <2>2, <2>3 DEF Copying
  <2>5. s.pc = "readResult" => Closed(L2)
    BY <1>6, <1>18, <2>3, TreeIsClosed
  <2> QED BY <1>6, <1>8, <1>13, <1>17, <1>22, <2>3, <2>4, <2>5 DEF Ordered, Stage, s
<1> QED BY <1>1, <1>19, <1>20, <1>21, <1>22 DEF MakesParents

LEMMA UploadOrdered ==
  ASSUME Reached, Reached', NEW F, OneAtATime(F), NEW p \in Procs,
         Ordered(proc[p], Listing, disk, F), Upload(p) \/ UploadFails(p)
  PROVE  Ordered(proc'[p], Listing', disk', F)
<1> DEFINE T == Target(p)
           L == Listing
           D == disk
           d == proc[p].data
           t == Temp(p)
           s == proc'[p]
<1>1. proc[p].pc # "idle" /\ proc[p].op = "upload"
  BY DEF Upload, UploadCheck, UploadMakeParents, UploadCreateTemp, UploadStream, UploadPublish,
         UploadUpsert, UploadFails, AtStep, Reached, Inv, ProcInv, Sound
<1>2. T \in Path /\ T \in Seq(Segment) /\ \A x \in Ancestors(T) : Last(x) \notin F
  BY <1>1, AskedNames DEF OneAtATime
<1>3. Uploading(proc[p], L, D) /\ Plain(L, F) /\ Plain(D, F) /\ Closed(L)
  BY <1>1 DEF Ordered, Stage
<1>4. t \in Seq(Segment) /\ t # <<>> /\ Last(t) = proc[p].rid /\ IsTemp(t) /\ ~AtOrUnder(t, T)
  BY <1>1, TempShape DEF Reached
<1>5. t = TempName(proc[p]) /\ T = proc[p].to
  BY DEF Temp, TempName, Target
<1>6. \A e \in L : e.path \in Path /\ ~IsTemp(e.path) /\ e.dir \in BOOLEAN
  BY ListedAreClients DEF Reached
<1>7. Shaped(D) /\ Tree(D) /\ Tree(disk')
  BY DEF Reached, TreeInv, Shaped
<1>8. Inv /\ TreeInv /\ RowInv
  BY DEF Reached, Inv
<1>9. \A pc : Goto(p, pc) => SameRequest(p) /\ s.pc = pc
  BY <1>8, GotoKeeps
<1>10. SameRequest(p) => /\ s.op = "upload" /\ s.to = T /\ s.data = d /\ TempName(s) = t
  BY <1>1, <1>5 DEF SameRequest, TempName
<1>11. ~(s.op = "copy" /\ s.pc = "parentRows") => Closed(L)
  BY <1>3
<1>a. T \in Paths(L) <=> T \in Paths(rows)
  BY <1>8, ListingTypes
<1> SUFFICES Ordered(s, Listing', disk', F)
  OBVIOUS
<1> HIDE DEF T, L, D, d, t, s
<1>12. ASSUME Listing' = L, Plain(disk', F), s.op = "upload", s.pc # "idle", Uploading(s, L, disk')
       PROVE  Ordered(s, Listing', disk', F)
  BY <1>3, <1>12 DEF Ordered, Stage
<1>13. CASE UploadCheck(p)
  <2>1. L = D /\ Listing' = L /\ disk' = D
    BY <1>3, <1>13, ListingStays DEF UploadCheck, AtStep, Uploading, store, L, D
  <2>2. CASE Refuse(p)
    BY <1>3, <1>7, <1>8, <2>1, <2>2, ReturnAgrees DEF Refuse, s
  <2>3. CASE GotoParents(p) /\ ~Blocked(T) /\ ~UploadConflict(p)
    <3>1. Clear(L, T)
      BY <2>1, <2>3 DEF Clear, Blocked, D
    <3>2. \A e \in L : e.path = T => ~e.dir
      BY <2>1, <2>3 DEF UploadConflict, At, T, D
    <3>3. 0 \in Nat /\ 0 <= Len(T) - 1
      <4>1. Len(T) \in Nat \ {0}
        BY <1>2, EmptySeq DEF Path
      <4> QED BY <4>1
    <3>4. /\ SameRequest(p)
          /\ \/ s.pc = "parentRows" /\ s.k = 0
             \/ s.pc = "makeParents" /\ Firsts(T, 0) = Aboves(T)
      BY <1>1, <1>2, <1>8, <2>3, <3>3, ParentsKeep DEF GotoParents, T, s, MakesParents, AfterParents
    <3>5. Firsts(T, 0) = {}
      BY <1>2, FirstsEnd
    <3>6. Uploading(s, L, D)
      BY <1>10, <2>1, <3>1, <3>2, <3>4, <3>5 DEF Uploading
    <3> QED BY <1>3, <1>10, <1>12, <2>1, <3>4, <3>6
  <2> QED BY <1>13, <2>2, <2>3 DEF UploadCheck, T, s
<1>14. CASE UploadMakeParents(p)
  <2>1. L = D \cup Aboves(T) /\ Clear(L, T) /\ \A e \in L : e.path = T => ~e.dir
    BY <1>3, <1>5, <1>14 DEF UploadMakeParents, AtStep, Uploading
  <2>2. Clear(D, T)
    BY <2>1 DEF Clear
  <2>3. CanMakeDirs(Parent(T)) /\ WithDirs(Parent(T)) = D \cup Aboves(T)
    BY <1>2, <1>3, <1>8, <2>2, MakesAboves DEF D
  <2>4. disk' = L /\ Goto(p, "createTemp") /\ Listing' = L
    BY <1>14, <2>1, <2>3, ListingStays DEF UploadMakeParents, T, L
  <2>5. Uploading(s, L, disk')
    BY <1>9, <1>10, <2>1, <2>4 DEF Uploading
  <2> QED BY <1>3, <1>9, <1>10, <1>12, <2>4, <2>5
<1>15. CASE UploadCreateTemp(p)
  <2>1. L = D /\ Aboves(T) \subseteq L /\ Clear(L, T) /\ \A e \in L : e.path = T => ~e.dir
    BY <1>3, <1>5, <1>15 DEF UploadCreateTemp, AtStep, Uploading
  <2>2. IsDirAt(Parent(T))
    BY <1>2, <2>1, ParentIsThere DEF D
  <2>3. disk' = L \cup {File(t, Partial)} /\ Goto(p, "stream") /\ Listing' = L
    BY <1>15, <2>1, <2>2, ListingStays DEF UploadCreateTemp, T, L, D, t
  <2>4. Plain(disk', F)
    BY <1>3, <2>3, PlainFile, PlainUnion
  <2>5. Uploading(s, L, disk')
    BY <1>9, <1>10, <2>1, <2>3 DEF Uploading
  <2> QED BY <1>9, <1>10, <1>12, <2>3, <2>4, <2>5
<1>16. CASE UploadStream(p)
  <2>1. /\ D = L \cup {File(t, Partial)} /\ Aboves(T) \subseteq L /\ Clear(L, T)
        /\ \A e \in L : e.path = T => ~e.dir
    BY <1>3, <1>5, <1>16 DEF UploadStream, AtStep, Uploading
  <2> DEFINE W(e) == IF e.data = Partial /\ Last(e.path) = proc[p].rid
                     THEN [e EXCEPT !.data = d] ELSE e
  <2>2. disk' = {W(e) : e \in D} /\ Goto(p, "publish") /\ Listing' = L
    BY <1>16, ListingStays DEF UploadStream, d, D, L
  <2>3. \A e \in L : W(e) = e
    <3>1. proc[p].rid \in Nat
      BY <1>1, <1>8, BusyHandler DEF ProcType
    <3>2. \A e \in L : Last(e.path) # proc[p].rid
      BY <1>6, <3>1, TempAssumption DEF IsTemp
    <3> QED BY <3>2
  <2>4. W(File(t, Partial)) = File(t, d)
    BY <1>4 DEF File
  <2> HIDE DEF W
  <2>5. disk' = L \cup {File(t, d)}
    BY <2>1, <2>2, <2>3, <2>4
  <2>6. Plain(disk', F)
    BY <1>3, <2>5, PlainFile, PlainUnion
  <2>7. Uploading(s, L, disk')
    BY <1>9, <1>10, <2>1, <2>2, <2>5 DEF Uploading
  <2> QED BY <1>9, <1>10, <1>12, <2>2, <2>6, <2>7
<1>17. CASE UploadPublish(p)
  <2>1. /\ D = L \cup {File(t, d)} /\ Aboves(T) \subseteq L /\ Clear(L, T)
        /\ \A e \in L : e.path = T => ~e.dir
    BY <1>3, <1>5, <1>17 DEF UploadPublish, AtStep, Uploading, d
  <2>2. /\ CanRename(t, T)
        /\ RenamedDisk(t, T) = {e \in L : e.path # T} \cup {File(T, d)}
    BY <1>17, UploadPublishes DEF UploadPublish, T, L, d, t
  <2>3. Goto(p, "upsert") /\ Listing' = L
    BY <1>17, <2>2, ListingStays DEF UploadPublish, T, L, t
  <2>4. disk' = {e \in L : e.path # T} \cup {File(T, d)}
    BY <1>17, <2>2 DEF UploadPublish, T, t
  <2>5. Plain(disk', F)
    <3>1. Plain({e \in L : e.path # T}, F)
      BY <1>3, PlainPart
    <3> QED BY <2>4, <3>1, PlainFile, PlainUnion
  <2>6. Uploading(s, L, disk')
    BY <1>9, <1>10, <2>1, <2>3, <2>4 DEF Uploading
  <2> QED BY <1>9, <1>10, <1>12, <2>3, <2>5, <2>6
<1>18. CASE UploadFails(p)
  <2>1. D = L \cup {File(t, Partial)} /\ Refuse(p)
    <3>1. proc[p].pc = "stream"
      BY <1>18 DEF UploadFails, Fault, OneAtATime
    <3> QED BY <1>3, <1>5, <1>18, <3>1 DEF UploadFails, Uploading
  <2>2. disk' = L /\ Listing' = L
    <3>1. disk' = D \ At(D, t) /\ Listing' = L
      BY <1>18, ListingStays DEF UploadFails, t, D, L
    <3>2. \A e \in L : e.path # t
      BY <1>4, <1>6
    <3>3. File(t, Partial).path = t
      BY DEF File
    <3> QED BY <2>1, <3>1, <3>2, <3>3 DEF At
  <2> QED BY <1>3, <1>7, <1>8, <2>1, <2>2, ReturnAgrees DEF Refuse, s
<1>19. CASE UploadUpsert(p)
  <2>1. /\ D = {e \in L : e.path # T} \cup {File(T, d)}
        /\ \A e \in L : e.path = T => ~e.dir
    BY <1>3, <1>5, <1>19 DEF UploadUpsert, AtStep, Uploading, d
  <2>2. Listing' = D
    BY <1>2, <1>8, <1>19, <2>1, ListingPuts DEF T, L, d
  <2>3. disk' = D /\ Succeed(p)
    BY <1>19 DEF UploadUpsert, D
  <2> QED BY <1>3, <1>7, <1>8, <2>2, <2>3, ReturnAgrees DEF Succeed, s
<1>20. Upload(p) \/ UploadFails(p)
  OBVIOUS
<1> QED BY <1>13, <1>14, <1>15, <1>16, <1>17, <1>18, <1>19, <1>20 DEF Upload

LEMMA DeleteOrdered ==
  ASSUME Reached, Reached', NEW F, OneAtATime(F), NEW p \in Procs,
         Ordered(proc[p], Listing, disk, F), Delete(p)
  PROVE  Ordered(proc'[p], Listing', disk', F)
<1> DEFINE T == Target(p)
           L == Listing
           D == disk
           s == proc'[p]
<1>1. proc[p].pc # "idle" /\ proc[p].op = "delete" /\ T = proc[p].to
  BY DEF Delete, DeleteCheck, DeleteDisk, DeleteRows, AtStep, Target
<1>2. T \in Path /\ T \in Seq(Segment) /\ T # <<>>
  BY <1>1, AskedNames, PathTypes DEF OneAtATime
<1>3. Deleting(proc[p], L, D) /\ Plain(L, F) /\ Plain(D, F) /\ Closed(L)
  BY <1>1 DEF Ordered, Stage
<1>4. Shaped(D) /\ Tree(D) /\ Tree(disk') /\ Inv /\ TreeInv
  BY DEF Reached, TreeInv, Shaped
<1>5. \A pc : Goto(p, pc) => s.op = "delete" /\ s.to = T /\ s.pc = pc
  BY <1>1, <1>4, GotoKeeps DEF SameRequest
<1>6. Paths(L) = Paths(rows)
  BY <1>4, ListingTypes DEF Inv
<1>7. CASE DeleteCheck(p)
  <2>1. L = D /\ Listing' = L /\ disk' = D
    BY <1>3, <1>7, ListingStays DEF DeleteCheck, AtStep, Deleting, store
  <2>2. CASE Refuse(p)
    BY <1>3, <1>4, <2>1, <2>2, ReturnAgrees DEF Refuse
  <2>3. CASE T \in Paths(rows) /\ Goto(p, "removeDisk")
    <3>1. s.op = "delete" /\ s.to = T /\ s.pc = "removeDisk" /\ T \in Paths(L)
      BY <1>5, <1>6, <2>3
    <3> HIDE DEF L, D, T, s
    <3>2. Deleting(s, L, D)
      BY <2>1, <3>1 DEF Deleting
    <3> QED BY <1>3, <2>1, <3>1, <3>2 DEF Ordered, Stage, s
  <2> QED BY <1>7, <2>2, <2>3 DEF DeleteCheck
<1>8. CASE DeleteDisk(p)
  <2>1. L = D /\ Listing' = L /\ T \in Paths(D)
    BY <1>1, <1>3, <1>8, ListingStays DEF DeleteDisk, AtStep, Deleting
  <2>2. ~Blocked(T)
    BY <1>8, NothingInTheWay DEF DeleteDisk
  <2>3. disk' = D \ Subtree(D, T) /\ Goto(p, "deleteRows")
    BY <1>8, <2>2 DEF DeleteDisk
  <2>4. s.op = "delete" /\ s.to = T /\ s.pc = "deleteRows"
    BY <1>5, <2>3
  <2>5. Plain(disk', F)
    BY <1>3, <2>3, PlainPart
  <2> HIDE DEF L, D, T, s
  <2>6. Deleting(s, L, disk')
    BY <2>1, <2>3, <2>4 DEF Deleting
  <2> QED BY <1>3, <2>1, <2>4, <2>5, <2>6 DEF Ordered, Stage, s
<1>9. CASE DeleteRows(p)
  <2>1. D = L \ Subtree(L, T) /\ disk' = D /\ Succeed(p)
    BY <1>1, <1>3, <1>9 DEF DeleteRows, AtStep, Deleting
  <2>2. Listing' = D
    BY <1>2, <1>4, <1>9, <2>1, ListingDrops DEF OneAtATime
  <2> QED BY <1>3, <1>4, <2>1, <2>2, ReturnAgrees DEF Succeed
<1> QED BY <1>7, <1>8, <1>9 DEF Delete

\* What both a rename and a copy begin with.
LEMMA SourceOrdered ==
  ASSUME Reached, Reached', NEW F, OneAtATime(F), NEW p \in Procs,
         Ordered(proc[p], Listing, disk, F), ReadSource(p) \/ CheckTarget(p) \/ TargetParents(p)
  PROVE  Ordered(proc'[p], Listing', disk', F)
<1> DEFINE T == Target(p)
           from == Source(p)
           L == Listing
           D == disk
           q == proc[p]
           s == proc'[p]
<1>1. q.pc # "idle" /\ q.op \in {"rename", "copy"} /\ T = q.to /\ from = q.from
  BY DEF ReadSource, CheckTarget, TargetParents, Target, Source, Reached, Inv, ProcInv, Sound
<1>2. /\ T \in Path /\ T \in Seq(Segment) /\ T # <<>> /\ from \in Path
      /\ q.op = "copy" => Last(from) \in F
  BY <1>1, AskedNames, PathTypes DEF OneAtATime
<1>3. /\ q.op = "rename" => Renaming(q, L, D)
      /\ q.op = "copy" => Copying(q, L, D)
      /\ Plain(L, F) /\ Plain(D, F)
  BY <1>1 DEF Ordered, Stage
<1>4. Shaped(D) /\ Tree(D) /\ Tree(disk') /\ Inv /\ TreeInv
  BY DEF Reached, TreeInv, Shaped
<1>5. \A pc : Goto(p, pc) => SameRequest(p) /\ s.pc = pc
  BY <1>4, GotoKeeps
<1>6. Paths(L) = Paths(rows)
  BY <1>4, ListingTypes DEF Inv
<1>7. q.pc \in {"readRow", "checkTarget", "makeParents"} /\ L = D /\ Listing' = L
  BY <1>1, <1>3, ListingStays DEF ReadSource, CheckTarget, TargetParents, store, Renaming, Copying
<1>8. Closed(L)
  BY <1>3, <1>4, <1>7, TreeIsClosed
<1>9. CASE Refuse(p) /\ disk' = D
  BY <1>3, <1>4, <1>7, <1>9, ReturnAgrees DEF Refuse
<1> SUFFICES ASSUME ~(Refuse(p) /\ disk' = D)
             PROVE  Ordered(s, Listing', disk', F)
  BY <1>9
<1>10. ASSUME s.op = q.op, s.to = T, s.from = from, s.pc # "idle", s.pc # "parentRows",
              Plain(disk', F),
              s.op = "rename" => Renaming(s, L, disk'), s.op = "copy" => Copying(s, L, disk')
       PROVE  Ordered(s, Listing', disk', F)
  BY <1>1, <1>3, <1>7, <1>8, <1>10 DEF Ordered, Stage
<1>11. CASE ReadSource(p)
  <2>1. PICK r \in rows : r.path = from /\ proc' = [proc EXCEPT ![p].pc = "checkTarget",
                                                    ![p].dir = r.dir, ![p].sha = r.sha]
    BY <1>11 DEF ReadSource, At, store
  <2>2. disk' = D
    BY <1>11 DEF ReadSource, store
  <2>3. /\ s.op = q.op /\ s.to = T /\ s.from = from /\ s.pc = "checkTarget"
        /\ s.dir = r.dir /\ s.sha = r.sha
    BY <1>1, <1>4, <2>1 DEF Inv, ProcInv, ProcType
  <2>4. Listed(r) \in L /\ Listed(r).path = from /\ Listed(r).dir = r.dir /\ r \in RowType
    BY <1>4, <2>1 DEF Listing, Listed, Inv, RowInv
  <2>5. from \in Paths(L)
    BY <2>4 DEF Paths
  <2>6. q.op = "copy" => r.dir = FALSE /\ Listed(r) = File(from, r.sha)
    <3>1. q.op = "copy" => r.dir = FALSE
      BY <1>2, <1>3, <2>4 DEF Plain, RowType
    <3> QED BY <2>1, <3>1 DEF Listed, File
  <2> HIDE DEF L, D, T, from, s
  <2>7. s.op = "rename" => Renaming(s, L, disk')
    BY <1>7, <2>2, <2>3, <2>5 DEF Renaming
  <2>8. s.op = "copy" => Copying(s, L, disk')
    BY <1>7, <2>2, <2>3, <2>4, <2>6 DEF Copying
  <2> QED BY <1>3, <1>10, <2>2, <2>3, <2>7, <2>8
<1>12. CASE CheckTarget(p)
  <2>1. disk' = D /\ Goto(p, "makeParents") /\ T \notin Paths(L) /\ q.pc = "checkTarget"
    BY <1>6, <1>12 DEF CheckTarget, store
  <2>2. Vacant(L, T)
    <3> SUFFICES ASSUME NEW e \in D, Under(T, e.path) PROVE FALSE
      BY <1>7, <2>1 DEF Vacant, Paths, AtOrUnder
    <3>1. DirIn(D, T)
      BY <1>2, <1>4, AboveIsDir DEF Shaped
    <3> QED BY <1>7, <2>1, <3>1 DEF DirIn, Paths
  <2>3. /\ s.op = q.op /\ s.to = T /\ s.from = from /\ s.pc = "makeParents"
        /\ s.dir = q.dir /\ s.sha = q.sha
    BY <1>1, <1>5, <2>1 DEF SameRequest
  <2>4. /\ q.op = "rename" => from \in Paths(L)
        /\ q.op = "copy" => q.dir = FALSE /\ File(from, q.sha) \in L
    BY <1>1, <1>3, <2>1 DEF Renaming, Copying
  <2> HIDE DEF L, D, T, from, s, q
  <2>5. s.op = "rename" => Renaming(s, L, disk')
    BY <1>7, <2>1, <2>2, <2>3, <2>4 DEF Renaming
  <2>6. s.op = "copy" => Copying(s, L, disk')
    BY <1>7, <2>1, <2>2, <2>3, <2>4 DEF Copying
  <2> QED BY <1>3, <1>10, <2>1, <2>3, <2>5, <2>6
<1>13. CASE TargetParents(p)
  <2>1. /\ q.pc = "makeParents" /\ ~Blocked(T) /\ disk' = WithDirs(Parent(T))
        /\ Goto(p, IF q.op = "rename" THEN "renameDisk" ELSE "copyDisk")
    BY <1>13 DEF TargetParents
  <2>2. Clear(D, T)
    BY <2>1 DEF Blocked, Clear
  <2>3. disk' = L \cup Aboves(T)
    BY <1>2, <1>3, <1>4, <1>7, <2>1, <2>2, MakesAboves
  <2>4. /\ s.op = q.op /\ s.to = T /\ s.from = from
        /\ s.pc = IF q.op = "rename" THEN "renameDisk" ELSE "copyDisk"
        /\ s.dir = q.dir /\ s.sha = q.sha
    BY <1>1, <1>5, <2>1 DEF SameRequest
  <2>5. /\ Vacant(L, T)
        /\ q.op = "rename" => from \in Paths(L)
        /\ q.op = "copy" => q.dir = FALSE /\ File(from, q.sha) \in L
    BY <1>1, <1>3, <2>1 DEF Renaming, Copying
  <2>6. Plain(disk', F)
    <3>1. Plain(Aboves(T), F)
      BY <1>1, <1>2, AskedNames, PlainAboves DEF OneAtATime
    <3> QED BY <1>3, <2>3, <3>1, PlainUnion
  <2> HIDE DEF L, D, T, from, s, q
  <2>7. s.op = "rename" => Renaming(s, L, disk')
    BY <1>7, <2>2, <2>3, <2>4, <2>5 DEF Renaming
  <2>8. s.op = "copy" => Copying(s, L, disk')
    BY <1>7, <2>2, <2>3, <2>4, <2>5 DEF Copying
  <2> QED BY <1>1, <1>10, <2>4, <2>6, <2>7, <2>8
<1> QED BY <1>11, <1>12, <1>13

\* A tree is as plain after a rename as before.
LEMMA MovedPlain ==
  ASSUME NEW F, NEW S, Plain(S, F), \A e \in S : e.path \in Path,
         NEW from \in Path, NEW to \in Path, Last(to) \in F => Last(from) \in F
  PROVE  Plain(Moved(S, from, to), F)
<1>1. from \in Seq(Name) /\ to \in Seq(Name) /\ to # <<>>
  BY DEF Path
<1>2. ASSUME NEW e \in S, AtOrUnder(from, e.path),
             NEW m, m = [e EXCEPT !.path = Rebase(@, from, to)], m.dir
      PROVE  m = Dir(m.path) /\ Last(m.path) \notin F
  <2> DEFINE r == Rebase(e.path, from, to)
  <2>1. e.path \in Seq(Name)
    BY DEF Path
  <2>2. (Under(from, e.path) => Last(r) = Last(e.path)) /\ (e.path = from => r = to)
    BY <1>1, <2>1, RebaseProperties
  <2> HIDE DEF r
  <2>3. CASE e.dir
    <3>1. e = Dir(e.path) /\ Last(e.path) \notin F
      BY <2>3 DEF Plain
    <3>2. m = [e EXCEPT !.path = r]
      BY <1>2 DEF r
    <3>3. m = [Dir(e.path) EXCEPT !.path = r]
      BY <3>1, <3>2
    <3>4. m = Dir(r) /\ m.path = r
      BY <3>3, EntryMoved DEF Dir
    <3>5. Last(r) \notin F
      BY <1>2, <2>2, <3>1 DEF AtOrUnder
    <3> QED BY <3>4, <3>5
  <2>4. CASE ~e.dir
    BY <1>2, <2>4
  <2> QED BY <2>3, <2>4
<1> QED BY <1>2 DEF Plain, Moved, Subtree

LEMMA MovedAside ==
  ASSUME NEW S, NEW A, NEW from, NEW to, \A e \in A : ~AtOrUnder(from, e.path)
  PROVE  Moved(S \cup A, from, to) = Moved(S, from, to) \cup A
BY DEF Moved, Subtree

LEMMA RenameOrdered ==
  ASSUME Reached, Reached', NEW F, OneAtATime(F), NEW p \in Procs,
         Ordered(proc[p], Listing, disk, F), Rename(p)
  PROVE  Ordered(proc'[p], Listing', disk', F)
<1> DEFINE T == Target(p)
           from == Source(p)
           L == Listing
           D == disk
           q == proc[p]
           s == proc'[p]
<1>1. q.pc # "idle" /\ q.op = "rename" /\ T = q.to /\ from = q.from
  BY DEF Rename, RenameDisk, RenameRows, AtStep, Target, Source
<1>2. /\ T \in Path /\ T \in Seq(Segment) /\ from \in Path /\ from \in Seq(Segment)
      /\ ~AtOrUnder(from, T) /\ (Last(T) \in F => Last(from) \in F)
      /\ \A x \in Ancestors(T) : Last(x) \notin F
  BY <1>1, AskedNames DEF OneAtATime
<1>3. Renaming(q, L, D) /\ Plain(L, F) /\ Plain(D, F) /\ Closed(L)
  BY <1>1 DEF Ordered, Stage
<1>4. Tree(D) /\ Tree(disk') /\ Inv /\ TreeInv
  BY DEF Reached, TreeInv, Shaped
<1>5. \A e \in Aboves(T) : ~AtOrUnder(from, e.path) /\ ~AtOrUnder(T, e.path)
  BY <1>2, AbovesStay
<1>6. q.pc \in {"renameDisk", "updateRows"}
  BY DEF Rename, RenameDisk, RenameRows, AtStep
<1>7. Vacant(L, T) /\ Clear(L, T) /\ from \in Paths(L)
  BY <1>1, <1>3, <1>6 DEF Renaming
<1>8. CASE RenameDisk(p)
  <2>1. D = L \cup Aboves(T) /\ Listing' = L
    BY <1>1, <1>3, <1>8, ListingStays DEF RenameDisk, AtStep, Renaming
  <2>2. \A e \in D : ~AtOrUnder(T, e.path)
    BY <1>5, <1>7, <2>1 DEF Vacant
  <2>3. CanRename(from, T)
    BY <1>8, NothingInTheWay DEF RenameDisk
  <2>4. disk' = RenamedDisk(from, T) /\ GotoParents(p)
    BY <1>8, <2>3 DEF RenameDisk
  <2>5. disk' = Moved(D, from, T)
    BY <2>2, <2>4 DEF RenamedDisk, Moved, AtOrUnder
  <2>6. disk' = Moved(L, from, T) \cup Aboves(T)
    BY <1>5, <2>1, <2>5, MovedAside
  <2>7. Plain(disk', F)
    <3>1. \A e \in L : e.path \in Path
      BY <1>4, ListedAreClients
    <3>2. Plain(Moved(L, from, T), F)
      BY <1>2, <1>3, <3>1, MovedPlain
    <3>3. Plain(Aboves(T), F)
      BY <1>2, PlainAboves
    <3> QED BY <2>6, <3>2, <3>3, PlainUnion
  <2>8. 0 \in Nat /\ 0 <= Len(T) - 1
    <3>1. Len(T) \in Nat \ {0}
      BY <1>2, EmptySeq DEF Path
    <3> QED BY <3>1
  <2>9. /\ SameRequest(p)
        /\ \/ s.pc = "parentRows" /\ s.k = 0
           \/ s.pc = "updateRows" /\ Firsts(T, 0) = Aboves(T)
    BY <1>1, <1>2, <1>4, <2>4, <2>8, ParentsKeep DEF GotoParents, MakesParents, AfterParents
  <2>10. s.op = "rename" /\ s.to = T /\ s.from = from /\ Firsts(T, 0) = {}
    BY <1>1, <1>2, <2>9, FirstsEnd DEF SameRequest
  <2> HIDE DEF L, D, T, from, s, q
  <2>11. Renaming(s, L, disk')
    BY <1>7, <2>6, <2>9, <2>10 DEF Renaming
  <2> QED BY <1>3, <2>1, <2>7, <2>9, <2>10, <2>11 DEF Ordered, Stage, s
<1>9. CASE RenameRows(p)
  <2>1. D = Moved(L, from, T) \cup Aboves(T) /\ Aboves(T) \subseteq L
    BY <1>1, <1>3, <1>9 DEF RenameRows, AtStep, Renaming
  <2>2. ~UniqueViolation(MovedRows(p))
    BY <1>9, NothingInTheWay DEF RenameRows
  <2>4. rows' = MovedRows(p) /\ Succeed(p) /\ disk' = D
    BY <1>9, <2>2 DEF RenameRows
  <2>5. Listing' = Moved(L, from, T)
    BY <1>2, <1>4, <2>4, ListingMoves DEF OneAtATime
  <2>6. Aboves(T) \subseteq Moved(L, from, T)
    BY <1>5, <2>1 DEF Moved
  <2>7. Listing' = D
    BY <2>1, <2>5, <2>6
  <2> QED BY <1>3, <1>4, <2>4, <2>7, ReturnAgrees DEF Succeed
<1> QED BY <1>8, <1>9 DEF Rename

LEMMA CopyOrdered ==
  ASSUME Reached, Reached', NEW F, OneAtATime(F), NEW p \in Procs,
         Ordered(proc[p], Listing, disk, F), Copy(p)
  PROVE  Ordered(proc'[p], Listing', disk', F)
<1> DEFINE T == Target(p)
           from == Source(p)
           L == Listing
           D == disk
           q == proc[p]
           s == proc'[p]
           f == File(T, q.sha)
<1>1. q.pc # "idle" /\ q.op = "copy" /\ T = q.to /\ from = q.from
  BY DEF Copy, CopyDisk, CopyInsert, CopyRollback, CopyChildRows, CopyResult, AtStep, Target, Source
<1>2. /\ T \in Path /\ T \in Seq(Segment) /\ from \in Path /\ from \in Seq(Segment) /\ from # <<>>
      /\ \A x \in Ancestors(T) : Last(x) \notin F
  BY <1>1, AskedNames, PathTypes DEF OneAtATime
<1>3. Copying(q, L, D) /\ Plain(L, F) /\ Plain(D, F)
  BY <1>1 DEF Ordered, Stage
<1>4. Tree(D) /\ Tree(disk') /\ Inv /\ TreeInv
  BY DEF Reached, TreeInv, Shaped
<1>6. f.path = T /\ f.dir = FALSE /\ f.data = q.sha
  BY DEF File
<1>7. CASE CopyDisk(p)
  <2>1. /\ D = L \cup Aboves(T) /\ Listing' = L /\ Vacant(L, T) /\ Clear(L, T)
        /\ q.dir = FALSE /\ File(from, q.sha) \in L
    BY <1>1, <1>3, <1>7, ListingStays DEF CopyDisk, AtStep, Copying
  <2>2. CanCopy(from, T, q.dir) /\ CopiedDisk(T, q.dir, Copies(from, T)) = D \cup {f}
    BY <1>7, CopiesOneFile DEF CopyDisk
  <2>3. disk' = D \cup {f} /\ Goto(p, "insertRow")
    BY <1>7, <2>2 DEF CopyDisk
  <2>4. Plain(disk', F)
    BY <1>3, <2>3, PlainFile, PlainUnion
  <2>5. /\ s.op = "copy" /\ s.to = T /\ s.from = from /\ s.pc = "insertRow"
        /\ s.dir = q.dir /\ s.sha = q.sha
    BY <1>1, <1>4, <2>3, GotoKeeps DEF SameRequest
  <2>6. Closed(L)
    BY <1>1, <1>7 DEF CopyDisk, AtStep, Ordered
  <2>7. disk' = L \cup Aboves(T) \cup {File(s.to, s.sha)} /\ File(s.from, s.sha) \in L
    BY <2>1, <2>3, <2>5
  <2> HIDE DEF L, D, T, from, s, q, f
  <2>8. Copying(s, L, disk')
    BY <2>1, <2>5, <2>7 DEF Copying
  <2> QED BY <1>3, <2>1, <2>4, <2>5, <2>6, <2>8 DEF Ordered, Stage, s
<1>8. CASE CopyInsert(p)
  <2>1. /\ D = L \cup Aboves(T) \cup {f} /\ Vacant(L, T) /\ Clear(L, T) /\ q.dir = FALSE
    BY <1>1, <1>3, <1>8 DEF CopyInsert, AtStep, Copying
  <2>2. T \notin Paths(rows)
    BY <1>4, <2>1, ListingTypes DEF Inv, Paths, Vacant, AtOrUnder
  <2>3. rows' = rows \cup {Row(T, nextId, FALSE, q.sha)} /\ GotoParents(p) /\ disk' = D
    BY <1>8, <2>1, <2>2 DEF CopyInsert
  <2> DEFINE L2 == L \cup {f}
  <2>4. Listing' = L2
    BY <2>3, ListingAdds DEF File
  <2>5. D = L2 \cup Aboves(T) /\ Plain(L2, F)
    BY <1>3, <2>1, PlainFile, PlainUnion
  <2>6. T \in Paths(L2) /\ Clear(L2, T)
    <3>1. ~Under(T, T)
      BY <1>2, UnderIrreflexive
    <3> QED BY <1>6, <2>1, <3>1 DEF Paths, Clear
  <2>7. 0 \in Nat /\ 0 <= Len(T) - 1
    <3>1. Len(T) \in Nat \ {0}
      BY <1>2, EmptySeq DEF Path
    <3> QED BY <3>1
  <2>8. /\ SameRequest(p)
        /\ \/ s.pc = "parentRows" /\ s.k = 0
           \/ s.pc = "readResult" /\ Firsts(T, 0) = Aboves(T)
    BY <1>1, <1>2, <1>4, <2>3, <2>7, ParentsKeep DEF GotoParents, MakesParents, AfterParents
  <2>9. s.op = "copy" /\ s.to = T /\ s.from = from /\ Firsts(T, 0) = {}
    BY <1>1, <1>2, <2>8, FirstsEnd DEF SameRequest
  <2>10. s.pc = "readResult" => L2 = D /\ Closed(L2)
    BY <1>3, <1>4, <2>5, <2>8, <2>9, TreeIsClosed
  <2> HIDE DEF L, D, T, from, s, q, f, L2
  <2>11. Copying(s, L2, D)
    BY <2>5, <2>6, <2>8, <2>9, <2>10 DEF Copying
  <2> QED BY <1>3, <2>3, <2>4, <2>5, <2>8, <2>9, <2>10, <2>11 DEF Ordered, Stage, s
<1>9. CASE CopyRollback(p) \/ CopyChildRows(p)
  BY <1>3, <1>9 DEF CopyRollback, CopyChildRows, AtStep, Copying
<1>10. CASE CopyResult(p)
  <2>1. L = D /\ Listing' = L /\ disk' = D /\ (Refuse(p) \/ Succeed(p))
    BY <1>3, <1>10, ListingStays DEF CopyResult, AtStep, Copying, store
  <2> QED BY <1>3, <1>4, <2>1, ReturnAgrees DEF Refuse, Succeed
<1> QED BY <1>7, <1>8, <1>9, <1>10 DEF Copy

LEMMA MkdirOrdered ==
  ASSUME Reached, Reached', NEW F, OneAtATime(F), NEW p \in Procs,
         Ordered(proc[p], Listing, disk, F), Mkdir(p)
  PROVE  Ordered(proc'[p], Listing', disk', F)
<1> DEFINE T == Target(p)
           L == Listing
           D == disk
           q == proc[p]
           s == proc'[p]
<1>1. q.pc # "idle" /\ q.op = "mkdir" /\ T = q.to
  BY DEF Mkdir, MkdirCheck, MkdirDisk, MkdirInsert, AtStep, Target
<1>2. /\ T \in Path /\ T \in Seq(Segment) /\ Last(T) \notin F
      /\ \A x \in Ancestors(T) : Last(x) \notin F
  BY <1>1, AskedNames DEF OneAtATime
<1>3. Making(q, L, D) /\ Plain(L, F) /\ Plain(D, F) /\ Closed(L)
  BY <1>1 DEF Ordered, Stage
<1>4. Tree(D) /\ Tree(disk') /\ Inv /\ TreeInv
  BY DEF Reached, TreeInv, Shaped
<1>5. Paths(L) = Paths(rows)
  BY <1>4, ListingTypes DEF Inv
<1>6. CASE MkdirCheck(p)
  <2>1. L = D /\ Listing' = L /\ disk' = D
    BY <1>3, <1>6, ListingStays DEF MkdirCheck, AtStep, Making, store
  <2>2. CASE Refuse(p)
    BY <1>3, <1>4, <2>1, <2>2, ReturnAgrees DEF Refuse
  <2>3. CASE GotoParents(p) /\ ~Blocked(T) /\ T \notin Paths(L)
    <3>1. Clear(L, T)
      BY <2>1, <2>3 DEF Clear, Blocked
    <3>2. 0 \in Nat /\ 0 <= Len(T) - 1
      <4>1. Len(T) \in Nat \ {0}
        BY <1>2, EmptySeq DEF Path
      <4> QED BY <4>1
    <3>3. /\ SameRequest(p)
          /\ \/ s.pc = "parentRows" /\ s.k = 0
             \/ s.pc = "makeDir" /\ Firsts(T, 0) = Aboves(T)
      BY <1>1, <1>2, <1>4, <2>3, <3>2, ParentsKeep DEF GotoParents, MakesParents, AfterParents
    <3>4. s.op = "mkdir" /\ s.to = T /\ Firsts(T, 0) = {}
      BY <1>1, <1>2, <3>3, FirstsEnd DEF SameRequest
    <3> HIDE DEF L, D, T, s, q
    <3>5. Making(s, L, D)
      BY <2>1, <2>3, <3>1, <3>3, <3>4 DEF Making
    <3> QED BY <1>3, <2>1, <3>3, <3>4, <3>5 DEF Ordered, Stage, s
  <2> QED BY <1>5, <1>6, <2>2, <2>3 DEF MkdirCheck
<1>7. CASE MkdirDisk(p)
  <2>1. L = D \cup Aboves(T) /\ Listing' = L /\ Clear(L, T) /\ T \notin Paths(L)
    BY <1>1, <1>3, <1>7, ListingStays DEF MkdirDisk, AtStep, Making
  <2>2. Clear(D, T) /\ T \notin Paths(D)
    BY <2>1 DEF Clear, Paths
  <2>3. disk' = L \cup {Dir(T)} /\ Goto(p, "insertRow")
    BY <1>2, <1>3, <1>4, <1>7, <2>1, <2>2, MakesAboves DEF MkdirDisk
  <2>4. s.op = "mkdir" /\ s.to = T /\ s.pc = "insertRow"
    BY <1>1, <1>4, <2>3, GotoKeeps DEF SameRequest
  <2>5. Plain(disk', F)
    BY <1>2, <1>3, <2>3, PlainDir, PlainUnion
  <2> HIDE DEF L, D, T, s, q
  <2>6. Making(s, L, disk')
    BY <2>1, <2>3, <2>4 DEF Making
  <2> QED BY <1>3, <2>1, <2>4, <2>5, <2>6 DEF Ordered, Stage, s
<1>8. CASE MkdirInsert(p)
  <2>1. D = L \cup {Dir(T)} /\ T \notin Paths(rows)
    BY <1>1, <1>3, <1>5, <1>8 DEF MkdirInsert, AtStep, Making
  <2>2. rows' = rows \cup {Row(T, nextId, TRUE, NoData)} /\ Succeed(p) /\ disk' = D
    BY <1>8, <2>1 DEF MkdirInsert
  <2>3. Listing' = D
    BY <2>1, <2>2, ListingAdds DEF Dir
  <2> QED BY <1>3, <1>4, <2>2, <2>3, ReturnAgrees DEF Succeed
<1> QED BY <1>6, <1>7, <1>8 DEF Mkdir

LEMMA ShareOrdered ==
  ASSUME Reached, Reached', NEW F, NEW p \in Procs,
         Ordered(proc[p], Listing, disk, F), Share(p)
  PROVE  Ordered(proc'[p], Listing', disk', F)
<1>1. proc[p].op = "share" /\ Inv /\ Tree(disk)
  BY DEF Share, ShareLookup, ShareInsert, AtStep, Reached, TreeInv, Shaped
<1>2. Listing = disk /\ Listing' = Listing /\ disk' = disk /\ Plain(disk, F) /\ Closed(disk)
  BY <1>1, ListingStays DEF Share, ShareLookup, ShareInsert, store, Ordered, Stage
<1>3. CASE Refuse(p) \/ Succeed(p)
  BY <1>1, <1>2, <1>3, ReturnAgrees DEF Refuse, Succeed
<1>4. CASE ShareLookup(p) /\ ~Refuse(p)
  <2>1. PICK r : proc' = [proc EXCEPT ![p].pc = "insertShare", ![p].id = r.id]
    BY <1>4 DEF ShareLookup
  <2>2. proc'[p].op = "share"
    BY <1>1, <2>1 DEF Inv, ProcInv, ProcType
  <2> QED BY <1>2, <2>2 DEF Ordered, Stage
<1> QED BY <1>3, <1>4 DEF Share, ShareInsert

\* A request begins, after the one before it has returned.
LEMMA StartOrdered ==
  ASSUME Reached, NEW F, NEW p \in Procs,
         Ordered(proc[p], Listing, disk, F), Start(p)
  PROVE  Ordered(proc'[p], Listing', disk', F)
<1>1. Listing = disk /\ Listing' = Listing /\ disk' = disk /\ Plain(disk, F)
  BY ListingStays DEF Start, store, Ordered, Stage
<1>2. Closed(disk)
  BY <1>1, TreeIsClosed DEF Reached, TreeInv, Shaped
<1>3. PICK r \in Requests : proc' = [proc EXCEPT ![p] = Accept(r, issued + 1)]
  BY DEF Start
<1>4. /\ proc'[p].op = r.op /\ proc'[p].pc = FirstStep[r.op] /\ r.op \in Ops
  BY <1>3, RequestAssumption DEF Inv, ProcInv, Accept, RequestType, Reached
<1>5. Stage(proc'[p], disk, disk)
  <2> DEFINE s == proc'[p]
  <2> HIDE DEF s
  <2>1. CASE r.op = "upload"
    BY <1>4, <2>1 DEF Stage, Uploading, FirstStep, s
  <2>2. CASE r.op = "delete"
    BY <1>4, <2>2 DEF Stage, Deleting, FirstStep, s
  <2>3. CASE r.op = "rename"
    BY <1>4, <2>3 DEF Stage, Renaming, FirstStep, s
  <2>4. CASE r.op = "copy"
    BY <1>4, <2>4 DEF Stage, Copying, FirstStep, s
  <2>5. CASE r.op = "mkdir"
    BY <1>4, <2>5 DEF Stage, Making, FirstStep, s
  <2>6. CASE r.op = "share"
    BY <1>4, <2>6 DEF Stage, s
  <2> QED BY <1>4, <2>1, <2>2, <2>3, <2>4, <2>5, <2>6 DEF Ops
<1> QED BY <1>1, <1>2, <1>5 DEF Ordered

\* Together: no step leaves the order.
LEMMA SeqStep ==
  ASSUME NEW F, OneAtATime(F)
  PROVE  Reached /\ Reached' /\ SeqInv(F) /\ [Next]_vars => SeqInv(F)'
<1> SUFFICES ASSUME Reached, Reached', SeqInv(F), [Next]_vars PROVE SeqInv(F)'
  OBVIOUS
<1>1. CASE UNCHANGED vars
  BY <1>1, ListingStays DEF vars, SeqInv
<1>2. ASSUME NEW p \in Procs, Start(p) \/ HandlerStep(p) \/ HandlerFault(p) PROVE SeqInv(F)'
  <2>1. \A x \in Procs : x = p
    BY DEF OneAtATime
  <2>2. Ordered(proc[p], Listing, disk, F)
    BY DEF SeqInv
  <2>3. ASSUME HandlerFault(p) PROVE Ordered(proc'[p], Listing', disk', F)
    <3>1. UploadFails(p)
      BY <2>3 DEF HandlerFault, DbFails, DiskFails, DeleteFailsMidway, CopyFailsMidway, Abandon,
                  Fault, OneAtATime
    <3> QED BY <2>2, <3>1, UploadOrdered
  <2>4. Ordered(proc'[p], Listing', disk', F)
    BY <1>2, <2>2, <2>3, StartOrdered, ParentRowOrdered, UploadOrdered, DeleteOrdered,
       SourceOrdered, RenameOrdered, CopyOrdered, MkdirOrdered, ShareOrdered DEF HandlerStep
  <2> QED BY <2>1, <2>4 DEF SeqInv
<1> QED BY <1>1, <1>2 DEF Next

LEMMA InitOrdered ==
  ASSUME NEW F, OneAtATime(F)
  PROVE  Init => SeqInv(F)
<1> SUFFICES ASSUME Init PROVE SeqInv(F)
  OBVIOUS
<1>1. \A i \in DOMAIN Stored : Stored[i] \in EntryType
  BY StoredAssumption, ElementOfSeq
<1>2. Listing = disk
  <2>1. ASSUME NEW i \in DOMAIN Stored
        PROVE  Listed(Row(Stored[i].path, i, Stored[i].dir, Stored[i].data)) = Stored[i]
    BY <1>1 DEF Listed, Row, EntryType
  <2>2. rows = {Row(Stored[i].path, i, Stored[i].dir, Stored[i].data) : i \in DOMAIN Stored}
    BY DEF Init
  <2>3. Listing = {Listed(Row(Stored[i].path, i, Stored[i].dir, Stored[i].data)) : i \in DOMAIN Stored}
    BY <2>2 DEF Listing
  <2> QED BY <2>1, <2>3 DEF Init
<1>3. Plain(disk, F)
  <2>1. ASSUME NEW i \in DOMAIN Stored, Stored[i].dir
        PROVE  Stored[i] = Dir(Stored[i].path) /\ Last(Stored[i].path) \notin F
    <3>1. Stored[i].dir = TRUE /\ Stored[i].data = NoData
      BY <1>1, <2>1, StoredAssumption DEF EntryType
    <3>2. Stored[i] = [path |-> Stored[i].path, dir |-> Stored[i].dir, data |-> Stored[i].data]
      BY <1>1 DEF EntryType
    <3> QED BY <2>1, <3>1, <3>2 DEF Dir, OneAtATime, FilesNamed
  <2> QED BY <2>1 DEF Init, Plain
<1>4. Closed(disk)
  BY <1>3, InitTree, TreeIsClosed DEF TreeInv, Shaped
<1>5. \A p \in Procs : proc[p].pc = "idle" /\ proc[p].op = "none"
  BY DEF Init, Idle
<1> QED BY <1>2, <1>3, <1>4, <1>5 DEF SeqInv, Ordered, Stage

LEMMA AlwaysOrdered ==
  ASSUME NEW F, OneAtATime(F)
  PROVE  Spec => [](Reached /\ SeqInv(F))
BY InitOrdered, SeqStep, AlwaysReached, PTL DEF Spec

\* (upload_file, "the content is hashed, the checksum is stored in the DB")  When
\* requests come one after the other, and nothing fails but the body of an
\* upload, then after each of them every row has its entry on the disk, every
\* entry its row, and every file the checksum of its bytes: whatever the storage
\* holds, and whatever the requests are, provided a copy names a file and no
\* name is a LIKE pattern for another.
THEOREM EveryRequestAgrees ==
  ASSUME NEW F, OneAtATime(F)
  PROVE  Spec => []Agree
<1>1. SeqInv(F) => Agree
  <2> SUFFICES ASSUME SeqInv(F), Quiescent PROVE Listing = disk
    BY DEF Agree, Listing
  <2>1. PICK p : p \in Procs
    BY DEF OneAtATime
  <2> QED BY <2>1 DEF SeqInv, Ordered, Stage, Quiescent
<1> QED BY <1>1, AlwaysOrdered, PTL

-----------------------------------------------------------------------------
(* .. and a request is refused before it changes anything.                  *)

\* A link is made to a row that is still there.
LookedInv ==
  \A p \in Procs : AtStep(p, "share", "insertShare") => proc[p].id \in {r.id : r \in rows}

LEMMA LookedStep ==
  ASSUME NEW F, OneAtATime(F)
  PROVE  Reached /\ LookedInv /\ [Next]_vars => LookedInv'
<1> SUFFICES ASSUME Reached, LookedInv, [Next]_vars PROVE LookedInv'
  OBVIOUS
<1>1. CASE UNCHANGED vars
  BY <1>1 DEF vars, LookedInv, AtStep
<1>2. ASSUME NEW p \in Procs, Start(p) \/ HandlerStep(p) \/ HandlerFault(p),
             proc'[p].op = "share", proc'[p].pc = "insertShare"
      PROVE  proc'[p].id \in {r.id : r \in rows'}
  <2>1. CASE Start(p)
    <3>1. PICK r \in Requests : proc' = [proc EXCEPT ![p] = Accept(r, issued + 1)]
      BY <2>1 DEF Start
    <3>2. proc'[p].op = r.op /\ proc'[p].pc = FirstStep[r.op]
      BY <3>1 DEF Reached, Inv, ProcInv, Accept
    <3> QED BY <1>2, <3>2 DEF FirstStep
  <2>2. ASSUME HandlerStep(p) \/ HandlerFault(p)
        PROVE  proc'[p].id \in {r.id : r \in rows'}
    <3>1. proc[p].op = "share"
      BY <1>2, <2>2, HandlerContinues DEF Reached, Continues
    <3>2. \A result : Return(p, result) => proc'[p].pc = "idle"
      BY DEF Return, Reached, Inv, ProcInv, Idle
    <3>3. ~HandlerFault(p)
      BY <1>2, <3>2 DEF HandlerFault, DbFails, DiskFails, DeleteFailsMidway, CopyFailsMidway,
                        UploadFails, Abandon, Refuse
    <3>4. proc[p].pc # "parentRows" /\ proc[p].pc # "checkTarget"
      BY <3>1 DEF Reached, Inv, ProcInv, Sound, MakesParents
    <3>5. Share(p)
      BY <2>2, <3>1, <3>3, <3>4
         DEF HandlerStep, ParentRow, Upload, UploadCheck, UploadMakeParents, UploadCreateTemp,
             UploadStream, UploadPublish, UploadUpsert, Delete, DeleteCheck, DeleteDisk, DeleteRows,
             ReadSource, CheckTarget, TargetParents, Rename, RenameDisk, RenameRows, Copy, CopyDisk,
             CopyInsert, CopyRollback, CopyChildRows, CopyResult, Mkdir, MkdirCheck, MkdirDisk,
             MkdirInsert, AtStep
    <3>6. ShareLookup(p) /\ ~Refuse(p)
      BY <1>2, <3>2, <3>5 DEF Share, ShareInsert, Refuse, Succeed
    <3>7. PICK r \in rows : proc' = [proc EXCEPT ![p].pc = "insertShare", ![p].id = r.id]
      BY <3>6 DEF ShareLookup, At
    <3>8. proc'[p].id = r.id
      BY <3>7 DEF Reached, Inv, ProcInv, ProcType
    <3> QED BY <3>6, <3>8 DEF ShareLookup, store
  <2> QED BY <1>2, <2>1, <2>2
<1>3. CASE Next
  <2>1. PICK p \in Procs : Start(p) \/ HandlerStep(p) \/ HandlerFault(p)
    BY <1>3 DEF Next
  <2>2. \A x \in Procs : x = p
    BY DEF OneAtATime
  <2> QED BY <1>2, <2>1, <2>2 DEF LookedInv, AtStep
<1> QED BY <1>1, <1>3

LEMMA RefusedEarly ==
  ASSUME Reached, LookedInv, NEW F, OneAtATime(F), NEW p \in Procs,
         Ordered(proc[p], Listing, disk, F), HandlerStep(p), proc[p].pc # "idle",
         proc'[p].pc = "idle", answer' = "error"
  PROVE  Refusing(proc[p]) /\ UNCHANGED store
<1>1. \A pc : Goto(p, pc) => proc'[p].pc = pc
  BY DEF Goto, Reached, Inv, ProcInv, ProcType
<1>2. ASSUME NEW k, NextParent(p, k), proc[p].op \in MakesParents PROVE FALSE
  <2>1. proc'[p].pc = ParentsFrom(p, k)
    BY <1>2 DEF NextParent, Reached, Inv, ProcInv, ProcType
  <2> QED BY <1>2, <2>1 DEF ParentsFrom, AfterParents, MakesParents
<1>3. ~Succeed(p)
  BY DEF Succeed, Return
<1>4. CASE ParentRow(p)
  <2>1. proc[p].op \in MakesParents
    BY <1>4 DEF ParentRow, Reached, Inv, ProcInv, Sound
  <2> QED BY <1>2, <1>4, <2>1 DEF ParentRow
<1>5. CASE Upload(p)
  BY <1>1, <1>2, <1>3, <1>5, NothingInTheWay
     DEF Upload, UploadCheck, UploadMakeParents, UploadCreateTemp, UploadStream, UploadPublish,
         UploadUpsert, AtStep, GotoParents, MakesParents, Refusing, store
<1>6. CASE Delete(p)
  BY <1>1, <1>3, <1>6, NothingInTheWay
     DEF Delete, DeleteCheck, DeleteDisk, DeleteRows, AtStep, Refusing
<1>7. CASE ReadSource(p) \/ CheckTarget(p)
  BY <1>7 DEF ReadSource, CheckTarget, Refusing
<1>8. CASE TargetParents(p)
  BY <1>1, <1>8 DEF TargetParents, Refusing, store
<1>9. CASE Rename(p)
  BY <1>2, <1>3, <1>9, NothingInTheWay
     DEF Rename, RenameDisk, RenameRows, AtStep, GotoParents, MakesParents
<1>10. CASE Copy(p)
  BY <1>1, <1>2, <1>3, <1>10, NothingInTheWay
     DEF Copy, CopyDisk, CopyInsert, CopyRollback, CopyChildRows, CopyResult, AtStep,
         GotoParents, MakesParents
<1>11. CASE Mkdir(p)
  BY <1>1, <1>2, <1>3, <1>11, NothingInTheWay
     DEF Mkdir, MkdirCheck, MkdirDisk, MkdirInsert, AtStep, GotoParents, MakesParents, Refusing
<1>12. CASE Share(p)
  BY <1>3, <1>12 DEF Share, ShareLookup, ShareInsert, LookedInv, AtStep, Refusing
<1> QED BY <1>4, <1>5, <1>6, <1>7, <1>8, <1>9, <1>10, <1>11, <1>12 DEF HandlerStep

LEMMA InitLooked == Init => LookedInv
BY DEF Init, LookedInv, AtStep, Idle

\* (files.rs, every handler: the checks, then the changes)  When requests come
\* one after the other and nothing fails, a request is refused by the checks it
\* begins with (a rename or a copy also by create_dir_all, which it calls first)
\* or not at all; an upload or a mkdir that has inserted rows is never refused.
THEOREM RefusalsComeFirst ==
  ASSUME NEW F, OneAtATime(F), Faults = {}
  PROVE  Spec => NoLateRefusal
<1> DEFINE I == Reached /\ SeqInv(F)
           A == \A p \in Procs :
                  (proc[p].pc # "idle" /\ proc'[p].pc = "idle" /\ answer' = "error")
                    => Refusing(proc[p]) /\ UNCHANGED store
<1>1. I /\ LookedInv /\ [Next]_vars => [A]_vars
  <2> SUFFICES ASSUME I, LookedInv, Next PROVE A
    OBVIOUS
  <2>1. PICK p \in Procs : Start(p) \/ HandlerStep(p) \/ HandlerFault(p)
    BY DEF Next
  <2>2. \A x \in Procs : x = p
    BY DEF OneAtATime
  <2>3. ~HandlerFault(p)
    BY DEF HandlerFault, DbFails, DiskFails, DeleteFailsMidway, CopyFailsMidway, UploadFails, Abandon,
           Fault
  <2>4. Start(p) => proc[p].pc = "idle"
    BY DEF Start
  <2>5. Ordered(proc[p], Listing, disk, F)
    BY DEF SeqInv
  <2> QED BY <2>1, <2>2, <2>3, <2>4, <2>5, RefusedEarly
<1>2. Spec => []LookedInv
  BY AlwaysReached, InitLooked, LookedStep, PTL DEF Spec
<1>3. [A]_vars => [\A p \in Procs :
                    (proc[p].pc # "idle" /\ proc'[p].pc = "idle" /\ answer' = "error")
                      => Refusing(proc[p]) /\ UNCHANGED store]_vars
  OBVIOUS
<1> HIDE DEF A
<1> QED BY <1>1, <1>2, <1>3, AlwaysOrdered, PTL DEF Spec, NoLateRefusal

-----------------------------------------------------------------------------
(* What a client sees is the rows or the disk, whichever the request under   *)
(* way has not yet, or already, given its effect.                            *)

\* The handler has the effect on the disk only, or on the rows only in advance.
Behind(q, L) ==
  \/ q.op \in {"upload", "mkdir"} /\ q.pc \in {"parentRows", "makeParents", "makeDir"}
  \/ q.op = "copy" /\ q.pc = "parentRows"
  \/ q.op = "delete" /\ q.pc = "deleteRows"
  \/ q.op = "upload" /\ q.pc = "upsert" /\ q.to \in Paths(L)

Shown(p) == IF Behind(proc[p], Listing) THEN disk ELSE Listing

LEMMA SeenIs ==
  \A e : e \in Seen <=>
    \E l \in Listing, d \in disk :
      /\ d.path = Where(l.path) /\ d.dir = l.dir
      /\ e = [path |-> l.path, dir |-> l.dir, data |-> d.data]
<1>1. \A e : e \in Seen <=> \E r \in rows : e \in SeenOf(r)
  BY DEF Seen
<1>2. ASSUME NEW r
      PROVE  \A e : e \in SeenOf(r) <=>
               \E d \in disk : /\ d.path = Where(r.path) /\ d.dir = r.dir
                               /\ e = [path |-> r.path, dir |-> r.dir, data |-> d.data]
  BY DEF SeenOf, At
<1>3. \A r \in rows : Listed(r) \in Listing /\ Listed(r).path = r.path /\ Listed(r).dir = r.dir
  BY DEF Listing, Listed
<1>4. \A l \in Listing : \E r \in rows : l = Listed(r)
  BY DEF Listing
<1> TAKE e
<1>5. ASSUME e \in Seen
      PROVE  \E l \in Listing, d \in disk :
               /\ d.path = Where(l.path) /\ d.dir = l.dir
               /\ e = [path |-> l.path, dir |-> l.dir, data |-> d.data]
  <2>1. PICK r \in rows : e \in SeenOf(r)
    BY <1>1, <1>5
  <2>2. PICK d \in disk : /\ d.path = Where(r.path) /\ d.dir = r.dir
                          /\ e = [path |-> r.path, dir |-> r.dir, data |-> d.data]
    BY <1>2, <2>1
  <2>3. PICK l \in Listing : l.path = r.path /\ l.dir = r.dir
    BY <1>3
  <2> QED BY <2>2, <2>3
<1>6. ASSUME NEW l \in Listing, NEW d \in disk, d.path = Where(l.path), d.dir = l.dir,
             e = [path |-> l.path, dir |-> l.dir, data |-> d.data]
      PROVE  e \in Seen
  <2>1. PICK r \in rows : l = Listed(r)
    BY <1>4
  <2>2. l.path = r.path /\ l.dir = r.dir
    BY <1>3, <2>1
  <2> QED BY <1>1, <1>2, <1>6, <2>2
<1> QED BY <1>5, <1>6

LEMMA WhereIs ==
  ASSUME NEW p, Procs = {p}, NEW path
  PROVE  Where(path) = IF Midway(p) /\ AtOrUnder(Source(p), path)
                       THEN Rebase(path, Source(p), Target(p)) ELSE path
<1>1. Midway(p) => (CHOOSE x \in Procs : Midway(x)) = p
  <2>1. Midway(p) => (CHOOSE x \in Procs : Midway(x)) \in Procs
    OBVIOUS
  <2> QED BY <2>1
<1> QED BY <1>1 DEF Where, Source, Target

\* The entries that have a row of their kind.
Matched(L, D) == {d \in D : \E l \in L : l.path = d.path /\ l.dir = d.dir}

LEMMA SeenAside ==
  ASSUME Reached, NEW p, Procs = {p}, ~Midway(p)
  PROVE  Seen = Matched(Listing, disk)
<1>1. \A path : Where(path) = path
  BY WhereIs
<1>2. \A d \in disk : d = [path |-> d.path, dir |-> d.dir, data |-> d.data]
  BY DEF Reached, TreeInv, Shaped, DiskType
<1>3. \A e : e \in Seen <=>
        \E l \in Listing, d \in disk :
          /\ d.path = l.path /\ d.dir = l.dir
          /\ e = [path |-> l.path, dir |-> l.dir, data |-> d.data]
  BY SeenIs, <1>1
<1>4. ASSUME NEW e \in Seen PROVE e \in Matched(Listing, disk)
  <2>1. PICK l \in Listing, d \in disk :
          /\ d.path = l.path /\ d.dir = l.dir
          /\ e = [path |-> l.path, dir |-> l.dir, data |-> d.data]
    BY <1>3
  <2>2. e = d
    BY <1>2, <2>1
  <2> QED BY <2>1, <2>2 DEF Matched
<1>5. ASSUME NEW d \in Matched(Listing, disk) PROVE d \in Seen
  <2>1. PICK l \in Listing : l.path = d.path /\ l.dir = d.dir
    BY DEF Matched
  <2>2. d \in disk /\ d = [path |-> l.path, dir |-> l.dir, data |-> d.data]
    BY <1>2, <2>1 DEF Matched
  <2> QED BY <1>3, <2>1, <2>2
<1> QED BY <1>4, <1>5

\* Between the two halves of a rename all rows are seen, with their bytes.
LEMMA SeenMidway ==
  ASSUME Reached, NEW F, OneAtATime(F), NEW p, Procs = {p}, Midway(p),
         Ordered(proc[p], Listing, disk, F)
  PROVE  Seen = Listing
<1> DEFINE T == Target(p)
           from == Source(p)
           L == Listing
           D == disk
           M(e) == [e EXCEPT !.path = Rebase(@, from, T)]
<1>1. p \in Procs /\ proc[p].op = "rename" /\ proc[p].pc \in {"parentRows", "updateRows"}
  BY DEF Midway
<1>2. D = Moved(L, from, T) \cup Aboves(T)
  BY <1>1 DEF Ordered, Stage, Renaming, Target, Source
<1>3. ASSUME NEW e \in L PROVE e = [path |-> e.path, dir |-> e.dir, data |-> e.data]
  BY ListingTypes DEF Reached, Inv, EntryType
<1>4. \A c, d \in D : c.path = d.path => c = d
  BY DEF Reached, TreeInv, Shaped, Tree
<1>5. \A path : Where(path) = IF AtOrUnder(from, path) THEN Rebase(path, from, T) ELSE path
  BY WhereIs
<1>6. ASSUME NEW e \in L
      PROVE  \E d \in D : d.path = Where(e.path) /\ d.dir = e.dir /\ d.data = e.data
  <2>1. CASE AtOrUnder(from, e.path)
    <3>1. M(e) \in D
      BY <1>2, <2>1 DEF Moved, Subtree
    <3>2. M(e).path = Rebase(e.path, from, T) /\ M(e).dir = e.dir /\ M(e).data = e.data
      BY <1>3
    <3> QED BY <1>5, <2>1, <3>1, <3>2
  <2>2. CASE ~AtOrUnder(from, e.path)
    <3>1. e \in D
      BY <1>2, <2>2 DEF Moved
    <3> QED BY <1>5, <2>2, <3>1
  <2> QED BY <2>1, <2>2
<1> HIDE DEF L, D, T, from, M
<1>7. ASSUME NEW e \in Seen PROVE e \in L
  <2>1. PICK l \in L, d \in D :
          /\ d.path = Where(l.path) /\ d.dir = l.dir
          /\ e = [path |-> l.path, dir |-> l.dir, data |-> d.data]
    BY SeenIs DEF L, D
  <2>2. PICK c \in D : c.path = Where(l.path) /\ c.data = l.data
    BY <1>6
  <2>3. d.data = l.data
    BY <1>4, <2>1, <2>2
  <2> QED BY <1>3, <2>1, <2>3
<1>8. ASSUME NEW l \in L PROVE l \in Seen
  <2>1. PICK d \in D : d.path = Where(l.path) /\ d.dir = l.dir /\ d.data = l.data
    BY <1>6
  <2>2. l = [path |-> l.path, dir |-> l.dir, data |-> d.data]
    BY <1>3, <2>1
  <2> QED BY <2>1, <2>2, SeenIs DEF L, D
<1> QED BY <1>7, <1>8 DEF L

LEMMA ViewAdds == View = Seen \cup UNION {Aboves(e.path) : e \in Seen}
BY DEF View, Aboves, Dir

LEMMA ViewCloses == ASSUME Closed(Seen) PROVE View = Seen
BY ViewAdds DEF Closed

LEMMA Matches ==
  ASSUME NEW L, NEW D, \A d \in D : \E l \in L : l.path = d.path /\ l.dir = d.dir
  PROVE  Matched(L, D) = D
BY DEF Matched

LEMMA MatchesRows ==
  ASSUME NEW L, NEW X, \A x \in X : x \in L \/ \A l \in L : ~(l.path = x.path /\ l.dir = x.dir)
  PROVE  Matched(L, L \cup X) = L
BY DEF Matched

\* What is above a path and has a row is that row's entry.
LEMMA AbovesMatch ==
  ASSUME NEW F, NEW L, Plain(L, F), NEW path \in Path
  PROVE  \A x \in Aboves(path) : x \in L \/ \A l \in L : ~(l.path = x.path /\ l.dir = x.dir)
<1> SUFFICES ASSUME NEW x \in Aboves(path), NEW l \in L, l.path = x.path, l.dir = x.dir
             PROVE  x \in L
  OBVIOUS
<1>1. x = Dir(x.path) /\ x.dir = TRUE
  BY AbovesAre
<1>2. l = Dir(l.path)
  BY <1>1 DEF Plain
<1> QED BY <1>1, <1>2

LEMMA ViewIsShown ==
  ASSUME Reached, NEW F, OneAtATime(F), NEW p \in Procs, Ordered(proc[p], Listing, disk, F)
  PROVE  View = Shown(p)
<1> DEFINE T == Target(p)
           L == Listing
           D == disk
           q == proc[p]
<1>1. Procs = {p}
  BY DEF OneAtATime
<1>2. Stage(q, L, D) /\ Plain(L, F) /\ Plain(D, F) /\ T = q.to
  BY DEF Ordered, Target
<1>3. Tree(D) /\ Closed(D) /\ Inv
  BY <1>2, TreeIsClosed DEF Reached, TreeInv, Shaped
<1>4. q.pc # "idle" => T \in Path /\ q.op \in Ops
  BY AskedNames DEF OneAtATime, Reached, Inv, ProcInv, Sound
<1>5. \A l \in L : l.path \in Path /\ ~IsTemp(l.path)
  BY <1>3, ListedAreClients
<1>6. ASSUME Seen = D PROVE View = D
  BY <1>3, <1>6, ViewCloses
<1>7. ASSUME Seen = L, ~(q.op = "copy" /\ q.pc = "parentRows") PROVE View = L
  BY <1>7, ViewCloses DEF Ordered
<1>8. ASSUME ~Midway(p) PROVE Seen = Matched(L, D)
  BY <1>1, <1>8, SeenAside
<1>9. CASE L = D
  <2>1. Matched(L, D) = D
    BY <1>9, Matches
  <2>2. ASSUME Midway(p) PROVE Seen = D
    BY <1>1, <1>9, <2>2, SeenMidway
  <2>3. View = D
    BY <1>6, <1>8, <2>1, <2>2
  <2> QED BY <1>9, <2>3 DEF Shown
<1>10. CASE Midway(p)
  <2>1. Seen = L
    BY <1>1, <1>10, SeenMidway
  <2>2. View = L /\ ~Behind(q, L)
    BY <1>7, <1>10, <2>1 DEF Midway, Behind
  <2> QED BY <2>2 DEF Shown
<1> SUFFICES ASSUME L # D, ~Midway(p) PROVE View = Shown(p)
  BY <1>9, <1>10
<1>11. q.pc # "idle" /\ q.op # "share"
  BY <1>2 DEF Stage
<1>12. ASSUME Matched(L, D) = D, Behind(q, L) PROVE View = Shown(p)
  BY <1>6, <1>8, <1>12 DEF Shown
<1>13. ASSUME Matched(L, D) = L, ~Behind(q, L) PROVE View = Shown(p)
  <2>1. ~(q.op = "copy" /\ q.pc = "parentRows")
    BY <1>13 DEF Behind
  <2> QED BY <1>7, <1>8, <1>13, <2>1 DEF Shown
<1>14. \A x \in Aboves(T) : x \in L \/ \A l \in L : ~(l.path = x.path /\ l.dir = x.dir)
  BY <1>2, <1>4, <1>11, AbovesMatch
<1> HIDE DEF L, D, T, q
<1>15. CASE q.op = "upload"
  <2>1. Uploading(q, L, D)
    BY <1>2, <1>15 DEF Stage
  <2>2. CASE q.pc \in {"parentRows", "makeParents"}
    <3>1. D \subseteq L
      BY <2>1, <2>2 DEF Uploading
    <3> QED BY <1>12, <1>15, <2>2, <3>1, Matches DEF Behind
  <2>3. CASE q.pc \in {"stream", "publish"}
    <3>1. IsTemp(TempName(q))
      BY <1>11, TempShape DEF TempName, Temp, Target, Reached, q
    <3>2. PICK data : D = L \cup {File(TempName(q), data)}
      BY <2>1, <2>3 DEF Uploading
    <3>3. \A l \in L : l.path # File(TempName(q), data).path
      BY <1>5, <3>1 DEF File
    <3>4. Matched(L, D) = L
      BY <3>2, <3>3, MatchesRows
    <3>5. ~Behind(q, L)
      BY <1>15, <2>3 DEF Behind
    <3> QED BY <1>13, <3>4, <3>5
  <2>4. CASE q.pc = "upsert"
    <3> DEFINE f == File(T, q.data)
    <3>1. /\ D = {e \in L : e.path # T} \cup {f}
          /\ \A e \in L : e.path = T => e.dir = FALSE
          /\ f.path = T /\ f.dir = FALSE
      <4>1. \A e \in L : e.dir \in BOOLEAN
        BY <1>3, ListedAreClients DEF L
      <4> QED BY <1>2, <2>1, <2>4, <4>1 DEF Uploading, File
    <3>2. Behind(q, L) <=> T \in Paths(L)
      BY <1>2, <1>15, <2>4 DEF Behind
    <3> HIDE DEF f
    <3>3. CASE T \in Paths(L)
      <4>1. Matched(L, D) = D
        <5>1. PICK l \in L : l.path = f.path /\ l.dir = f.dir
          BY <3>1, <3>3 DEF Paths
        <5>2. \A d \in D : \E e \in L : e.path = d.path /\ e.dir = d.dir
          BY <3>1, <5>1
        <5> QED BY <5>2, Matches
      <4> QED BY <1>12, <3>2, <3>3, <4>1
    <3>4. CASE T \notin Paths(L)
      <4>1. D = L \cup {f}
        BY <3>1, <3>4 DEF Paths
      <4>2. \A l \in L : l.path # f.path
        BY <3>1, <3>4 DEF Paths
      <4>3. Matched(L, D) = L
        BY <4>1, <4>2, MatchesRows
      <4> QED BY <1>13, <3>2, <3>4, <4>3
    <3> QED BY <3>3, <3>4
  <2> QED BY <2>1, <2>2, <2>3, <2>4 DEF Uploading
<1>16. CASE q.op = "delete"
  <2>1. q.pc = "deleteRows" /\ D \subseteq L
    BY <1>2, <1>16 DEF Stage, Deleting
  <2> QED BY <1>12, <1>16, <2>1, Matches DEF Behind
<1>17. CASE q.op = "rename"
  <2>1. Renaming(q, L, D) /\ q.pc \notin {"parentRows", "updateRows"}
    BY <1>2, <1>17 DEF Stage, Midway, q
  <2>2. D = L \cup Aboves(T)
    BY <1>2, <2>1 DEF Renaming
  <2>3. Matched(L, D) = L
    BY <1>14, <2>2, MatchesRows
  <2> QED BY <1>13, <1>17, <2>3 DEF Behind
<1>18. CASE q.op = "copy"
  <2>1. Copying(q, L, D)
    BY <1>2, <1>18 DEF Stage
  <2>2. CASE q.pc = "copyDisk"
    <3>1. D = L \cup Aboves(T)
      BY <1>2, <2>1, <2>2 DEF Copying
    <3>2. Matched(L, D) = L
      BY <1>14, <3>1, MatchesRows
    <3> QED BY <1>13, <1>18, <2>2, <3>2 DEF Behind
  <2>3. CASE q.pc = "insertRow"
    <3> DEFINE f == File(T, q.sha)
    <3>1. D = L \cup (Aboves(T) \cup {f}) /\ Vacant(L, T) /\ f.path = T
      BY <1>2, <2>1, <2>3 DEF Copying, File
    <3> HIDE DEF f
    <3>2. \A l \in L : l.path # f.path
      BY <3>1 DEF Vacant, AtOrUnder
    <3>3. Matched(L, D) = L
      BY <1>14, <3>1, <3>2, MatchesRows
    <3> QED BY <1>13, <1>18, <2>3, <3>3 DEF Behind
  <2>4. CASE q.pc = "parentRows"
    <3>1. D = L \cup Aboves(T) /\ T \in Paths(L)
      BY <1>2, <2>1, <2>4 DEF Copying
    <3>2. Matched(L, D) = L
      BY <1>14, <3>1, MatchesRows
    <3>3. Seen = L
      BY <1>8, <3>2
    <3>4. PICK e \in L : e.path = T
      BY <3>1 DEF Paths
    <3>5. D \subseteq L \cup UNION {Aboves(l.path) : l \in L}
      BY <3>1, <3>4
    <3>6. UNION {Aboves(l.path) : l \in L} \subseteq D
      BY <1>3, <3>1 DEF Closed
    <3>7. View = D
      BY <3>1, <3>3, <3>5, <3>6, ViewAdds
    <3> QED BY <1>18, <2>4, <3>7 DEF Shown, Behind, D, L, q
  <2> QED BY <2>1, <2>2, <2>3, <2>4 DEF Copying
<1>19. CASE q.op = "mkdir"
  <2>1. Making(q, L, D)
    BY <1>2, <1>19 DEF Stage
  <2>2. CASE q.pc \in {"parentRows", "makeDir"}
    <3>1. D \subseteq L
      BY <2>1, <2>2 DEF Making
    <3> QED BY <1>12, <1>19, <2>2, <3>1, Matches DEF Behind
  <2>3. CASE q.pc = "insertRow"
    <3> DEFINE f == Dir(T)
    <3>1. D = L \cup {f} /\ T \notin Paths(L) /\ f.path = T
      BY <1>2, <2>1, <2>3 DEF Making, Dir
    <3> HIDE DEF f
    <3>2. \A l \in L : l.path # f.path
      BY <3>1 DEF Paths
    <3>3. Matched(L, D) = L
      BY <3>1, <3>2, MatchesRows
    <3> QED BY <1>13, <1>19, <2>3, <3>3 DEF Behind
  <2> QED BY <2>1, <2>2, <2>3 DEF Making
<1> QED BY <1>4, <1>11, <1>15, <1>16, <1>17, <1>18, <1>19 DEF Ops

-----------------------------------------------------------------------------
(* Every step is a step of the promised tree, or shows nothing.             *)

LEMMA SamePromises ==
  /\ \A c, d : Promised!Under(c, d) <=> Under(c, d)
  /\ \A c, d : Promised!AtOrUnder(c, d) <=> AtOrUnder(c, d)
  /\ \A c : Promised!Ancestors(c) = Ancestors(c)
  /\ \A c, d, e : Promised!Rebase(c, d, e) = Rebase(c, d, e)
<1>1. ASSUME NEW c, NEW d PROVE Promised!Under(c, d) <=> Under(c, d)
  BY DEF Promised!Under, Under, Promised!IsStrictPrefix, IsStrictPrefix, Promised!IsPrefix, IsPrefix
<1>2. ASSUME NEW c, NEW d PROVE Promised!AtOrUnder(c, d) <=> AtOrUnder(c, d)
  BY <1>1 DEF Promised!AtOrUnder, AtOrUnder
<1>3. ASSUME NEW c PROVE Promised!Ancestors(c) = Ancestors(c)
  BY DEF Promised!Ancestors, Ancestors
<1>4. ASSUME NEW c, NEW d, NEW e PROVE Promised!Rebase(c, d, e) = Rebase(c, d, e)
  BY DEF Promised!Rebase, Rebase
<1> QED BY <1>1, <1>2, <1>3, <1>4

\* The directories a change brings along, of which some may be there.
LEMMA NewAboves ==
  ASSUME NEW F, Plain(View, F), NEW path \in Path, Clear(View, path)
  PROVE  View \cup Promised!NewDirs(Ancestors(path)) = View \cup Aboves(path)
<1> DEFINE V == View
           N == {q \in Ancestors(path) : Promised!Found(q) = {}}
<1>1. Promised!NewDirs(Ancestors(path)) = {Dir(q) : q \in N}
  BY DEF Promised!NewDirs, Dir
<1>2. \A q : Promised!Found(q) = {} <=> q \notin Paths(V)
  BY DEF Promised!Found, Paths
<1>3. \A q \in Ancestors(path) : q \in Paths(V) => Dir(q) \in V
  BY AboveInPlain
<1> HIDE DEF V
<1>4. V \cup {Dir(q) : q \in N} = V \cup Aboves(path)
  BY <1>2, <1>3 DEF Aboves
<1> QED BY <1>1, <1>4 DEF V

LEMMA NoNewAboves ==
  ASSUME NEW path, Aboves(path) \subseteq View
  PROVE  Promised!NewDirs(Ancestors(path)) = {}
<1>1. \A q \in Ancestors(path) : Dir(q) \in View /\ Dir(q).path = q
  BY DEF Aboves, Dir
<1>2. \A q \in Ancestors(path) : Promised!Found(q) # {}
  BY <1>1 DEF Promised!Found
<1> QED BY <1>2 DEF Promised!NewDirs

LEMMA OpenAbove ==
  ASSUME NEW path, Clear(View, path)
  PROVE  Promised!NoFileAbove(path)
<1>1. ASSUME NEW t \in View, Under(t.path, path) PROVE t.dir
  BY <1>1 DEF Clear
<1>2. \A t \in View : Promised!Under(t.path, path) => t.dir
  BY <1>1, SamePromises
<1> QED BY <1>2 DEF Promised!NoFileAbove

LEMMA PromisesDir ==
  ASSUME NEW F, Plain(View, F), NEW path \in Path \cap TreePaths, Clear(View, path),
         path \notin Paths(View), View' = View \cup Aboves(path) \cup {Dir(path)}
  PROVE  Promised!TreeNext
<1>1. Promised!Found(path) = {}
  BY DEF Promised!Found, Paths
<1>2. Promised!NewDirs(Ancestors(path) \cup {path})
        = Promised!NewDirs(Ancestors(path)) \cup {Dir(path)}
  BY <1>1 DEF Promised!NewDirs, Dir
<1>3. View' = View \cup Promised!NewDirs(Promised!Ancestors(path) \cup {path})
  BY <1>2, NewAboves, SamePromises
<1>4. Promised!AddDir(path)
  BY <1>1, <1>3, OpenAbove DEF Promised!AddDir
<1> QED BY <1>4 DEF Promised!TreeNext

LEMMA PromisesPut ==
  ASSUME NEW path \in TreePaths, NEW data \in Data, Clear(View, path), Aboves(path) \subseteq View,
         \A e \in View : e.path = path => ~e.dir,
         View' = {e \in View : e.path # path} \cup {File(path, data)}
  PROVE  Promised!TreeNext
<1>1. View \ Promised!Found(path) = {e \in View : e.path # path}
  BY DEF Promised!Found
<1>2. \A t \in Promised!Found(path) : ~t.dir
  BY DEF Promised!Found
<1>3. Promised!NewDirs(Promised!Ancestors(path)) = {}
  BY NoNewAboves, SamePromises
<1>4. Promised!Put(path, data)
  BY <1>1, <1>2, <1>3, OpenAbove DEF Promised!Put, File
<1> QED BY <1>4 DEF Promised!TreeNext

LEMMA PromisesDrop ==
  ASSUME NEW path \in TreePaths, path \in Paths(View), View' = View \ Subtree(View, path)
  PROVE  Promised!TreeNext
<1>1. Promised!Below(path) = Subtree(View, path)
  BY SamePromises DEF Promised!Below, Subtree
<1>2. Promised!Found(path) # {}
  BY DEF Promised!Found, Paths
<1>3. Promised!Drop(path)
  BY <1>1, <1>2 DEF Promised!Drop
<1> QED BY <1>3 DEF Promised!TreeNext

LEMMA PromisesMove ==
  ASSUME NEW from \in TreePaths, NEW to \in TreePaths, from \in Paths(View), Vacant(View, to),
         Clear(View, to), ~AtOrUnder(from, to), Aboves(to) \subseteq View,
         View' = Moved(View, from, to)
  PROVE  Promised!TreeNext
<1>1. Promised!Below(from) = Subtree(View, from)
  BY SamePromises DEF Promised!Below, Subtree
<1>2. Promised!Found(from) # {}
  BY DEF Promised!Found, Paths
<1>3. Promised!Found(to) = {}
  BY DEF Promised!Found, Vacant, AtOrUnder
<1>4. Promised!NewDirs(Promised!Ancestors(to)) = {}
  BY NoNewAboves, SamePromises
<1>5. View \ Subtree(View, from) = {e \in View : ~AtOrUnder(from, e.path)}
  BY DEF Subtree
<1>6. \A e : [e EXCEPT !.path = Promised!Rebase(@, from, to)] = [e EXCEPT !.path = Rebase(@, from, to)]
  BY SamePromises
<1>7. {[e EXCEPT !.path = Promised!Rebase(@, from, to)] : e \in Promised!Below(from)}
        = {[e EXCEPT !.path = Rebase(@, from, to)] : e \in Subtree(View, from)}
  BY <1>1, <1>6
<1>8. Promised!Move(from, to)
  BY <1>1, <1>2, <1>3, <1>4, <1>5, <1>7, OpenAbove, SamePromises DEF Promised!Move, Moved
<1> QED BY <1>8 DEF Promised!TreeNext

LEMMA PromisesCopy ==
  ASSUME NEW F, Plain(View, F), NEW from \in TreePaths, NEW to \in Path \cap TreePaths, NEW data,
         File(from, data) \in View, Vacant(View, to), Clear(View, to),
         View' = View \cup Aboves(to) \cup {File(to, data)}
  PROVE  Promised!TreeNext
<1>1. Promised!Found(to) = {}
  BY DEF Promised!Found, Vacant, AtOrUnder
<1>2. View' = (View \ Promised!Found(to)) \cup Promised!NewDirs(Promised!Ancestors(to))
                 \cup {File(to, data)}
  BY <1>1, NewAboves, SamePromises
<1>3. Promised!Put(to, data)
  BY <1>1, <1>2, OpenAbove DEF Promised!Put, File
<1>4. PICK t \in Promised!Found(from) : ~t.dir /\ t.data = data
  <2>1. /\ File(from, data).path = from /\ File(from, data).dir = FALSE
        /\ File(from, data).data = data
    BY DEF File
  <2> QED BY <2>1 DEF Promised!Found
<1>5. Promised!CopyFile(from, to)
  BY <1>1, <1>3, <1>4 DEF Promised!CopyFile
<1> QED BY <1>5 DEF Promised!TreeNext

\* Every path that a request or the storage names, LozaTree is asked about.
AllNamed ==
  /\ \A r \in Requests : {r.from, r.to} \cup Ancestors(r.to) \subseteq TreePaths
  /\ \A i \in DOMAIN Stored : Stored[i].path \in TreePaths

LEMMA NamedPaths ==
  ASSUME Reached, AllNamed, NEW p \in Procs, proc[p].pc # "idle"
  PROVE  Source(p) \in TreePaths /\ Target(p) \in TreePaths /\ Ancestors(Target(p)) \subseteq TreePaths
<1>1. PICK r \in Requests : Carries(proc[p], r)
  BY DEF Reached, AskedInv
<1> QED BY <1>1 DEF AllNamed, Carries, Source, Target

\* A step of a handler, in the order of its stages, and what is seen of it.
Stepping(p, F) ==
  /\ Reached /\ Reached'
  /\ Ordered(proc[p], Listing, disk, F)
  /\ Ordered(proc'[p], Listing', disk', F)
  /\ View = IF Behind(proc[p], Listing) THEN disk ELSE Listing
  /\ View' = IF Behind(proc'[p], Listing') THEN disk' ELSE Listing'

LEMMA NothingShown ==
  ASSUME NEW p, NEW F, Stepping(p, F), Listing = disk, UNCHANGED store
  PROVE  View' = View
BY ListingStays DEF Stepping, store

\* Only the directories of a target come into being.
LEMMA PromisesParents ==
  ASSUME NEW F, Plain(View, F), Closed(View), NEW path \in Path, Clear(View, path),
         Ancestors(path) \subseteq TreePaths, View' = View \cup Aboves(path),
         \A e \in View : e.path \in Seq(Segment)
  PROVE  Promised!TreeNext \/ View' = View
<1> DEFINE up == Parent(path)
<1>1. Ancestors(path) = IF up = <<>> THEN {} ELSE Ancestors(up) \cup {up}
  BY ParentsAncestors
<1>2. CASE up = <<>>
  BY <1>1, <1>2 DEF Aboves
<1> SUFFICES ASSUME up # <<>> PROVE Promised!TreeNext \/ View' = View
  BY <1>2
<1>3. Aboves(path) = Aboves(up) \cup {Dir(up)} /\ up \in Ancestors(path)
  BY <1>1 DEF Aboves
<1>4. up \in Path \cap TreePaths /\ Under(up, path)
  BY <1>3, AboveIsClient, AncestorsArePaths DEF Path
<1>5. CASE up \in Paths(View)
  <2>1. Dir(up) \in View
    BY <1>3, <1>5, AboveInPlain
  <2>2. Dir(up).path = up
    BY DEF Dir
  <2>3. Aboves(up) \subseteq View
    BY <2>1, <2>2 DEF Closed
  <2> QED BY <1>3, <2>1, <2>3
<1>6. CASE up \notin Paths(View)
  <2>1. Clear(View, up)
    <3> SUFFICES ASSUME NEW e \in View, Under(e.path, up) PROVE e.dir
      BY DEF Clear
    <3>1. up \in Seq(Segment) /\ path \in Seq(Segment)
      BY <1>4, PathTypes DEF Segment
    <3>2. Under(e.path, path)
      BY <1>4, <3>1, UnderTrans
    <3> QED BY <3>2 DEF Clear
  <2>2. View' = View \cup Aboves(up) \cup {Dir(up)}
    BY <1>3
  <2> HIDE DEF up
  <2> QED BY <1>4, <1>6, <2>1, <2>2, PromisesDir
<1> QED BY <1>5, <1>6

LEMMA SeenPaths ==
  ASSUME Reached
  PROVE  \A e \in Listing \cup disk : e.path \in Seq(Segment)
<1>1. \A e \in Listing : e.path \in Seq(Segment)
  BY ListedAreClients, PathTypes DEF Reached, Segment
<1> QED BY <1>1, Entries DEF Reached, TreeInv, Shaped

\* A handler that stays busy stays with its request.
LEMMA StaysWith ==
  ASSUME Reached, NEW p \in Procs, HandlerStep(p) \/ HandlerFault(p), proc'[p].pc # "idle"
  PROVE  /\ proc[p].pc # "idle" /\ proc'[p].op = proc[p].op
         /\ proc'[p].to = proc[p].to /\ proc'[p].from = proc[p].from /\ proc'[p].data = proc[p].data
BY HandlerContinues DEF Reached, Continues

LEMMA GoesTo ==
  ASSUME Reached, NEW p \in Procs
  PROVE  /\ \A pc : Goto(p, pc) => proc'[p].pc = pc
         /\ Refuse(p) \/ Succeed(p) => proc'[p].pc = "idle"
         /\ \A k : NextParent(p, k) => proc'[p].pc \in {"parentRows", AfterParents[proc[p].op]}
<1>1. proc \in [Procs -> ProcType]
  BY DEF Reached, Inv, ProcInv
<1>2. ASSUME NEW k, NextParent(p, k)
      PROVE  proc'[p].pc \in {"parentRows", AfterParents[proc[p].op]}
  <2>1. proc'[p].pc = ParentsFrom(p, k)
    BY <1>1, <1>2 DEF NextParent, ProcType
  <2> QED BY <2>1 DEF ParentsFrom
<1> QED BY <1>1, <1>2 DEF Goto, Refuse, Succeed, Return, Idle, ProcType

LEMMA UploadPromised ==
  ASSUME NEW F, OneAtATime(F), AllNamed, NEW p \in Procs, Stepping(p, F), Upload(p) \/ UploadFails(p)
  PROVE  Promised!TreeNext \/ View' = View
<1> DEFINE T == Target(p)
           L == Listing
           D == disk
           L2 == Listing'
           D2 == disk'
           q == proc[p]
           s == proc'[p]
<1>1. q.pc # "idle" /\ q.op = "upload" /\ T = q.to /\ Reached
  BY DEF Upload, UploadCheck, UploadMakeParents, UploadCreateTemp, UploadStream, UploadPublish,
         UploadUpsert, UploadFails, AtStep, Reached, Inv, ProcInv, Sound, Target, Stepping
<1>2. T \in Path /\ T \in TreePaths /\ Ancestors(T) \subseteq TreePaths /\ q.data \in Data
  BY <1>1, AskedNames, NamedPaths DEF OneAtATime, Reached, Inv, ProcInv, Sound
<1>3. Uploading(q, L, D) /\ Plain(L, F) /\ Plain(D, F) /\ Closed(D)
  <2>1. Tree(D) /\ Uploading(q, L, D) /\ Plain(L, F) /\ Plain(D, F)
    BY <1>1 DEF Stepping, Ordered, Stage, Reached, TreeInv, Shaped
  <2> QED BY <2>1, TreeIsClosed
<1>4. /\ s.pc = "idle" => L2 = D2
      /\ s.pc # "idle" => s.op = "upload" /\ s.to = T /\ s.data = q.data /\ Uploading(s, L2, D2)
  <2>1. s.pc # "idle" => s.op = "upload" /\ s.to = T /\ s.data = q.data
    BY <1>1, StaysWith DEF HandlerStep, HandlerFault
  <2> QED BY <2>1 DEF Stepping, Ordered, Stage
<1>5. View = IF Behind(q, L) THEN D ELSE L
  BY DEF Stepping
<1>6. View' = IF Behind(s, L2) THEN D2 ELSE L2
  BY DEF Stepping
<1>7. \A e \in L \cup D : e.path \in Seq(Segment)
  BY <1>1, SeenPaths
<1>8. /\ \A pc : Goto(p, pc) => s.pc = pc
      /\ Refuse(p) \/ Succeed(p) => s.pc = "idle"
  BY <1>1, GoesTo
<1>9. CASE UploadCheck(p)
  <2>1. L = D
    BY <1>3, <1>9 DEF UploadCheck, AtStep, Uploading
  <2> QED BY <1>9, <2>1, NothingShown DEF UploadCheck
<1>10. CASE UploadMakeParents(p)
  <2>1. q.pc = "makeParents" /\ s.pc \in {"idle", "createTemp"} /\ L2 = L
    BY <1>8, <1>10, ListingStays DEF UploadMakeParents, AtStep
  <2>2. L = D \cup Aboves(T) /\ Clear(L, T)
    BY <1>1, <1>3, <2>1 DEF Uploading
  <2>3. L2 = D2 /\ View = D
    BY <1>1, <1>4, <1>5, <2>1 DEF Uploading, Behind
  <2>4. Clear(D, T) /\ View' = View \cup Aboves(T)
    BY <1>6, <2>1, <2>2, <2>3 DEF Clear
  <2> HIDE DEF D
  <2> QED BY <1>2, <1>3, <1>7, <2>3, <2>4, PromisesParents
<1>11. CASE UploadCreateTemp(p) \/ UploadStream(p) \/ UploadFails(p)
  <2>1. q.pc \in {"createTemp", "stream", "publish"} /\ s.pc \in {"idle", "stream", "publish"} /\ L2 = L
    BY <1>8, <1>11, ListingStays DEF UploadCreateTemp, UploadStream, UploadFails, AtStep
  <2>2. View = L
    BY <1>1, <1>5, <2>1 DEF Behind
  <2>3. s.pc # "idle" => s.op = "upload"
    BY <1>4
  <2>4. ~Behind(s, L2)
    BY <2>1, <2>3 DEF Behind
  <2> QED BY <1>6, <2>1, <2>2, <2>4
<1>12. CASE UploadPublish(p)
  <2>1. q.pc = "publish" /\ s.pc \in {"idle", "upsert"} /\ L2 = L
    BY <1>8, <1>12, ListingStays DEF UploadPublish, AtStep
  <2>2. View = L
    BY <1>1, <1>5, <2>1 DEF Behind
  <2>3. CASE ~Behind(s, L2)
    BY <1>6, <2>1, <2>2, <2>3
  <2>4. CASE Behind(s, L2)
    <3>1. s.pc = "upsert"
      BY <2>1, <2>4 DEF Behind
    <3>2. View' = {e \in L : e.path # T} \cup {File(T, q.data)}
      BY <1>4, <1>6, <2>1, <2>4, <3>1 DEF Uploading
    <3>3. Clear(L, T) /\ Aboves(T) \subseteq L /\ \A e \in L : e.path = T => ~e.dir
      BY <1>1, <1>3, <2>1 DEF Uploading
    <3> HIDE DEF L, T
    <3> QED BY <1>2, <2>2, <3>2, <3>3, PromisesPut
  <2> QED BY <2>3, <2>4
<1>13. CASE UploadUpsert(p)
  <2>1. q.pc = "upsert" /\ s.pc = "idle" /\ D2 = D
    BY <1>8, <1>13 DEF UploadUpsert, AtStep
  <2>2. L2 = D /\ View' = D
    BY <1>4, <1>6, <2>1
  <2>3. CASE Behind(q, L)
    BY <1>5, <2>2, <2>3
  <2>4. CASE ~Behind(q, L)
    <3>1. View = L
      BY <1>5, <2>4
    <3>2. D = {e \in L : e.path # T} \cup {File(T, q.data)}
      BY <1>1, <1>3, <2>1 DEF Uploading
    <3>3. Clear(L, T) /\ Aboves(T) \subseteq L /\ \A e \in L : e.path = T => ~e.dir
      BY <1>1, <1>3, <2>1 DEF Uploading
    <3> HIDE DEF L, T, D
    <3> QED BY <1>2, <2>2, <3>1, <3>2, <3>3, PromisesPut
  <2> QED BY <2>3, <2>4
<1> QED BY <1>9, <1>10, <1>11, <1>12, <1>13 DEF Upload

LEMMA DeletePromised ==
  ASSUME NEW F, OneAtATime(F), AllNamed, NEW p \in Procs, Stepping(p, F), Delete(p)
  PROVE  Promised!TreeNext \/ View' = View
<1> DEFINE T == Target(p)
           L == Listing
           D == disk
           L2 == Listing'
           D2 == disk'
           q == proc[p]
           s == proc'[p]
<1>1. q.pc # "idle" /\ q.op = "delete" /\ T = q.to /\ Reached /\ HandlerStep(p)
  BY DEF Delete, DeleteCheck, DeleteDisk, DeleteRows, AtStep, Target, Stepping, HandlerStep
<1>2. T \in TreePaths
  BY <1>1, NamedPaths
<1>3. Deleting(q, L, D)
  BY <1>1 DEF Stepping, Ordered, Stage
<1>4. /\ s.pc = "idle" => L2 = D2
      /\ s.pc # "idle" => s.op = "delete" /\ s.to = T /\ Deleting(s, L2, D2)
  <2>1. s.pc # "idle" => s.op = "delete" /\ s.to = T
    BY <1>1, StaysWith
  <2> QED BY <2>1 DEF Stepping, Ordered, Stage
<1>5. /\ View = IF Behind(q, L) THEN D ELSE L
      /\ View' = IF Behind(s, L2) THEN D2 ELSE L2
  BY DEF Stepping
<1>6. /\ \A pc : Goto(p, pc) => s.pc = pc
      /\ Refuse(p) \/ Succeed(p) => s.pc = "idle"
  BY <1>1, GoesTo
<1>7. CASE DeleteCheck(p)
  <2>1. L = D
    BY <1>3, <1>7 DEF DeleteCheck, AtStep, Deleting
  <2> QED BY <1>7, <2>1, NothingShown DEF DeleteCheck
<1>8. CASE DeleteDisk(p)
  <2>1. q.pc = "removeDisk" /\ s.pc \in {"idle", "deleteRows"} /\ L2 = L
    BY <1>6, <1>8, ListingStays DEF DeleteDisk, AtStep
  <2>2. View = L /\ T \in Paths(L)
    BY <1>1, <1>3, <1>5, <2>1 DEF Behind, Deleting
  <2>3. CASE s.pc = "idle"
    BY <1>5, <1>4, <2>1, <2>2, <2>3
  <2>4. CASE s.pc = "deleteRows"
    <3>1. View' = L \ Subtree(L, T)
      BY <1>4, <1>5, <2>1, <2>4 DEF Deleting, Behind
    <3> HIDE DEF L, T
    <3> QED BY <1>2, <2>2, <3>1, PromisesDrop
  <2> QED BY <2>1, <2>3, <2>4
<1>9. CASE DeleteRows(p)
  <2>1. q.pc = "deleteRows" /\ s.pc = "idle" /\ D2 = D
    BY <1>6, <1>9 DEF DeleteRows, AtStep
  <2> QED BY <1>1, <1>4, <1>5, <2>1 DEF Behind
<1> QED BY <1>7, <1>8, <1>9 DEF Delete

LEMMA SourcePromised ==
  ASSUME NEW F, OneAtATime(F), AllNamed, NEW p \in Procs, Stepping(p, F),
         ReadSource(p) \/ CheckTarget(p) \/ TargetParents(p)
  PROVE  Promised!TreeNext \/ View' = View
<1> DEFINE L == Listing
           D == disk
           L2 == Listing'
           D2 == disk'
           q == proc[p]
           s == proc'[p]
<1>1. q.pc # "idle" /\ q.op \in {"rename", "copy"} /\ Reached /\ HandlerStep(p)
  BY DEF ReadSource, CheckTarget, TargetParents, Reached, Inv, ProcInv, Sound, Stepping, HandlerStep
<1>2. L = D
  BY <1>1 DEF ReadSource, CheckTarget, TargetParents, Stepping, Ordered, Stage, Renaming, Copying
<1>3. CASE ReadSource(p) \/ CheckTarget(p)
  BY <1>2, <1>3, NothingShown DEF ReadSource, CheckTarget
<1>4. CASE TargetParents(p)
  <2>1. q.pc = "makeParents" /\ s.pc \in {"idle", "renameDisk", "copyDisk"} /\ L2 = L
    BY <1>1, <1>4, GoesTo, ListingStays DEF TargetParents
  <2>2. ~Behind(s, L2)
    BY <2>1 DEF Behind
  <2> QED BY <1>2, <2>1, <2>2 DEF Stepping
<1> QED BY <1>3, <1>4

LEMMA RenamePromised ==
  ASSUME NEW F, OneAtATime(F), AllNamed, NEW p \in Procs, Stepping(p, F), Rename(p)
  PROVE  Promised!TreeNext \/ View' = View
<1> DEFINE T == Target(p)
           from == Source(p)
           L == Listing
           D == disk
           L2 == Listing'
           D2 == disk'
           q == proc[p]
           s == proc'[p]
<1>1. /\ q.pc \in {"renameDisk", "updateRows"} /\ q.op = "rename" /\ T = q.to /\ from = q.from
      /\ Reached /\ HandlerStep(p)
  BY DEF Rename, RenameDisk, RenameRows, AtStep, Target, Source, Stepping, HandlerStep
<1>2. /\ T \in TreePaths /\ from \in TreePaths /\ T \in Path
      /\ from \in Seq(Segment) /\ ~AtOrUnder(from, T)
  BY <1>1, NamedPaths, AskedNames DEF OneAtATime
<1>3. Renaming(q, L, D)
  BY <1>1 DEF Stepping, Ordered, Stage
<1>4. /\ s.pc = "idle" => L2 = D2
      /\ s.pc # "idle" => s.op = "rename"
  <2>1. s.pc # "idle" => s.op = "rename"
    BY <1>1, StaysWith
  <2> QED BY <2>1 DEF Stepping, Ordered, Stage
<1>5. View = L
  BY <1>1 DEF Stepping, Behind
<1>6. View' = L2
  <2>1. ~Behind(s, L2)
    <3>1. s.pc # "idle" => s.op = "rename"
      BY <1>4
    <3>2. CASE s.pc = "idle"
      BY <3>2 DEF Behind
    <3>3. CASE s.op = "rename"
      BY <3>3 DEF Behind
    <3> QED BY <3>1, <3>2, <3>3
  <2> QED BY <2>1 DEF Stepping
<1>7. CASE RenameDisk(p)
  BY <1>5, <1>6, <1>7, ListingStays DEF RenameDisk
<1>8. CASE RenameRows(p)
  <2>1. s.pc = "idle" /\ q.pc = "updateRows" /\ D2 = D
    BY <1>1, <1>8, GoesTo DEF RenameRows, AtStep
  <2>2. /\ D = Moved(L, from, T) \cup Aboves(T) /\ Aboves(T) \subseteq L
        /\ Vacant(L, T) /\ Clear(L, T) /\ from \in Paths(L)
    BY <1>1, <1>3, <2>1 DEF Renaming
  <2>3. Aboves(T) \subseteq Moved(L, from, T)
    BY <1>2, <2>2, AbovesStay DEF Moved
  <2>4. View' = Moved(L, from, T)
    BY <1>4, <1>6, <2>1, <2>2, <2>3
  <2> HIDE DEF L, T, from
  <2> QED BY <1>2, <1>5, <2>2, <2>4, PromisesMove
<1> QED BY <1>7, <1>8 DEF Rename

LEMMA CopyPromised ==
  ASSUME NEW F, OneAtATime(F), AllNamed, NEW p \in Procs, Stepping(p, F), Copy(p)
  PROVE  Promised!TreeNext \/ View' = View
<1> DEFINE T == Target(p)
           from == Source(p)
           L == Listing
           D == disk
           L2 == Listing'
           D2 == disk'
           q == proc[p]
           s == proc'[p]
<1>1. q.pc # "idle" /\ q.op = "copy" /\ T = q.to /\ from = q.from /\ Reached /\ HandlerStep(p)
  BY DEF Copy, CopyDisk, CopyInsert, CopyRollback, CopyChildRows, CopyResult, AtStep, Target,
         Source, Stepping, HandlerStep
<1>2. T \in TreePaths /\ from \in TreePaths /\ T \in Path
  BY <1>1, NamedPaths, AskedNames DEF OneAtATime
<1>3. Copying(q, L, D) /\ Plain(L, F)
  BY <1>1 DEF Stepping, Ordered, Stage
<1>4. /\ s.pc = "idle" => L2 = D2
      /\ s.pc # "idle" => s.op = "copy" /\ Copying(s, L2, D2)
  <2>1. s.pc # "idle" => s.op = "copy"
    BY <1>1, StaysWith
  <2> QED BY <2>1 DEF Stepping, Ordered, Stage
<1>5. /\ View = IF Behind(q, L) THEN D ELSE L
      /\ View' = IF Behind(s, L2) THEN D2 ELSE L2
  BY DEF Stepping
<1>6. /\ \A pc : Goto(p, pc) => s.pc = pc
      /\ Refuse(p) \/ Succeed(p) => s.pc = "idle"
      /\ \A k : NextParent(p, k) => s.pc \in {"parentRows", "readResult"}
  <2>1. AfterParents[q.op] = "readResult"
    BY <1>1 DEF AfterParents
  <2> QED BY <1>1, <2>1, GoesTo
<1>7. CASE CopyDisk(p)
  <2>1. q.pc = "copyDisk" /\ s.pc \in {"idle", "insertRow"} /\ L2 = L
    BY <1>6, <1>7, ListingStays DEF CopyDisk, AtStep
  <2>2. View = L
    BY <1>1, <1>5, <2>1 DEF Behind
  <2>3. ~Behind(s, L2)
    BY <2>1 DEF Behind
  <2> QED BY <1>5, <2>1, <2>2, <2>3
<1>8. CASE CopyInsert(p)
  <2>1. q.pc = "insertRow" /\ s.pc \in {"rollback", "childRows", "parentRows", "readResult"} /\ D2 = D
    BY <1>6, <1>8 DEF CopyInsert, AtStep, GotoParents
  <2>2. View = L
    BY <1>1, <1>5, <2>1 DEF Behind
  <2>3. View' = D
    <3>1. s.op = "copy" /\ Copying(s, L2, D2)
      BY <1>4, <2>1
    <3>2. CASE s.pc = "parentRows"
      BY <1>5, <2>1, <3>1, <3>2 DEF Behind
    <3>3. CASE s.pc = "readResult"
      BY <1>5, <2>1, <3>1, <3>3 DEF Copying
    <3> QED BY <2>1, <3>1, <3>2, <3>3 DEF Copying
  <2>4. /\ D = L \cup Aboves(T) \cup {File(T, q.sha)} /\ File(from, q.sha) \in L
        /\ Vacant(L, T) /\ Clear(L, T)
    BY <1>1, <1>3, <2>1 DEF Copying
  <2> HIDE DEF L, T, from, D
  <2> QED BY <1>2, <1>3, <2>2, <2>3, <2>4, PromisesCopy
<1>9. ~CopyRollback(p) /\ ~CopyChildRows(p)
  BY <1>3 DEF CopyRollback, CopyChildRows, AtStep, Copying
<1>10. CASE CopyResult(p)
  <2>1. L = D
    BY <1>3, <1>10 DEF CopyResult, AtStep, Copying
  <2> QED BY <1>10, <2>1, NothingShown DEF CopyResult
<1> QED BY <1>7, <1>8, <1>9, <1>10 DEF Copy

LEMMA MkdirPromised ==
  ASSUME NEW F, OneAtATime(F), AllNamed, NEW p \in Procs, Stepping(p, F), Mkdir(p)
  PROVE  Promised!TreeNext \/ View' = View
<1> DEFINE T == Target(p)
           L == Listing
           D == disk
           L2 == Listing'
           D2 == disk'
           q == proc[p]
           s == proc'[p]
<1>1. q.pc # "idle" /\ q.op = "mkdir" /\ T = q.to /\ Reached /\ HandlerStep(p)
  BY DEF Mkdir, MkdirCheck, MkdirDisk, MkdirInsert, AtStep, Target, Stepping, HandlerStep
<1>2. T \in TreePaths /\ T \in Path /\ Ancestors(T) \subseteq TreePaths
  BY <1>1, NamedPaths, AskedNames DEF OneAtATime
<1>3. Making(q, L, D) /\ Plain(L, F) /\ Plain(D, F) /\ Closed(D)
  <2>1. Tree(D) /\ Making(q, L, D) /\ Plain(L, F) /\ Plain(D, F)
    BY <1>1 DEF Stepping, Ordered, Stage, Reached, TreeInv, Shaped
  <2> QED BY <2>1, TreeIsClosed
<1>4. s.pc = "idle" => L2 = D2
  BY DEF Stepping, Ordered, Stage
<1>5. /\ View = IF Behind(q, L) THEN D ELSE L
      /\ View' = IF Behind(s, L2) THEN D2 ELSE L2
  BY DEF Stepping
<1>6. /\ \A pc : Goto(p, pc) => s.pc = pc
      /\ Refuse(p) \/ Succeed(p) => s.pc = "idle"
  BY <1>1, GoesTo
<1>7. CASE MkdirCheck(p)
  <2>1. L = D
    BY <1>3, <1>7 DEF MkdirCheck, AtStep, Making
  <2> QED BY <1>7, <2>1, NothingShown DEF MkdirCheck
<1>8. CASE MkdirDisk(p)
  <2>1. q.pc = "makeDir" /\ s.pc \in {"idle", "insertRow"} /\ L2 = L
    BY <1>6, <1>8, ListingStays DEF MkdirDisk, AtStep
  <2>2. L = D \cup Aboves(T) /\ Clear(L, T) /\ View = D
    BY <1>1, <1>3, <1>5, <2>1 DEF Making, Behind
  <2>3. ~Behind(s, L2)
    BY <2>1 DEF Behind
  <2>4. Clear(D, T) /\ View' = View \cup Aboves(T)
    BY <1>5, <2>1, <2>2, <2>3 DEF Clear
  <2>5. \A e \in D : e.path \in Seq(Segment)
    BY <1>1, SeenPaths
  <2> HIDE DEF D, T
  <2> QED BY <1>2, <1>3, <2>2, <2>4, <2>5, PromisesParents
<1>9. CASE MkdirInsert(p)
  <2>1. q.pc = "insertRow" /\ s.pc = "idle" /\ D2 = D
    BY <1>6, <1>9 DEF MkdirInsert, AtStep
  <2>2. /\ Aboves(T) \subseteq L /\ D = L \cup {Dir(T)} /\ Clear(L, T) /\ T \notin Paths(L)
    BY <1>1, <1>3, <2>1 DEF Making
  <2>3. View = L
    BY <1>1, <1>5, <2>1 DEF Behind
  <2>4. View' = L \cup Aboves(T) \cup {Dir(T)}
    BY <1>4, <1>5, <2>1, <2>2
  <2> HIDE DEF L, T
  <2> QED BY <1>2, <1>3, <2>2, <2>3, <2>4, PromisesDir
<1> QED BY <1>7, <1>8, <1>9 DEF Mkdir

LEMMA SharePromised ==
  ASSUME NEW F, NEW p \in Procs, Stepping(p, F), Share(p)
  PROVE  View' = View
<1>1. proc[p].op = "share"
  BY DEF Share, ShareLookup, ShareInsert, AtStep
<1>2. Listing = disk
  BY <1>1 DEF Stepping, Ordered, Stage
<1>3. UNCHANGED <<rows, disk>>
  BY DEF Share, ShareLookup, ShareInsert, store
<1> QED BY <1>2, <1>3, ListingStays DEF Stepping

LEMMA ParentRowPromised ==
  ASSUME NEW F, OneAtATime(F), AllNamed, NEW p \in Procs, Stepping(p, F), ParentRow(p)
  PROVE  Promised!TreeNext \/ View' = View
<1> DEFINE T == Target(p)
           k == proc[p].k
           up == SubSeq(T, 1, k + 1)
           L == Listing
           D == disk
           L2 == Listing'
           D2 == disk'
           q == proc[p]
           s == proc'[p]
<1>1. /\ q.pc = "parentRows" /\ q.op \in MakesParents /\ k \in Nat /\ k < Len(T) - 1
      /\ Reached /\ HandlerStep(p) /\ T = q.to
  BY DEF ParentRow, Reached, Inv, ProcInv, Sound, ProcType, Target, Stepping, HandlerStep
<1>2. T \in Path /\ T \in Seq(Segment) /\ Ancestors(T) \subseteq TreePaths
  BY <1>1, NamedPaths, AskedNames DEF OneAtATime
<1>3. Stage(q, L, D) /\ Plain(L, F)
  BY DEF Stepping, Ordered
<1>4. Stage(s, L2, D2)
  BY DEF Stepping, Ordered
<1>5. /\ View = IF Behind(q, L) THEN D ELSE L
      /\ View' = IF Behind(s, L2) THEN D2 ELSE L2
  BY DEF Stepping
<1>6. s.pc \in {"parentRows", AfterParents[q.op]} /\ D2 = D
  BY <1>1, GoesTo DEF ParentRow
<1>7. s.op = q.op
  <2>1. s.pc # "idle"
    BY <1>1, <1>6 DEF AfterParents, MakesParents
  <2> QED BY <1>1, <2>1, StaysWith
<1>8. CASE q.op \in {"upload", "mkdir"}
  <2>1. s.pc \in {"parentRows", "makeParents", "makeDir"}
    BY <1>6, <1>8 DEF AfterParents
  <2>2. Behind(q, L) /\ Behind(s, L2)
    BY <1>1, <1>7, <1>8, <2>1 DEF Behind
  <2> QED BY <1>5, <1>6, <2>2
<1>9. CASE q.op = "copy"
  <2>1. View = D
    BY <1>1, <1>5, <1>9 DEF Behind
  <2>2. CASE s.pc = "parentRows"
    BY <1>5, <1>6, <1>7, <1>9, <2>1, <2>2 DEF Behind
  <2>3. CASE s.pc = "readResult"
    BY <1>4, <1>5, <1>6, <1>7, <1>9, <2>1, <2>3 DEF Stage, Copying
  <2> QED BY <1>6, <1>9, <2>2, <2>3 DEF AfterParents
<1>10. CASE q.op = "rename"
  <2>1. /\ Aboves(up) = Firsts(T, k) /\ up \in Ancestors(T) /\ up \in Path /\ up \in Seq(Segment)
        /\ Under(up, T)
    BY <1>1, <1>2, PrefixAboves
  <2>2. Clear(L, T) /\ Firsts(T, k) \subseteq L
    BY <1>1, <1>3, <1>10 DEF Stage, Renaming
  <2>3. L2 = L \cup {Dir(up)}
    <3>1. \A e \in L : e.path = up => e.dir
      BY <2>1, <2>2 DEF Clear
    <3> QED BY <1>1, <1>3, <3>1, ListingParent DEF Reached
  <2>4. View = L /\ View' = L2
    BY <1>1, <1>5, <1>7, <1>10 DEF Behind
  <2>5. \A e \in L : e.path \in Seq(Segment)
    BY <1>1, SeenPaths
  <2> HIDE DEF L, L2, T, k, up
  <2>6. CASE up \in Paths(L)
    BY <1>2, <1>3, <2>1, <2>2, <2>3, <2>4, <2>6, AboveInPlain
  <2>7. CASE up \notin Paths(L)
    <3>1. Clear(L, up)
      <4> SUFFICES ASSUME NEW e \in L, Under(e.path, up) PROVE e.dir
        BY DEF Clear
      <4>1. Under(e.path, T)
        BY <1>2, <2>1, <2>5, UnderTrans
      <4> QED BY <2>2, <4>1 DEF Clear
    <3>2. View' = View \cup Aboves(up) \cup {Dir(up)}
      BY <2>1, <2>2, <2>3, <2>4
    <3>3. up \in Path \cap TreePaths
      BY <1>2, <2>1
    <3> QED BY <1>3, <2>4, <2>7, <3>1, <3>2, <3>3, PromisesDir
  <2> QED BY <2>6, <2>7
<1> QED BY <1>1, <1>8, <1>9, <1>10 DEF MakesParents

\* What is seen is always the rows or the disk ..
ViewInv(F) == \A p \in Procs : View = Shown(p)

LEMMA AlwaysShown ==
  ASSUME NEW F, OneAtATime(F)
  PROVE  Spec => [](Reached /\ SeqInv(F) /\ ViewInv(F))
<1>1. Reached /\ SeqInv(F) => ViewInv(F)
  BY ViewIsShown DEF SeqInv, ViewInv
<1> QED BY <1>1, AlwaysOrdered, PTL

\* .. and changes as LozaTree says.
LEMMA StepPromised ==
  ASSUME NEW F, OneAtATime(F), AllNamed, Reached, SeqInv(F), ViewInv(F),
         Reached', SeqInv(F)', ViewInv(F)', [Next]_vars
  PROVE  [Promised!TreeNext]_View
<1> SUFFICES Promised!TreeNext \/ View' = View
  OBVIOUS
<1>1. CASE UNCHANGED vars
  <2>1. UNCHANGED <<rows, disk, proc>>
    BY <1>1 DEF vars
  <2> QED BY <2>1 DEF View, Seen, SeenOf, Where, Midway, At
<1>2. ASSUME NEW p \in Procs, Start(p) \/ HandlerStep(p) \/ HandlerFault(p)
      PROVE  Promised!TreeNext \/ View' = View
  <2>1. Stepping(p, F)
    BY DEF Stepping, SeqInv, ViewInv, Shown
  <2>2. CASE Start(p)
    <3>1. Listing = disk /\ UNCHANGED store
      BY <2>1, <2>2 DEF Start, Stepping, Ordered, Stage
    <3> QED BY <2>1, <3>1, NothingShown
  <2>3. CASE HandlerFault(p)
    <3>1. UploadFails(p)
      BY <2>3 DEF HandlerFault, DbFails, DiskFails, DeleteFailsMidway, CopyFailsMidway, Abandon,
                  Fault, OneAtATime
    <3> QED BY <2>1, <3>1, UploadPromised
  <2>4. CASE HandlerStep(p)
    BY <2>1, <2>4, ParentRowPromised, UploadPromised, DeletePromised, SourcePromised,
       RenamePromised, CopyPromised, MkdirPromised, SharePromised DEF HandlerStep
  <2> QED BY <1>2, <2>2, <2>3, <2>4
<1> QED BY <1>1, <1>2 DEF Next

LEMMA InitPromised ==
  ASSUME NEW F, OneAtATime(F), AllNamed
  PROVE  Init => Promised!TreeInit
<1> SUFFICES ASSUME Init PROVE Promised!TreeInit
  OBVIOUS
<1>1. Reached /\ SeqInv(F)
  BY InitOrdered, InitReached
<1>2. PICK p \in Procs : TRUE
  BY DEF OneAtATime
<1>3. Ordered(proc[p], Listing, disk, F) /\ proc[p].pc = "idle"
  BY <1>1 DEF SeqInv, Init, Idle
<1>4. View = Listing
  BY <1>1, <1>3, ViewIsShown DEF Shown, Behind
<1>5. Listing = disk
  BY <1>3 DEF Ordered, Stage
<1>6. \A i \in DOMAIN Stored : Stored[i] \in EntryType /\ Stored[i].path \in TreePaths
  BY StoredAssumption, ElementOfSeq DEF AllNamed
<1>7. \A e \in disk : e \in [path: TreePaths, dir: BOOLEAN, data: Data \cup {NoData}]
  BY <1>6 DEF Init, EntryType
<1> QED BY <1>4, <1>5, <1>7 DEF Promised!TreeInit

\* (files.rs, the handlers of /files/upload, delete, rename, move, copy and
\* mkdir)  When requests come one after the other, and nothing fails but the
\* body of an upload, the handlers implement LozaTree: every request shows its
\* clients one change of one tree, at once or not at all, however many SQL
\* statements and changes of the disk it is made of; only the directories its
\* target needs may show before.
THEOREM HandlersImplementTheTree ==
  ASSUME NEW F, OneAtATime(F), AllNamed
  PROVE  Spec => ImplementsTree
<1>1. Init => Promised!TreeInit
  BY InitPromised
<1> DEFINE I == Reached /\ SeqInv(F) /\ ViewInv(F)
<1>2. I /\ I' /\ [Next]_vars => [Promised!TreeNext]_View
  BY StepPromised
<1>3. Spec => []I
  BY AlwaysShown
<1> HIDE DEF I
<1> QED BY <1>1, <1>2, <1>3, PTL DEF Spec, ImplementsTree, Promised!TreeSpec

=============================================================================
