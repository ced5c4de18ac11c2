---------------------------- MODULE LozaFilesProofs ----------------------------
(***************************************************************************)
(* The inductive invariant of the handlers, and that every step of every   *)
(* handler, failing ones included, preserves it.  Its parts: the types     *)
(* (a handler's paths are paths, the prefix whose row it makes next is     *)
(* one), the keys of the rows, and the names of the files that are still   *)
(* being written.  The second half is about the disk, which stays a tree,  *)
(* and about what a step of a handler may touch.                           *)
(***************************************************************************)
EXTENDS LozaFiles, LozaPathsProofs

RowType == [path: Path, id: Nat, dir: BOOLEAN, sha: Data \cup {NoData}]

Content == Data \cup {NoData, Partial, Torn}

DiskType == [path: Seq(Name \cup Nat) \ {<<>>}, dir: BOOLEAN, data: Content]

ProcType ==
  [pc: Step, op: Ops \cup {"none"}, from: Seq(Name), to: Seq(Name), over: BOOLEAN,
   data: Data \cup {NoData}, rid: Nat, k: Nat, id: Nat, dir: BOOLEAN,
   sha: Data \cup {NoData}]

MakesParents == {"upload", "mkdir", "rename", "copy"}

\* What is true of a handler, n requests having been sent.
Sound(q, n) ==
  /\ q \in ProcType
  /\ q.pc # "idle" => /\ q.op \in Ops
                      /\ q.from \in Path /\ q.to \in Path
                      /\ q.rid \in 1..n
                      /\ q.op = "upload" => q.data \in Data
  /\ q.pc \in {"createTemp", "stream", "publish", "upsert"} => q.op = "upload"
  /\ q.pc = "parentRows" => q.op \in MakesParents /\ q.k < Len(q.to) - 1
  /\ q.pc = "checkTarget" => q.op \in {"rename", "copy"}

ProcInv ==
  /\ issued \in Nat
  /\ proc \in [Procs -> ProcType]
  /\ \A p \in Procs : Sound(proc[p], issued)
  /\ \A p, q \in Procs : (p # q /\ proc[p].pc # "idle" /\ proc[q].pc # "idle")
                           => proc[p].rid # proc[q].rid

\* Path and id are keys of the rows, ids are not handed out twice, and the
\* links are to rows that exist.
RowInv ==
  /\ rows \subseteq RowType
  /\ nextId \in Nat
  /\ \A r, s \in rows : (r.path = s.path \/ r.id = s.id) => r = s
  /\ \A r \in rows : r.id < nextId
  /\ shares \subseteq {r.id : r \in rows}

\* The last segments of the names of the files that are still being written.
Unfinished(S) == {Last(e.path) : e \in {d \in S : d.data = Partial}}

\* They are numbers of requests, and not those of uploads that have written
\* everything and are about to publish it.
DiskInv ==
  /\ disk \subseteq DiskType
  /\ Unfinished(disk) \subseteq 1..issued
  /\ \A p \in Procs : proc[p].pc = "publish" => proc[p].rid \notin Unfinished(disk)

Inv ==
  /\ ProcInv /\ RowInv /\ DiskInv
  /\ faults \in Nat
  /\ answer \in {"none", "ok", "error"}

-----------------------------------------------------------------------------
(* What the invariant implies.                                             *)

LEMMA InvImpliesTypeOK == Inv => TypeOK
<1> SUFFICES ASSUME Inv PROVE TypeOK
  OBVIOUS
<1>1. rows \subseteq [path: Path, id: Nat, dir: BOOLEAN, sha: Data \cup {NoData}]
  BY DEF Inv, RowInv, RowType
<1>2. disk \subseteq [path: Seq(Name \cup Nat), dir: BOOLEAN,
                      data: Data \cup {NoData, Partial, Torn}]
  BY DEF Inv, DiskInv, DiskType, Content
<1>3. shares \subseteq Nat
  BY DEF Inv, RowInv, RowType
<1>4. nextId \in Nat /\ issued \in Nat /\ faults \in Nat /\ answer \in {"none", "ok", "error"}
  BY DEF Inv, RowInv, ProcInv
<1>5. proc \in [Procs -> ProcType]
  BY DEF Inv, ProcInv
<1> QED BY <1>1, <1>2, <1>3, <1>4, <1>5 DEF TypeOK, ProcType

-----------------------------------------------------------------------------
(* Handlers: what a step leaves of ProcInv.                                *)

LEMMA SetProc ==
  ASSUME ProcInv, NEW p \in Procs, NEW q, Sound(q, issued),
         q.pc # "idle" => proc[p].pc # "idle" /\ q.rid = proc[p].rid,
         proc' = [proc EXCEPT ![p] = q], UNCHANGED issued
  PROVE  ProcInv'
<1>1. proc' \in [Procs -> ProcType] /\ issued' \in Nat
  BY DEF ProcInv, Sound
<1>2. \A x \in Procs : Sound(proc'[x], issued')
  BY DEF ProcInv
<1>3. ASSUME NEW x \in Procs, NEW y \in Procs, x # y,
             proc'[x].pc # "idle", proc'[y].pc # "idle"
      PROVE  proc'[x].rid # proc'[y].rid
  <2>1. proc'[x].rid = proc[x].rid /\ proc[x].pc # "idle"
    BY <1>3 DEF ProcInv
  <2>2. proc'[y].rid = proc[y].rid /\ proc[y].pc # "idle"
    BY <1>3 DEF ProcInv
  <2> QED BY <2>1, <2>2, <1>3 DEF ProcInv
<1> QED BY <1>1, <1>2, <1>3 DEF ProcInv

LEMMA IdleSound == ASSUME NEW n \in Nat PROVE Sound(Idle, n)
<1>1. <<>> \in Seq(Name)
  OBVIOUS
<1>2. Idle \in ProcType
  BY <1>1 DEF Idle, ProcType, Step
<1> QED BY <1>2 DEF Sound, Idle

\* A handler that returns.
LEMMA ReturnProc ==
  ASSUME ProcInv, NEW p \in Procs, NEW result, Return(p, result), UNCHANGED issued
  PROVE  ProcInv'
<1>1. Sound(Idle, issued)
  BY IdleSound DEF ProcInv
<1>2. Idle.pc = "idle"
  BY DEF Idle
<1> QED BY <1>1, <1>2, SetProc DEF Return

\* A handler that goes on to a step of its own operation.
LEMMA GotoProc ==
  ASSUME ProcInv, NEW p \in Procs, NEW pc \in Step \ {"idle", "parentRows", "checkTarget"},
         proc[p].pc # "idle",
         pc \in {"createTemp", "stream", "publish", "upsert"} => proc[p].op = "upload",
         proc' = [proc EXCEPT ![p].pc = pc], UNCHANGED issued
  PROVE  ProcInv'
<1> DEFINE q == [proc[p] EXCEPT !.pc = pc]
<1>1. proc[p] \in ProcType /\ Sound(proc[p], issued)
  BY DEF ProcInv
<1>2. q \in ProcType
  BY <1>1 DEF ProcType
<1>3. /\ q.pc = pc /\ q.op = proc[p].op /\ q.from = proc[p].from /\ q.to = proc[p].to
      /\ q.rid = proc[p].rid /\ q.data = proc[p].data /\ q.k = proc[p].k
  BY <1>1 DEF ProcType
<1>4. proc' = [proc EXCEPT ![p] = q]
  BY DEF ProcInv
<1> HIDE DEF q
<1>5. Sound(q, issued)
  BY <1>1, <1>2, <1>3 DEF Sound
<1> QED BY <1>3, <1>4, <1>5, SetProc

\* A handler that goes on to the rows of the parents, or past them.
LEMMA ParentsProc ==
  ASSUME ProcInv, NEW p \in Procs, NEW k \in Nat,
         proc[p].pc # "idle", proc[p].op \in MakesParents,
         NextParent(p, k), UNCHANGED issued
  PROVE  ProcInv'
<1> DEFINE pc == ParentsFrom(p, k)
           q == [proc[p] EXCEPT !.k = k, !.pc = pc]
<1>1. proc[p] \in ProcType /\ Sound(proc[p], issued)
  BY DEF ProcInv
<1>2. \/ pc = "parentRows" /\ k < Len(proc[p].to) - 1
      \/ pc = AfterParents[proc[p].op]
  BY DEF ParentsFrom, Target
<1>3. AfterParents[proc[p].op] \in Step \ {"idle", "parentRows", "checkTarget", "createTemp",
                                            "stream", "publish", "upsert"}
  BY DEF AfterParents, MakesParents, Step, SqlSteps
<1>4. pc \in Step \ {"idle", "checkTarget", "createTemp", "stream", "publish", "upsert"}
  BY <1>2, <1>3 DEF Step, SqlSteps
<1> HIDE DEF pc
<1>5. q \in ProcType
  BY <1>1, <1>4 DEF ProcType
<1>6. /\ q.pc = pc /\ q.op = proc[p].op /\ q.from = proc[p].from /\ q.to = proc[p].to
      /\ q.rid = proc[p].rid /\ q.data = proc[p].data /\ q.k = k
  BY <1>1 DEF ProcType
<1>7. proc' = [proc EXCEPT ![p] = q]
  BY DEF ProcInv, NextParent, pc
<1> HIDE DEF q
<1>8. Sound(q, issued)
  BY <1>1, <1>2, <1>3, <1>4, <1>5, <1>6 DEF Sound
<1> QED BY <1>4, <1>6, <1>7, <1>8, SetProc

-----------------------------------------------------------------------------
(* The disk: what an operation of the file system leaves of DiskInv.       *)

\* S is a possible disk that has no unfinished file more than the disk has.
NoMoreUnfinished(S) == S \subseteq DiskType /\ Unfinished(S) \subseteq Unfinished(disk)

LEMMA SubsetOfDisk ==
  ASSUME disk \subseteq DiskType, NEW S, S \subseteq disk
  PROVE  NoMoreUnfinished(S)
BY DEF NoMoreUnfinished, Unfinished

LEMMA PathTypes ==
  ASSUME NEW path \in Path
  PROVE  /\ path \in Seq(Name \cup Nat) \ {<<>>}
         /\ Parent(path) \in Seq(Name)
         /\ Last(path) \in Name
<1>1. path \in Seq(Name) /\ path # <<>>
  BY DEF Path
<1>2. path \in Seq(Name \cup Nat)
  <2>1. Name \subseteq Name \cup Nat
    OBVIOUS
  <2> QED BY <1>1, <2>1, SeqMonotonic
<1>3. Parent(path) \in Seq(Name)
  BY <1>1, ParentProperties
<1>4. Last(path) \in Name
  <2>1. Len(path) \in Nat \ {0}
    BY <1>1, EmptySeq
  <2>2. Len(path) \in 1..Len(path)
    BY <2>1
  <2> QED BY <1>1, <2>2, ElementOfSeq DEF Last
<1> QED BY <1>1, <1>2, <1>3, <1>4

LEMMA WithDirsLemma ==
  ASSUME disk \subseteq DiskType, NEW path \in Seq(Name)
  PROVE  NoMoreUnfinished(WithDirs(path))
<1>1. CASE path = <<>>
  BY <1>1, SubsetOfDisk DEF WithDirs
<1>2. CASE path # <<>>
  <2>1. \A q \in MissingDirs(path) : q \in Path
    <3>1. \A i \in 1..(Len(path) - 1) : SubSeq(path, 1, i) \in Path
      <4> TAKE i \in 1..(Len(path) - 1)
      <4>1. i \in 1..Len(path)
        BY LenProperties
      <4> QED BY <4>1, PrefixProperties DEF Path
    <3> QED BY <1>2, <3>1 DEF MissingDirs, Ancestors, Path
  <2>2. \A q \in MissingDirs(path) : Dir(q) \in DiskType /\ Dir(q).data # Partial
    BY <2>1, PathTypes, DataAssumption DEF Dir, DiskType, Content
  <2>3. WithDirs(path) = disk \cup {Dir(q) : q \in MissingDirs(path)}
    BY <1>2 DEF WithDirs
  <2> HIDE DEF DiskType
  <2> QED BY <2>2, <2>3 DEF NoMoreUnfinished, Unfinished
<1> QED BY <1>1, <1>2

\* A path that can be renamed: nobody is writing the file with exactly this
\* name, or has written it completely.
LEMMA RenamedDiskLemma ==
  ASSUME disk \subseteq DiskType,
         NEW from \in Seq(Name \cup Nat), NEW to \in Seq(Name \cup Nat), to # <<>>,
         \A e \in disk : e.path = from => e.data # Partial
  PROVE  NoMoreUnfinished(RenamedDisk(from, to))
<1> DEFINE M(e) == [e EXCEPT !.path = Rebase(@, from, to)]
<1>1. ASSUME NEW e \in Subtree(disk, from)
      PROVE  /\ M(e) \in DiskType
             /\ M(e).data = e.data
             /\ e.data = Partial => Last(M(e).path) = Last(e.path)
  <2>1. e \in DiskType /\ e \in disk /\ AtOrUnder(from, e.path)
    BY DEF Subtree
  <2>2. e.path \in Seq(Name \cup Nat)
    BY <2>1 DEF DiskType
  <2>3. /\ Rebase(e.path, from, to) \in Seq(Name \cup Nat)
        /\ Rebase(e.path, from, to) # <<>>
        /\ Under(from, e.path) => Last(Rebase(e.path, from, to)) = Last(e.path)
    BY <2>2, RebaseProperties
  <2>4. M(e).path = Rebase(e.path, from, to) /\ M(e).data = e.data
    BY <2>1 DEF DiskType
  <2>5. M(e) \in DiskType
    BY <2>1, <2>3 DEF DiskType
  <2> QED BY <2>1, <2>3, <2>4, <2>5 DEF AtOrUnder
<1>2. Subtree(disk, from) \subseteq disk
  BY DEF Subtree
<1>3. RenamedDisk(from, to) =
        {e \in disk : ~AtOrUnder(from, e.path) /\ e.path # to}
          \cup {M(e) : e \in Subtree(disk, from)}
  BY DEF RenamedDisk
<1> HIDE DEF M
<1> QED BY <1>1, <1>2, <1>3 DEF NoMoreUnfinished, Unfinished

\* Copies have the types of their originals and are complete or torn.
LEMMA CopiesLemma ==
  ASSUME disk \subseteq DiskType, NEW from \in Path, NEW to \in Path
  PROVE  \A c \in Copies(from, to) : c \in DiskType /\ c.data # Partial
<1> TAKE c \in Copies(from, to)
<1>1. PICK e \in Subtree(disk, from) :
        c = [path |-> Rebase(e.path, from, to), dir |-> e.dir, data |-> CopiedData(e.data)]
  BY DEF Copies
<1>2. e \in DiskType
  BY DEF Subtree
<1>3. e.path \in Seq(Name \cup Nat) /\ e.dir \in BOOLEAN /\ e.data \in Content
  BY <1>2 DEF DiskType
<1>4. from \in Seq(Name \cup Nat) /\ to \in Seq(Name \cup Nat) /\ to # <<>>
  BY PathTypes
<1>5. Rebase(e.path, from, to) \in Seq(Name \cup Nat) \ {<<>>}
  BY <1>3, <1>4, RebaseProperties
<1>6. CopiedData(e.data) \in Content /\ CopiedData(e.data) # Partial
  BY <1>3, DataAssumption DEF CopiedData, Content
<1> QED BY <1>1, <1>3, <1>5, <1>6 DEF DiskType

LEMMA CopiedDiskLemma ==
  ASSUME disk \subseteq DiskType, NEW to \in Path, NEW asDir \in BOOLEAN,
         NEW copied, \A c \in copied : c \in DiskType /\ c.data # Partial
  PROVE  NoMoreUnfinished(CopiedDisk(to, asDir, copied))
<1>1. NoMoreUnfinished(CopyBase(to, asDir))
  BY WithDirsLemma, SubsetOfDisk DEF CopyBase, Path
<1> QED BY <1>1 DEF CopiedDisk, NoMoreUnfinished, Unfinished

\* A step that leaves no more unfinished files, and in which no handler comes
\* to its publishing step, preserves DiskInv.
LEMMA DiskStep ==
  ASSUME Inv, NoMoreUnfinished(disk'), issued' \in Nat, issued <= issued',
         \A p \in Procs : proc'[p].pc = "publish" =>
                            proc[p].pc = "publish" /\ proc'[p].rid = proc[p].rid
  PROVE  DiskInv'
<1>1. issued \in Nat /\ Unfinished(disk) \subseteq 1..issued
  BY DEF Inv, ProcInv, DiskInv
<1>2. disk' \subseteq DiskType /\ Unfinished(disk') \subseteq Unfinished(disk)
  BY DEF NoMoreUnfinished
<1>3. Unfinished(disk)' = Unfinished(disk')
  BY DEF Unfinished
<1> QED BY <1>1, <1>2, <1>3 DEF DiskInv, Inv

-----------------------------------------------------------------------------
(* The rows: what an SQL statement leaves of RowInv.                       *)

LEMMA RowsUnchanged ==
  ASSUME RowInv, UNCHANGED <<rows, shares, nextId>>
  PROVE  RowInv'
BY DEF RowInv

LEMMA RowAdded ==
  ASSUME RowInv, NEW path \in Path, path \notin Paths(rows),
         NEW dir \in BOOLEAN, NEW sha \in Data \cup {NoData},
         rows' = rows \cup {Row(path, nextId, dir, sha)}, nextId' = nextId + 1,
         UNCHANGED shares
  PROVE  RowInv'
<1> DEFINE new == Row(path, nextId, dir, sha)
<1>1. new \in RowType /\ new.path = path /\ new.id = nextId
  BY DEF Row, RowType, RowInv
<1>2. \A r \in rows : r.path # path
  BY DEF Paths
<1>3. \A r \in rows : r.id \in Nat /\ r.id < nextId
  BY DEF RowInv, RowType
<1>4. nextId \in Nat /\ nextId' \in Nat
  BY DEF RowInv
<1> HIDE DEF new
<1>5. rows' = rows \cup {new}
  BY DEF new
<1>6. rows' \subseteq RowType
  BY <1>1, <1>5 DEF RowInv
<1>7. \A r, s \in rows' : (r.path = s.path \/ r.id = s.id) => r = s
  BY <1>1, <1>2, <1>3, <1>4, <1>5 DEF RowInv
<1>8. \A r \in rows' : r.id < nextId'
  BY <1>1, <1>3, <1>4, <1>5
<1>9. shares' \subseteq {r.id : r \in rows'}
  BY <1>5 DEF RowInv
<1> QED BY <1>4, <1>6, <1>7, <1>8, <1>9 DEF RowInv

\* Rows are deleted, and their links with them.
LEMMA RowsDeleted ==
  ASSUME RowInv, rows' \subseteq rows, shares' = Cascade(rows'), UNCHANGED nextId
  PROVE  RowInv'
BY DEF RowInv, Cascade

\* A row keeps its keys when its checksum is set.
LEMMA RowUpdated ==
  ASSUME RowInv, NEW path, NEW sha \in Data \cup {NoData},
         rows' = {IF r.path = path THEN [r EXCEPT !.sha = sha] ELSE r : r \in rows},
         UNCHANGED <<shares, nextId>>
  PROVE  RowInv'
<1> DEFINE U(r) == IF r.path = path THEN [r EXCEPT !.sha = sha] ELSE r
<1>1. \A r \in rows : U(r) \in RowType /\ U(r).path = r.path /\ U(r).id = r.id
  BY DEF RowInv, RowType
<1>2. rows' = {U(r) : r \in rows}
  OBVIOUS
<1> HIDE DEF U
<1>3. rows' \subseteq RowType
  BY <1>1, <1>2
<1>4. \A r, s \in rows' : (r.path = s.path \/ r.id = s.id) => r = s
  BY <1>1, <1>2 DEF RowInv
<1>5. \A r \in rows' : r.id < nextId'
  BY <1>1, <1>2 DEF RowInv
<1>6. {r.id : r \in rows'} = {r.id : r \in rows}
  BY <1>1, <1>2
<1> QED BY <1>3, <1>4, <1>5, <1>6 DEF RowInv

\* Every row of an UPDATE of paths keeps its id and all but its path.
LEMMA MovedRowLemma ==
  ASSUME RowInv, NEW p \in Procs, Source(p) \in Path, Target(p) \in Path, NEW r \in rows
  PROVE  MovedRow(p, r) \in RowType /\ MovedRow(p, r).id = r.id
           /\ MovedRow(p, r).path = Rebase(r.path, Source(p), Target(p))
<1>1. r \in RowType /\ r.path \in Path
  BY DEF RowInv, RowType
<1>2. Rebase(r.path, Source(p), Target(p)) \in Path
  BY <1>1, RebaseProperties DEF Path
<1> QED BY <1>1, <1>2 DEF MovedRow, RowType

LEMMA RowsMoved ==
  ASSUME RowInv, NEW p \in Procs, Source(p) \in Path, Target(p) \in Path,
         ~UniqueViolation(MovedRows(p)), rows' = MovedRows(p),
         UNCHANGED <<shares, nextId>>
  PROVE  RowInv'
<1> DEFINE M(r) == IF IsMoved(p, r.path) THEN MovedRow(p, r) ELSE r
<1>1. \A r \in rows : M(r) \in RowType /\ M(r).id = r.id
  BY MovedRowLemma DEF RowInv
<1>2. rows' = {M(r) : r \in rows}
  BY DEF MovedRows
<1>3. \A r, s \in rows' : r.path = s.path => r = s
  BY DEF UniqueViolation
<1> HIDE DEF M
<1>4. rows' \subseteq RowType
  BY <1>1, <1>2
<1>5. \A r, s \in rows' : r.id = s.id => r = s
  BY <1>1, <1>2 DEF RowInv
<1>6. \A r \in rows' : r.id < nextId'
  BY <1>1, <1>2 DEF RowInv
<1>7. {r.id : r \in rows'} = {r.id : r \in rows}
  BY <1>1, <1>2
<1> QED BY <1>3, <1>4, <1>5, <1>6, <1>7 DEF RowInv

-----------------------------------------------------------------------------
(* A step of one handler, put together.                                    *)

LEMMA ReturnStep ==
  ASSUME Inv, NEW p \in Procs, NEW result \in {"none", "ok", "error"}, Return(p, result),
         UNCHANGED issued, faults' \in Nat, RowInv', NoMoreUnfinished(disk')
  PROVE  Inv'
<1>1. ProcInv'
  BY ReturnProc DEF Inv
<1>2. \A q \in Procs : proc'[q].pc = "publish" =>
                           proc[q].pc = "publish" /\ proc'[q].rid = proc[q].rid
  BY DEF Return, Idle, Inv, ProcInv
<1>3. issued \in Nat /\ issued <= issued'
  BY DEF Inv, ProcInv
<1>4. DiskInv'
  BY <1>2, <1>3, DiskStep
<1> QED BY <1>1, <1>4 DEF Inv, Return

LEMMA GotoStep ==
  ASSUME Inv, NEW p \in Procs, NEW pc \in Step \ {"idle", "parentRows", "checkTarget", "publish"},
         proc[p].pc # "idle",
         pc \in {"createTemp", "stream", "upsert"} => proc[p].op = "upload",
         Goto(p, pc), UNCHANGED Counters, RowInv', NoMoreUnfinished(disk')
  PROVE  Inv'
<1>1. ProcInv'
  BY GotoProc DEF Inv, Goto, Counters
<1>2. \A q \in Procs : proc'[q].pc = "publish" =>
                           proc[q].pc = "publish" /\ proc'[q].rid = proc[q].rid
  BY DEF Goto, Inv, ProcInv
<1>3. issued \in Nat /\ issued <= issued' /\ faults' \in Nat
  BY DEF Inv, ProcInv, Counters
<1>4. DiskInv'
  BY <1>2, <1>3, DiskStep DEF Counters
<1> QED BY <1>1, <1>3, <1>4 DEF Inv, Goto

LEMMA ParentsStep ==
  ASSUME Inv, NEW p \in Procs, NEW k \in Nat, proc[p].pc # "idle",
         proc[p].op \in MakesParents,
         NextParent(p, k), UNCHANGED Counters, RowInv', NoMoreUnfinished(disk')
  PROVE  Inv'
<1>1. ProcInv'
  BY ParentsProc DEF Inv, Counters
<1>2. ParentsFrom(p, k) # "publish"
  BY DEF ParentsFrom, AfterParents, MakesParents
<1>3. \A q \in Procs : proc'[q].pc = "publish" =>
                           proc[q].pc = "publish" /\ proc'[q].rid = proc[q].rid
  BY <1>2 DEF NextParent, Inv, ProcInv
<1>4. issued \in Nat /\ issued <= issued' /\ faults' \in Nat
  BY DEF Inv, ProcInv, Counters
<1>5. DiskInv'
  BY <1>3, <1>4, DiskStep DEF Counters
<1> QED BY <1>1, <1>4, <1>5 DEF Inv, NextParent

-----------------------------------------------------------------------------
(* Every step of every handler preserves the invariant.                    *)

\* What the invariant says of a handler that is executing a request.
LEMMA BusyHandler ==
  ASSUME Inv, NEW p \in Procs, proc[p].pc # "idle"
  PROVE  /\ proc[p] \in ProcType
         /\ proc[p].op \in Ops
         /\ Source(p) \in Path /\ Target(p) \in Path
         /\ proc[p].rid \in 1..issued
         /\ proc[p].op = "upload" => proc[p].data \in Data
         /\ disk \subseteq DiskType /\ NoMoreUnfinished(disk)
         /\ RowInv
         /\ issued \in Nat /\ faults \in Nat
BY SubsetOfDisk DEF Inv, ProcInv, Sound, Source, Target, DiskInv

\* A temporary file is in the target's directory, under its request's number.
LEMMA TempProperty ==
  ASSUME Inv, NEW p \in Procs, proc[p].pc # "idle"
  PROVE  /\ Temp(p) \in Seq(Name \cup Nat) \ {<<>>}
         /\ Last(Temp(p)) = proc[p].rid
<1>1. Target(p) \in Path /\ proc[p].rid \in Nat
  BY BusyHandler DEF ProcType
<1>2. Parent(Target(p)) \in Seq(Name \cup Nat)
  <2>1. Parent(Target(p)) \in Seq(Name)
    BY <1>1, PathTypes
  <2>2. Name \subseteq Name \cup Nat
    OBVIOUS
  <2> QED BY <2>1, <2>2, SeqMonotonic
<1>3. proc[p].rid \in Name \cup Nat
  BY <1>1
<1> QED BY <1>2, <1>3, TempProperties DEF Temp

LEMMA ParentRowStep == ASSUME Inv, NEW p \in Procs, ParentRow(p) PROVE Inv'
<1> DEFINE prefix == SubSeq(Target(p), 1, proc[p].k + 1)
<1>1. /\ proc[p].k \in Nat /\ proc[p].k < Len(Target(p)) - 1
      /\ proc[p].op \in MakesParents
      /\ proc[p].pc # "idle"
  BY DEF ParentRow, Inv, ProcInv, Sound, ProcType, Target
<1>2. prefix \in Path
  <2>1. Target(p) \in Seq(Name) /\ Len(Target(p)) \in Nat
    BY <1>1, BusyHandler, LenProperties DEF Path
  <2>2. proc[p].k + 1 \in 1..Len(Target(p))
    BY <1>1, <2>1
  <2> QED BY <2>1, <2>2, PrefixProperties DEF Path
<1>3. RowInv'
  <2>1. CASE prefix \in Paths(rows)
    BY <2>1, <1>1, BusyHandler, RowsUnchanged DEF ParentRow
  <2>2. CASE prefix \notin Paths(rows)
    BY <2>2, <1>1, <1>2, BusyHandler, RowAdded DEF ParentRow
  <2> QED BY <2>1, <2>2
<1>4. NextParent(p, proc[p].k + 1) /\ UNCHANGED <<disk, Counters>>
  BY DEF ParentRow
<1> QED BY <1>1, <1>3, <1>4, BusyHandler, ParentsStep

LEMMA UploadStep == ASSUME Inv, NEW p \in Procs, Upload(p) PROVE Inv'
<1>1. /\ proc[p].pc # "idle" /\ proc[p].op = "upload"
  BY DEF Upload, UploadCheck, UploadMakeParents, UploadCreateTemp, UploadStream,
         UploadPublish, UploadUpsert, AtStep
<1>2. /\ Target(p) \in Path /\ proc[p].data \in Data
      /\ disk \subseteq DiskType /\ NoMoreUnfinished(disk) /\ RowInv
      /\ issued \in Nat /\ faults \in Nat
  BY <1>1, BusyHandler
<1>3. CASE UploadCheck(p)
  <2>1. RowInv' /\ NoMoreUnfinished(disk') /\ UNCHANGED Counters
    BY <1>2, <1>3, RowsUnchanged DEF UploadCheck, store
  <2>2. CASE Refuse(p)
    BY <1>2, <2>1, <2>2, ReturnStep DEF Refuse, Counters
  <2>3. CASE GotoParents(p)
    BY <1>1, <2>1, <2>3, ParentsStep DEF GotoParents, MakesParents
  <2> QED BY <1>3, <2>2, <2>3 DEF UploadCheck
<1>4. CASE UploadMakeParents(p)
  <2>1. RowInv' /\ UNCHANGED Counters
    BY <1>2, <1>4, RowsUnchanged DEF UploadMakeParents
  <2>2. CASE disk' = WithDirs(Parent(Target(p))) /\ Goto(p, "createTemp")
    <3>1. NoMoreUnfinished(disk')
      BY <1>2, <2>2, PathTypes, WithDirsLemma
    <3> QED BY <1>1, <2>1, <2>2, <3>1, GotoStep DEF Step
  <2>3. CASE Refuse(p) /\ UNCHANGED disk
    BY <1>2, <2>1, <2>3, ReturnStep DEF Refuse, Counters
  <2> QED BY <1>4, <2>2, <2>3 DEF UploadMakeParents
<1>5. CASE UploadCreateTemp(p)
  <2>1. RowInv' /\ UNCHANGED Counters
    BY <1>2, <1>5, RowsUnchanged DEF UploadCreateTemp
  <2>2. CASE disk' = disk \cup {File(Temp(p), Partial)} /\ Goto(p, "stream")
    <3>1. ProcInv'
      BY <1>1, <2>1, <2>2, GotoProc DEF Inv, Goto, Counters, Step
    <3>2. File(Temp(p), Partial) \in DiskType
            /\ Last(File(Temp(p), Partial).path) = proc[p].rid
      BY <1>1, TempProperty DEF File, DiskType, Content
    <3>3. disk' \subseteq DiskType
      BY <1>2, <2>2, <3>2
    <3>4. Unfinished(disk') \subseteq Unfinished(disk) \cup {proc[p].rid}
      BY <2>2, <3>2 DEF Unfinished
    <3>5. Unfinished(disk)' = Unfinished(disk')
      BY DEF Unfinished
    <3>6. Unfinished(disk)' \subseteq 1..issued'
      BY <1>1, <2>1, <3>4, <3>5, BusyHandler DEF Inv, DiskInv, Counters
    <3>7. ASSUME NEW q \in Procs, proc'[q].pc = "publish"
          PROVE  proc'[q].rid \notin Unfinished(disk)'
      <4>1. q # p /\ proc'[q] = proc[q]
        BY <2>2, <3>7 DEF Goto, Inv, ProcInv
      <4>2. proc[q].rid # proc[p].rid
        BY <1>1, <3>7, <4>1 DEF Inv, ProcInv
      <4>3. proc[q].rid \notin Unfinished(disk)
        BY <3>7, <4>1 DEF Inv, DiskInv
      <4> QED BY <3>4, <3>5, <4>1, <4>2, <4>3
    <3> QED BY <2>1, <2>2, <3>1, <3>3, <3>6, <3>7 DEF Inv, DiskInv, Goto, Counters
  <2>3. CASE Refuse(p) /\ UNCHANGED disk
    BY <1>2, <2>1, <2>3, ReturnStep DEF Refuse, Counters
  <2> QED BY <1>5, <2>2, <2>3 DEF UploadCreateTemp
<1>6. CASE UploadStream(p)
  <2>1. RowInv' /\ UNCHANGED Counters /\ Goto(p, "publish")
    BY <1>2, <1>6, RowsUnchanged DEF UploadStream
  <2>2. ProcInv'
    BY <1>1, <2>1, GotoProc DEF Inv, Goto, Counters, Step
  <2> DEFINE W(e) == IF e.data = Partial /\ Last(e.path) = proc[p].rid
                     THEN [e EXCEPT !.data = proc[p].data] ELSE e
  <2>3. \A e \in disk : /\ W(e) \in DiskType /\ W(e).path = e.path
                        /\ W(e).data = Partial =>
                             e.data = Partial /\ Last(e.path) # proc[p].rid
    BY <1>2, DataAssumption DEF DiskType, Content
  <2>4. disk' = {W(e) : e \in disk}
    BY <1>6 DEF UploadStream
  <2> HIDE DEF W
  <2>5. disk' \subseteq DiskType
    BY <2>3, <2>4
  <2>6. Unfinished(disk') \subseteq Unfinished(disk) \ {proc[p].rid}
    BY <2>3, <2>4 DEF Unfinished
  <2>7. Unfinished(disk)' = Unfinished(disk')
    BY DEF Unfinished
  <2>8. Unfinished(disk)' \subseteq 1..issued'
    BY <2>1, <2>6, <2>7 DEF Inv, DiskInv, Counters
  <2>9. ASSUME NEW q \in Procs, proc'[q].pc = "publish"
        PROVE  proc'[q].rid \notin Unfinished(disk)'
    <3>1. CASE q = p
      <4>1. proc'[p].rid = proc[p].rid
        BY <2>1 DEF Goto, Inv, ProcInv
      <4> QED BY <2>6, <2>7, <3>1, <4>1
    <3>2. CASE q # p
      <4>1. proc'[q] = proc[q]
        BY <2>1, <3>2 DEF Goto, Inv, ProcInv
      <4> QED BY <2>6, <2>7, <2>9, <4>1 DEF Inv, DiskInv
    <3> QED BY <3>1, <3>2
  <2> QED BY <2>1, <2>2, <2>5, <2>8, <2>9 DEF Inv, DiskInv, Goto, Counters
<1>7. CASE UploadPublish(p)
  <2>1. RowInv' /\ UNCHANGED Counters
    BY <1>2, <1>7, RowsUnchanged DEF UploadPublish
  <2>2. CASE disk' = RenamedDisk(Temp(p), Target(p)) /\ Goto(p, "upsert")
    <3>1. /\ Temp(p) \in Seq(Name \cup Nat) \ {<<>>} /\ Last(Temp(p)) = proc[p].rid
          /\ Target(p) \in Seq(Name \cup Nat) /\ Target(p) # <<>>
      BY <1>1, <1>2, TempProperty, PathTypes
    <3>2. proc[p].rid \notin Unfinished(disk)
      BY <1>7 DEF UploadPublish, AtStep, Inv, DiskInv
    <3>3. \A e \in disk : e.path = Temp(p) => e.data # Partial
      BY <3>1, <3>2 DEF Unfinished
    <3>4. NoMoreUnfinished(disk')
      BY <1>2, <2>2, <3>1, <3>3, RenamedDiskLemma
    <3> QED BY <1>1, <2>1, <2>2, <3>4, GotoStep DEF Step, SqlSteps
  <2>3. CASE disk' = disk \ At(disk, Temp(p)) /\ Refuse(p)
    <3>1. NoMoreUnfinished(disk')
      BY <1>2, <2>3, SubsetOfDisk
    <3> QED BY <1>2, <2>1, <2>3, <3>1, ReturnStep DEF Refuse, Counters
  <2> QED BY <1>7, <2>2, <2>3 DEF UploadPublish
<1>8. CASE UploadUpsert(p)
  <2>1. NoMoreUnfinished(disk') /\ UNCHANGED Counters /\ Succeed(p)
    BY <1>2, <1>8 DEF UploadUpsert
  <2>2. RowInv'
    <3>1. CASE Target(p) \in Paths(rows)
      BY <1>2, <1>8, <3>1, RowUpdated DEF UploadUpsert
    <3>2. CASE Target(p) \notin Paths(rows)
      BY <1>2, <1>8, <3>2, RowAdded DEF UploadUpsert
    <3> QED BY <3>1, <3>2
  <2> QED BY <1>2, <2>1, <2>2, ReturnStep DEF Succeed, Counters
<1> QED BY <1>3, <1>4, <1>5, <1>6, <1>7, <1>8 DEF Upload

LEMMA DeleteStep == ASSUME Inv, NEW p \in Procs, Delete(p) PROVE Inv'
<1>1. proc[p].pc # "idle" /\ UNCHANGED Counters
  BY DEF Delete, DeleteCheck, DeleteDisk, DeleteRows, AtStep
<1>2. /\ Target(p) \in Path
      /\ disk \subseteq DiskType /\ NoMoreUnfinished(disk) /\ RowInv
      /\ issued \in Nat /\ faults \in Nat
  BY <1>1, BusyHandler
<1>3. CASE DeleteCheck(p)
  <2>1. RowInv' /\ NoMoreUnfinished(disk')
    BY <1>2, <1>3, RowsUnchanged DEF DeleteCheck, store
  <2>2. CASE Goto(p, "removeDisk")
    BY <1>1, <2>1, <2>2, GotoStep DEF Step
  <2>3. CASE Refuse(p)
    BY <1>1, <1>2, <2>1, <2>3, ReturnStep DEF Refuse, Counters
  <2> QED BY <1>3, <2>2, <2>3 DEF DeleteCheck
<1>4. CASE DeleteDisk(p)
  <2>1. RowInv' /\ NoMoreUnfinished(disk')
    BY <1>2, <1>4, RowsUnchanged, SubsetOfDisk DEF DeleteDisk
  <2>2. CASE Goto(p, "deleteRows")
    BY <1>1, <2>1, <2>2, GotoStep DEF Step, SqlSteps
  <2>3. CASE Refuse(p)
    BY <1>1, <1>2, <2>1, <2>3, ReturnStep DEF Refuse, Counters
  <2> QED BY <1>4, <2>2, <2>3 DEF DeleteDisk
<1>5. CASE DeleteRows(p)
  <2>1. RowInv' /\ NoMoreUnfinished(disk') /\ Succeed(p)
    BY <1>2, <1>5, RowsDeleted DEF DeleteRows
  <2> QED BY <1>1, <1>2, <2>1, ReturnStep DEF Succeed, Counters
<1> QED BY <1>3, <1>4, <1>5 DEF Delete

LEMMA ReadSourceStep == ASSUME Inv, NEW p \in Procs, ReadSource(p) PROVE Inv'
<1>1. proc[p].pc # "idle" /\ proc[p].op \in {"rename", "copy"} /\ UNCHANGED Counters
  BY DEF ReadSource
<1>2. NoMoreUnfinished(disk) /\ RowInv /\ issued \in Nat /\ faults \in Nat
        /\ proc[p] \in ProcType
  BY <1>1, BusyHandler
<1>3. RowInv' /\ NoMoreUnfinished(disk')
  BY <1>2, RowsUnchanged DEF ReadSource, store
<1>4. ASSUME NEW r \in At(rows, Source(p)), UNCHANGED answer,
             proc' = [proc EXCEPT ![p].pc = "checkTarget", ![p].dir = r.dir, ![p].sha = r.sha]
      PROVE  Inv'
  <2> DEFINE q == [proc[p] EXCEPT !.pc = "checkTarget", !.dir = r.dir, !.sha = r.sha]
  <2>1. r.dir \in BOOLEAN /\ r.sha \in Data \cup {NoData}
    BY <1>2 DEF At, RowInv, RowType
  <2>2. q \in ProcType
    BY <1>2, <2>1 DEF ProcType, Step, SqlSteps
  <2>3. /\ q.pc = "checkTarget" /\ q.op = proc[p].op /\ q.from = proc[p].from
        /\ q.to = proc[p].to /\ q.rid = proc[p].rid /\ q.data = proc[p].data
    BY <1>2 DEF ProcType
  <2>4. proc' = [proc EXCEPT ![p] = q]
    BY <1>4 DEF Inv, ProcInv
  <2> HIDE DEF q
  <2>5. Sound(q, issued)
    BY <1>1, <2>2, <2>3 DEF Sound, Inv, ProcInv
  <2>6. ProcInv'
    BY <1>1, <2>3, <2>4, <2>5, SetProc DEF Inv, Counters
  <2>7. \A x \in Procs : proc'[x].pc = "publish" =>
                           proc[x].pc = "publish" /\ proc'[x].rid = proc[x].rid
    BY <2>3, <2>4 DEF Inv, ProcInv
  <2>8. DiskInv'
    BY <1>1, <1>2, <1>3, <2>7, DiskStep DEF Counters
  <2> QED BY <1>1, <1>3, <1>4, <2>6, <2>8 DEF Inv, Counters
<1>5. CASE Refuse(p)
  BY <1>1, <1>2, <1>3, <1>5, ReturnStep DEF Refuse, Counters
<1> QED BY <1>4, <1>5 DEF ReadSource

LEMMA CheckTargetStep == ASSUME Inv, NEW p \in Procs, CheckTarget(p) PROVE Inv'
<1>1. proc[p].pc # "idle" /\ UNCHANGED Counters
  BY DEF CheckTarget
<1>2. NoMoreUnfinished(disk) /\ RowInv /\ issued \in Nat /\ faults \in Nat
  BY <1>1, BusyHandler
<1>3. RowInv' /\ NoMoreUnfinished(disk')
  BY <1>2, RowsUnchanged DEF CheckTarget, store
<1>4. CASE Refuse(p)
  BY <1>1, <1>2, <1>3, <1>4, ReturnStep DEF Refuse, Counters
<1>5. CASE Goto(p, "makeParents")
  BY <1>1, <1>3, <1>5, GotoStep DEF Step
<1> QED BY <1>4, <1>5 DEF CheckTarget

LEMMA TargetParentsStep == ASSUME Inv, NEW p \in Procs, TargetParents(p) PROVE Inv'
<1>1. proc[p].pc # "idle" /\ UNCHANGED Counters
  BY DEF TargetParents
<1>2. /\ Target(p) \in Path
      /\ disk \subseteq DiskType /\ NoMoreUnfinished(disk) /\ RowInv
      /\ issued \in Nat /\ faults \in Nat
  BY <1>1, BusyHandler
<1>3. RowInv'
  BY <1>2, RowsUnchanged DEF TargetParents
<1>4. ASSUME disk' = WithDirs(Parent(Target(p))),
             Goto(p, IF proc[p].op = "rename" THEN "renameDisk" ELSE "copyDisk")
      PROVE  Inv'
  <2>1. NoMoreUnfinished(disk')
    BY <1>2, <1>4, PathTypes, WithDirsLemma
  <2>2. CASE proc[p].op = "rename"
    BY <1>1, <1>3, <1>4, <2>1, <2>2, GotoStep DEF Step
  <2>3. CASE proc[p].op # "rename"
    BY <1>1, <1>3, <1>4, <2>1, <2>3, GotoStep DEF Step
  <2> QED BY <2>2, <2>3
<1>5. CASE Refuse(p) /\ UNCHANGED disk
  BY <1>1, <1>2, <1>3, <1>5, ReturnStep DEF Refuse, Counters
<1> QED BY <1>4, <1>5 DEF TargetParents

LEMMA RenameStep == ASSUME Inv, NEW p \in Procs, Rename(p) PROVE Inv'
<1>1. proc[p].pc # "idle" /\ proc[p].op = "rename" /\ UNCHANGED Counters
  BY DEF Rename, RenameDisk, RenameRows, AtStep
<1>2. /\ Source(p) \in Path /\ Target(p) \in Path
      /\ disk \subseteq DiskType /\ NoMoreUnfinished(disk) /\ RowInv
      /\ Unfinished(disk) \subseteq 1..issued
      /\ issued \in Nat /\ faults \in Nat
  BY <1>1, BusyHandler DEF Inv, DiskInv
<1>3. CASE RenameDisk(p)
  <2>1. RowInv'
    BY <1>2, <1>3, RowsUnchanged DEF RenameDisk
  <2>2. CASE disk' = RenamedDisk(Source(p), Target(p)) /\ GotoParents(p)
    <3>1. /\ Source(p) \in Seq(Name \cup Nat) /\ Last(Source(p)) \in Name
          /\ Target(p) \in Seq(Name \cup Nat) /\ Target(p) # <<>>
      BY <1>2, PathTypes
    <3>2. \A e \in disk : e.data = Partial => Last(e.path) \in Nat
      BY <1>2 DEF Unfinished
    <3>3. \A e \in disk : e.path = Source(p) => e.data # Partial
      BY <3>1, <3>2, TempAssumption
    <3>4. NoMoreUnfinished(disk')
      BY <1>2, <2>2, <3>1, <3>3, RenamedDiskLemma
    <3> QED BY <1>1, <2>1, <2>2, <3>4, ParentsStep DEF GotoParents, MakesParents
  <2>3. CASE Refuse(p) /\ UNCHANGED disk
    BY <1>1, <1>2, <2>1, <2>3, ReturnStep DEF Refuse, Counters
  <2> QED BY <1>3, <2>2, <2>3 DEF RenameDisk
<1>4. CASE RenameRows(p)
  <2>1. NoMoreUnfinished(disk')
    BY <1>2, <1>4 DEF RenameRows
  <2>2. CASE UniqueViolation(MovedRows(p))
    <3>1. RowInv' /\ Refuse(p)
      BY <1>2, <1>4, <2>2, RowsUnchanged DEF RenameRows
    <3> QED BY <1>1, <1>2, <2>1, <3>1, ReturnStep DEF Refuse, Counters
  <2>3. CASE ~UniqueViolation(MovedRows(p))
    <3>1. rows' = MovedRows(p) /\ UNCHANGED <<shares, nextId>> /\ Succeed(p)
      BY <1>4, <2>3 DEF RenameRows
    <3>2. RowInv'
      BY <1>2, <2>3, <3>1, RowsMoved
    <3> QED BY <1>1, <1>2, <2>1, <3>1, <3>2, ReturnStep DEF Succeed, Counters
  <2> QED BY <2>2, <2>3
<1> QED BY <1>3, <1>4 DEF Rename

\* Whatever part of a tree was copied, no file is left unfinished by it.
LEMMA CopiedSoFarLemma ==
  ASSUME Inv, NEW p \in Procs, proc[p].pc # "idle", NEW asDir \in BOOLEAN,
         NEW done \in CopiedSoFar(Source(p), Target(p), asDir),
         NEW torn \in SUBSET done
  PROVE  /\ NoMoreUnfinished(CopiedDisk(Target(p), asDir, done))
         /\ NoMoreUnfinished(CopiedDisk(Target(p), asDir,
                              (done \ torn) \cup {File(e.path, Torn) : e \in torn}))
<1>1. Source(p) \in Path /\ Target(p) \in Path /\ disk \subseteq DiskType
  BY BusyHandler
<1>2. done \subseteq Copies(Source(p), Target(p))
  BY DEF CopiedSoFar, Fitting
<1>3. \A c \in done : c \in DiskType /\ c.data # Partial
  BY <1>1, <1>2, CopiesLemma
<1> DEFINE mixed == (done \ torn) \cup {File(e.path, Torn) : e \in torn}
<1>4. \A c \in mixed : c \in DiskType /\ c.data # Partial
  <2> TAKE c \in mixed
  <2>1. CASE c \in done
    BY <1>3, <2>1
  <2>2. ASSUME NEW e \in torn, c = File(e.path, Torn)
        PROVE  c \in DiskType /\ c.data # Partial
    <3>1. e.path \in Seq(Name \cup Nat) \ {<<>>}
      BY <1>3 DEF DiskType
    <3> QED BY <2>2, <3>1, DataAssumption DEF File, DiskType, Content
  <2> QED BY <2>1, <2>2
<1> HIDE DEF mixed
<1>5. NoMoreUnfinished(CopiedDisk(Target(p), asDir, mixed))
  BY <1>1, <1>4, CopiedDiskLemma
<1>6. NoMoreUnfinished(CopiedDisk(Target(p), asDir, done))
  BY <1>1, <1>3, CopiedDiskLemma
<1> QED BY <1>5, <1>6 DEF mixed

LEMMA CopyStep == ASSUME Inv, NEW p \in Procs, Copy(p) PROVE Inv'
<1>1. proc[p].pc # "idle" /\ proc[p].op = "copy" /\ UNCHANGED Counters
  BY DEF Copy, CopyDisk, CopyInsert, CopyRollback, CopyChildRows, CopyResult, AtStep
<1>2. /\ Source(p) \in Path /\ Target(p) \in Path
      /\ disk \subseteq DiskType /\ NoMoreUnfinished(disk) /\ RowInv
      /\ issued \in Nat /\ faults \in Nat
      /\ proc[p].dir \in BOOLEAN /\ proc[p].sha \in Data \cup {NoData}
  BY <1>1, BusyHandler DEF ProcType
<1>3. CASE CopyDisk(p)
  <2>1. RowInv'
    BY <1>2, <1>3, RowsUnchanged DEF CopyDisk
  <2>2. CASE /\ disk' = CopiedDisk(Target(p), proc[p].dir, Copies(Source(p), Target(p)))
             /\ Goto(p, "insertRow")
    <3>1. NoMoreUnfinished(disk')
      BY <1>2, <2>2, CopiesLemma, CopiedDiskLemma
    <3> QED BY <1>1, <2>1, <2>2, <3>1, GotoStep DEF Step, SqlSteps
  <2>3. ASSUME NEW done \in CopiedSoFar(Source(p), Target(p), TRUE),
               disk' = CopiedDisk(Target(p), TRUE, done), Refuse(p)
        PROVE  Inv'
    <3>1. NoMoreUnfinished(disk')
      BY <1>1, <2>3, CopiedSoFarLemma
    <3> QED BY <1>1, <1>2, <2>1, <2>3, <3>1, ReturnStep DEF Refuse, Counters
  <2>4. CASE Refuse(p) /\ UNCHANGED disk
    BY <1>1, <1>2, <2>1, <2>4, ReturnStep DEF Refuse, Counters
  <2> QED BY <1>3, <2>2, <2>3, <2>4 DEF CopyDisk
<1>4. CASE CopyInsert(p)
  <2>1. NoMoreUnfinished(disk')
    BY <1>2, <1>4 DEF CopyInsert
  <2>2. CASE Target(p) \in Paths(rows)
    <3>1. RowInv' /\ Goto(p, "rollback")
      BY <1>2, <1>4, <2>2, RowsUnchanged DEF CopyInsert
    <3> QED BY <1>1, <2>1, <3>1, GotoStep DEF Step
  <2>3. CASE Target(p) \notin Paths(rows)
    <3>1. RowInv'
      BY <1>2, <1>4, <2>3, RowAdded DEF CopyInsert
    <3>2. CASE Goto(p, "childRows")
      BY <1>1, <2>1, <3>1, <3>2, GotoStep DEF Step, SqlSteps
    <3>3. CASE GotoParents(p)
      BY <1>1, <2>1, <3>1, <3>3, ParentsStep DEF GotoParents, MakesParents
    <3> QED BY <1>4, <2>3, <3>2, <3>3 DEF CopyInsert
  <2> QED BY <2>2, <2>3
<1>5. CASE CopyRollback(p)
  <2>1. RowInv' /\ NoMoreUnfinished(disk') /\ Refuse(p)
    BY <1>2, <1>5, RowsUnchanged, SubsetOfDisk DEF CopyRollback
  <2> QED BY <1>1, <1>2, <2>1, ReturnStep DEF Refuse, Counters
<1>6. CASE CopyChildRows(p)
  <2>1. RowInv' /\ NoMoreUnfinished(disk') /\ GotoParents(p)
    BY <1>2, <1>6, RowsUnchanged DEF CopyChildRows, store
  <2> QED BY <1>1, <2>1, ParentsStep DEF GotoParents, MakesParents
<1>7. CASE CopyResult(p)
  <2>1. RowInv' /\ NoMoreUnfinished(disk') /\ (Succeed(p) \/ Refuse(p))
    BY <1>2, <1>7, RowsUnchanged DEF CopyResult, store
  <2> QED BY <1>1, <1>2, <2>1, ReturnStep DEF Refuse, Succeed, Counters
<1> QED BY <1>3, <1>4, <1>5, <1>6, <1>7 DEF Copy

LEMMA MkdirStep == ASSUME Inv, NEW p \in Procs, Mkdir(p) PROVE Inv'
<1>1. proc[p].pc # "idle" /\ proc[p].op = "mkdir" /\ UNCHANGED Counters
  BY DEF Mkdir, MkdirCheck, MkdirDisk, MkdirInsert, AtStep
<1>2. /\ Target(p) \in Path
      /\ disk \subseteq DiskType /\ NoMoreUnfinished(disk) /\ RowInv
      /\ issued \in Nat /\ faults \in Nat
  BY <1>1, BusyHandler
<1>3. CASE MkdirCheck(p)
  <2>1. RowInv' /\ NoMoreUnfinished(disk')
    BY <1>2, <1>3, RowsUnchanged DEF MkdirCheck, store
  <2>2. CASE Refuse(p)
    BY <1>1, <1>2, <2>1, <2>2, ReturnStep DEF Refuse, Counters
  <2>3. CASE GotoParents(p)
    BY <1>1, <2>1, <2>3, ParentsStep DEF GotoParents, MakesParents
  <2> QED BY <1>3, <2>2, <2>3 DEF MkdirCheck
<1>4. CASE MkdirDisk(p)
  <2>1. RowInv'
    BY <1>2, <1>4, RowsUnchanged DEF MkdirDisk
  <2>2. CASE disk' = WithDirs(Target(p)) /\ Goto(p, "insertRow")
    <3>1. NoMoreUnfinished(disk')
      BY <1>2, <2>2, WithDirsLemma DEF Path
    <3> QED BY <1>1, <2>1, <2>2, <3>1, GotoStep DEF Step, SqlSteps
  <2>3. CASE Refuse(p) /\ UNCHANGED disk
    BY <1>1, <1>2, <2>1, <2>3, ReturnStep DEF Refuse, Counters
  <2> QED BY <1>4, <2>2, <2>3 DEF MkdirDisk
<1>5. CASE MkdirInsert(p)
  <2>1. NoMoreUnfinished(disk') /\ (Refuse(p) \/ Succeed(p))
    BY <1>2, <1>5 DEF MkdirInsert
  <2>2. RowInv'
    <3>1. CASE Target(p) \in Paths(rows)
      BY <1>2, <1>5, <3>1, RowsUnchanged DEF MkdirInsert
    <3>2. CASE Target(p) \notin Paths(rows)
      BY <1>2, <1>5, <3>2, RowAdded DEF MkdirInsert
    <3> QED BY <3>1, <3>2
  <2> QED BY <1>1, <1>2, <2>1, <2>2, ReturnStep DEF Refuse, Succeed, Counters
<1> QED BY <1>3, <1>4, <1>5 DEF Mkdir

LEMMA ShareStep == ASSUME Inv, NEW p \in Procs, Share(p) PROVE Inv'
<1>1. proc[p].pc # "idle" /\ UNCHANGED Counters
  BY DEF Share, ShareLookup, ShareInsert, AtStep
<1>2. /\ proc[p] \in ProcType /\ Sound(proc[p], issued)
      /\ NoMoreUnfinished(disk) /\ RowInv /\ issued \in Nat /\ faults \in Nat
  BY <1>1, BusyHandler DEF Inv, ProcInv
<1>3. CASE ShareLookup(p)
  <2>1. RowInv' /\ NoMoreUnfinished(disk')
    BY <1>2, <1>3, RowsUnchanged DEF ShareLookup, store
  <2>2. ASSUME NEW r \in At(rows, Target(p)), UNCHANGED answer,
               proc' = [proc EXCEPT ![p].pc = "insertShare", ![p].id = r.id]
        PROVE  Inv'
    <3> DEFINE q == [proc[p] EXCEPT !.pc = "insertShare", !.id = r.id]
    <3>1. r.id \in Nat
      BY <1>2 DEF At, RowInv, RowType
    <3>2. q \in ProcType
      BY <1>2, <3>1 DEF ProcType, Step, SqlSteps
    <3>3. /\ q.pc = "insertShare" /\ q.op = proc[p].op /\ q.from = proc[p].from
          /\ q.to = proc[p].to /\ q.rid = proc[p].rid /\ q.data = proc[p].data
      BY <1>2 DEF ProcType
    <3>4. proc' = [proc EXCEPT ![p] = q]
      BY <2>2 DEF Inv, ProcInv
    <3> HIDE DEF q
    <3>5. Sound(q, issued)
      BY <1>1, <1>2, <3>2, <3>3 DEF Sound
    <3>6. ProcInv'
      BY <1>1, <3>3, <3>4, <3>5, SetProc DEF Inv, Counters
    <3>7. \A x \in Procs : proc'[x].pc = "publish" =>
                             proc[x].pc = "publish" /\ proc'[x].rid = proc[x].rid
      BY <3>3, <3>4 DEF Inv, ProcInv
    <3>8. DiskInv'
      BY <1>1, <1>2, <2>1, <3>7, DiskStep DEF Counters
    <3> QED BY <1>1, <2>1, <2>2, <3>6, <3>8 DEF Inv, Counters
  <2>3. CASE Refuse(p)
    BY <1>1, <1>2, <2>1, <2>3, ReturnStep DEF Refuse, Counters
  <2> QED BY <1>3, <2>2, <2>3 DEF ShareLookup
<1>4. CASE ShareInsert(p)
  <2>1. NoMoreUnfinished(disk') /\ (Refuse(p) \/ Succeed(p))
    BY <1>2, <1>4 DEF ShareInsert
  <2>2. RowInv'
    BY <1>2, <1>4 DEF ShareInsert, RowInv
  <2> QED BY <1>1, <1>2, <2>1, <2>2, ReturnStep DEF Refuse, Succeed, Counters
<1> QED BY <1>3, <1>4 DEF Share

LEMMA FaultStep == ASSUME Inv, NEW p \in Procs, HandlerFault(p) PROVE Inv'
<1>1. proc[p].pc # "idle"
  BY DEF HandlerFault, DbFails, DiskFails, DeleteFailsMidway, CopyFailsMidway, UploadFails,
         Abandon, AtStep, SqlSteps, DiskSteps
<1>2. UNCHANGED issued /\ faults' = faults + 1 /\ UNCHANGED <<rows, shares, nextId>>
  BY DEF HandlerFault, DbFails, DiskFails, DeleteFailsMidway, CopyFailsMidway, UploadFails,
         Abandon, Fault, store
<1>3. /\ disk \subseteq DiskType /\ NoMoreUnfinished(disk) /\ RowInv
      /\ issued \in Nat /\ faults \in Nat /\ proc[p].dir \in BOOLEAN
  BY <1>1, BusyHandler DEF ProcType
<1>4. faults' \in Nat /\ RowInv'
  BY <1>2, <1>3, RowsUnchanged
<1>5. PICK result \in {"none", "ok", "error"} : Return(p, result)
  BY DEF HandlerFault, DbFails, DiskFails, DeleteFailsMidway, CopyFailsMidway, UploadFails,
         Abandon, Refuse
<1>6. NoMoreUnfinished(disk')
  <2>1. CASE disk' \subseteq disk
    BY <1>3, <2>1, SubsetOfDisk
  <2>2. CASE CopyFailsMidway(p)
    <3>1. PICK done \in CopiedSoFar(Source(p), Target(p), proc[p].dir) :
            \E torn \in SUBSET {e \in done : ~e.dir} :
              disk' = CopiedDisk(Target(p), proc[p].dir,
                                 (done \ torn) \cup {File(e.path, Torn) : e \in torn})
      BY <2>2 DEF CopyFailsMidway
    <3>2. PICK torn \in SUBSET {e \in done : ~e.dir} :
            disk' = CopiedDisk(Target(p), proc[p].dir,
                               (done \ torn) \cup {File(e.path, Torn) : e \in torn})
      BY <3>1
    <3>3. torn \in SUBSET done
      OBVIOUS
    <3> QED BY <1>1, <1>3, <3>2, <3>3, CopiedSoFarLemma
  <2>3. CASE DbFails(p) \/ DiskFails(p) \/ DeleteFailsMidway(p) \/ UploadFails(p) \/ Abandon(p)
    BY <2>1, <2>3 DEF DbFails, DiskFails, DeleteFailsMidway, Leftovers, UploadFails, Abandon, store
  <2> QED BY <2>2, <2>3 DEF HandlerFault
<1> QED BY <1>2, <1>4, <1>5, <1>6, ReturnStep

LEMMA HandlerStepLemma == ASSUME Inv, NEW p \in Procs, HandlerStep(p) PROVE Inv'
BY ParentRowStep, UploadStep, DeleteStep, ReadSourceStep, CheckTargetStep,
   TargetParentsStep, RenameStep, CopyStep, MkdirStep, ShareStep DEF HandlerStep

LEMMA StartStep == ASSUME Inv, NEW p \in Procs, Start(p) PROVE Inv'
<1>1. PICK r \in Requests : proc' = [proc EXCEPT ![p] = Accept(r, issued + 1)]
  BY DEF Start
<1> DEFINE q == Accept(r, issued + 1)
<1>2. /\ r.op \in Ops /\ r.from \in Path /\ r.to \in Path /\ r.over \in BOOLEAN
      /\ r.data \in Data \cup {NoData}
      /\ r.op = "upload" => r.data \in Data
  BY RequestAssumption DEF RequestType
<1>3. FirstStep[r.op] \in {"checkDisk", "checkRow", "readRow"}
  BY <1>2 DEF FirstStep, Ops
<1>4. issued \in Nat /\ issued' = issued + 1 /\ answer' = "none" /\ faults' \in Nat
  BY DEF Start, Inv, ProcInv
<1>5. <<>> \in Seq(Name) /\ r.from \in Seq(Name) /\ r.to \in Seq(Name)
  BY <1>2 DEF Path
<1>6. /\ q.pc = FirstStep[r.op] /\ q.op = r.op /\ q.from = r.from /\ q.to = r.to
      /\ q.data = r.data /\ q.rid = issued + 1 /\ q.k = 0
  BY DEF Accept
<1>7. q \in ProcType
  <2>1. FirstStep[r.op] \in Step
    BY <1>3 DEF Step, SqlSteps
  <2> QED BY <1>2, <1>4, <1>5, <2>1 DEF Accept, ProcType
<1>8. proc' = [proc EXCEPT ![p] = q]
  BY <1>1
<1> HIDE DEF q
<1>9. Sound(q, issued')
  BY <1>2, <1>3, <1>4, <1>6, <1>7 DEF Sound
<1>10. ProcInv'
  <2>1. ASSUME NEW x \in Procs PROVE Sound(proc'[x], issued')
    <3>1. CASE x = p
      BY <1>8, <1>9, <3>1 DEF Inv, ProcInv
    <3>2. CASE x # p
      <4>1. proc'[x] = proc[x] /\ Sound(proc[x], issued)
        BY <1>8, <3>2 DEF Inv, ProcInv
      <4> QED BY <1>4, <4>1 DEF Sound
    <3> QED BY <3>1, <3>2
  <2>2. ASSUME NEW x \in Procs, NEW y \in Procs, x # y,
               proc'[x].pc # "idle", proc'[y].pc # "idle"
        PROVE  proc'[x].rid # proc'[y].rid
    <3>1. ASSUME NEW z \in Procs, z # p, proc'[z].pc # "idle"
          PROVE  proc'[z] = proc[z] /\ proc[z].rid \in 1..issued
      BY <1>8, <3>1 DEF Inv, ProcInv, Sound
    <3>2. proc'[p].rid = issued + 1
      BY <1>6, <1>8 DEF Inv, ProcInv
    <3>3. CASE x # p /\ y # p
      BY <2>2, <3>1, <3>3 DEF Inv, ProcInv
    <3>4. CASE x = p
      BY <1>4, <2>2, <3>1, <3>2, <3>4
    <3>5. CASE y = p
      BY <1>4, <2>2, <3>1, <3>2, <3>5
    <3> QED BY <3>3, <3>4, <3>5
  <2>3. proc' \in [Procs -> ProcType]
    BY <1>7, <1>8 DEF Inv, ProcInv
  <2> QED BY <1>4, <2>1, <2>2, <2>3 DEF ProcInv
<1>11. RowInv' /\ UNCHANGED disk
  BY RowsUnchanged DEF Start, store, Inv
<1>12. \A x \in Procs : proc'[x].pc = "publish" =>
                           proc[x].pc = "publish" /\ proc'[x].rid = proc[x].rid
  BY <1>3, <1>6, <1>8 DEF Inv, ProcInv
<1>13. DiskInv'
  <2>1. NoMoreUnfinished(disk')
    BY <1>11, SubsetOfDisk DEF Inv, DiskInv
  <2> QED BY <1>4, <1>12, <2>1, DiskStep
<1> QED BY <1>4, <1>10, <1>11, <1>13 DEF Inv

LEMMA InitLemma == Init => Inv
<1> SUFFICES ASSUME Init PROVE Inv
  OBVIOUS
<1>1. \A i \in DOMAIN Stored : Stored[i] \in EntryType /\ i \in 1..Len(Stored)
  BY StoredAssumption, LenProperties, ElementOfSeq
<1>2. Len(Stored) \in Nat
  BY StoredAssumption, LenProperties
<1> DEFINE R(i) == Row(Stored[i].path, i, Stored[i].dir, Stored[i].data)
<1>3. \A i \in DOMAIN Stored : R(i) \in RowType /\ R(i).id = i /\ R(i).path = Stored[i].path
  BY <1>1 DEF Row, RowType, EntryType
<1>4. RowInv
  <2>1. rows = {R(i) : i \in DOMAIN Stored} /\ nextId = Len(Stored) + 1 /\ shares = {}
    BY DEF Init
  <2> HIDE DEF R
  <2>2. rows \subseteq RowType
    BY <1>3, <2>1
  <2>3. \A r, s \in rows : (r.path = s.path \/ r.id = s.id) => r = s
    BY <1>3, <2>1, StoredAssumption
  <2>4. \A r \in rows : r.id < nextId
    BY <1>1, <1>2, <1>3, <2>1
  <2> QED BY <1>2, <2>1, <2>2, <2>3, <2>4 DEF RowInv
<1>5. ProcInv
  <2>1. Sound(Idle, 0) /\ Idle.pc = "idle"
    BY IdleSound DEF Idle
  <2>2. proc = [p \in Procs |-> Idle] /\ issued = 0
    BY DEF Init
  <2> QED BY <2>1, <2>2 DEF ProcInv, Sound
<1>6. DiskInv
  <2>1. disk = {Stored[i] : i \in DOMAIN Stored}
    BY DEF Init
  <2>2. \A i \in DOMAIN Stored : Stored[i] \in DiskType /\ Stored[i].data # Partial
    <3> TAKE i \in DOMAIN Stored
    <3>1. Stored[i].path \in Path /\ Stored[i] \in EntryType
      BY <1>1 DEF EntryType
    <3>2. Stored[i].path \in Seq(Name \cup Nat) \ {<<>>}
      BY <3>1, PathTypes
    <3> QED BY <3>1, <3>2, DataAssumption DEF EntryType, DiskType, Content
  <2>3. disk \subseteq DiskType /\ Unfinished(disk) = {}
    BY <2>1, <2>2 DEF Unfinished
  <2> QED BY <2>3 DEF DiskInv
<1> QED BY <1>4, <1>5, <1>6 DEF Inv, Init

LEMMA NextLemma == Inv /\ [Next]_vars => Inv'
<1> SUFFICES ASSUME Inv, [Next]_vars PROVE Inv'
  OBVIOUS
<1>1. CASE UNCHANGED vars
  BY <1>1 DEF vars, Inv, ProcInv, RowInv, DiskInv, Unfinished
<1>2. ASSUME NEW p \in Procs, Start(p) PROVE Inv'
  BY <1>2, StartStep
<1>3. ASSUME NEW p \in Procs, HandlerStep(p) PROVE Inv'
  BY <1>3, HandlerStepLemma
<1>4. ASSUME NEW p \in Procs, HandlerFault(p) PROVE Inv'
  BY <1>4, FaultStep
<1> QED BY <1>1, <1>2, <1>3, <1>4 DEF Next

\* Types of the handlers' state, for every set of clients, requests, contents
\* and faults: in particular every row a handler makes has a client's path,
\* and no row has the checksum of an incomplete file.
THEOREM FilesTypeCorrect == Spec => []TypeOK
<1>1. Spec => []Inv
  BY InitLemma, NextLemma, PTL DEF Spec
<1> QED BY <1>1, InvImpliesTypeOK, PTL

-----------------------------------------------------------------------------
(* The shape of the disk under the handlers: every entry has one path and   *)
(* lives in directories, and a temporary file is a file with the number of  *)
(* an upload that has come to create it.  An operating system guarantees    *)
(* the first; here it is a statement about the operations as modelled.      *)

Segment == Name \cup Nat

DirIn(S, q) == \E d \in S : d.path = q /\ d.dir

\* One entry per path, each in directories up to the root.
Tree(S) ==
  /\ \A d, e \in S : d.path = e.path => d = e
  /\ \A e \in S : \A q \in Ancestors(e.path) : DirIn(S, q)

TempNos(S) == {Last(e.path) : e \in {d \in S : IsTemp(d.path)}}

Shaped(S) ==
  /\ S \subseteq DiskType
  /\ Tree(S)
  /\ \A e \in S : IsTemp(e.path) => ~e.dir

\* S is a disk of this shape that has no temporary file of another upload.
Follows(S) == Shaped(S) /\ TempNos(S) \subseteq TempNos(disk)

\* A handler that has not come to create a temporary file, and never will if
\* it is no upload's.
Early(q) == q.pc \notin {"idle", "stream", "publish", "upsert"}

TempsInv ==
  /\ TempNos(disk) \subseteq 1..issued
  /\ \A p \in Procs : Early(proc[p]) => proc[p].rid \notin TempNos(disk)

\* rename and copy refuse to put a tree into itself.
AcrossInv ==
  \A p \in Procs :
    (proc[p].pc # "idle" /\ proc[p].op \in {"rename", "copy"})
      => ~AtOrUnder(proc[p].from, proc[p].to)

TreeInv == Shaped(disk) /\ TempsInv /\ AcrossInv

-----------------------------------------------------------------------------
(* What the operations of the file system make of a tree.                  *)

LEMMA Entries ==
  ASSUME NEW S, S \subseteq DiskType, NEW e \in S
  PROVE  e.path \in Seq(Segment) /\ e.path # <<>> /\ e.dir \in BOOLEAN /\ e.data \in Content
BY DEF DiskType, Segment

\* In a tree, what is above an entry is a directory.
LEMMA AboveIsDir ==
  ASSUME NEW S, S \subseteq DiskType, Tree(S), NEW e \in S,
         NEW q \in Seq(Segment), q # <<>>, Under(q, e.path)
  PROVE  DirIn(S, q) /\ \A d \in S : d.path = q => d.dir
<1>1. q \in Ancestors(e.path)
  BY Entries, AncestorsAbove
<1>2. PICK d \in S : d.path = q /\ d.dir
  BY <1>1 DEF Tree, DirIn
<1> QED BY <1>2 DEF Tree, DirIn

\* Entries go, but not a directory above one that stays.
LEMMA PartOfTree ==
  ASSUME Shaped(disk), NEW S, S \subseteq disk,
         \A e \in S, d \in disk : Under(d.path, e.path) => d \in S
  PROVE  Follows(S)
<1>1. ASSUME NEW e \in S, NEW q \in Ancestors(e.path) PROVE DirIn(S, q)
  <2>1. e.path \in Seq(Segment)
    BY Entries DEF Shaped
  <2>2. Under(q, e.path)
    BY <2>1, AncestorsArePaths
  <2>3. PICK d \in disk : d.path = q /\ d.dir
    BY DEF Shaped, Tree, DirIn
  <2> QED BY <2>2, <2>3 DEF DirIn
<1>2. Tree(S)
  BY <1>1 DEF Shaped, Tree
<1> QED BY <1>2 DEF Follows, Shaped, TempNos

LEMMA SameTreeFollows == ASSUME Shaped(disk) PROVE Follows(disk)
BY PartOfTree

LEMMA SubtreeGone ==
  ASSUME Shaped(disk), NEW path \in Seq(Segment)
  PROVE  Follows(disk \ Subtree(disk, path))
<1> DEFINE S == disk \ Subtree(disk, path)
<1>1. ASSUME NEW e \in S, NEW d \in disk, Under(d.path, e.path) PROVE d \in S
  <2>1. e.path \in Seq(Segment) /\ d.path \in Seq(Segment)
    BY Entries DEF Shaped
  <2>2. AtOrUnder(path, d.path) => AtOrUnder(path, e.path)
    BY <1>1, <2>1, UnderTrans DEF AtOrUnder
  <2> QED BY <2>2 DEF Subtree
<1> QED BY <1>1, PartOfTree

LEMMA LeftoversLemma ==
  ASSUME Shaped(disk), NEW path, NEW S \in Leftovers(path)
  PROVE  Follows(S)
<1>1. PICK g \in SUBSET Subtree(disk, path) :
        S = disk \ g /\ \A e \in disk \ g, d \in g : ~Under(d.path, e.path)
  BY DEF Leftovers
<1> QED BY <1>1, PartOfTree

\* A file whose name is a temporary one has nothing below it.
LEMMA TempGone ==
  ASSUME Shaped(disk), NEW path \in Seq(Segment), path # <<>>, IsTemp(path)
  PROVE  Follows(disk \ At(disk, path))
<1> DEFINE S == disk \ At(disk, path)
<1>1. ASSUME NEW e \in S, NEW d \in disk, Under(d.path, e.path) PROVE d \in S
  <2>1. d.path \in Seq(Segment) /\ d.path # <<>>
    BY Entries DEF Shaped
  <2>2. d.dir
    BY <1>1, <2>1, AboveIsDir DEF Shaped
  <2>3. ~IsTemp(d.path)
    BY <2>2 DEF Shaped
  <2> QED BY <2>3 DEF At
<1> QED BY <1>1, PartOfTree

\* create_dir_all: the directory and all above it are there afterwards.
LEMMA WithDirsFollows ==
  ASSUME Shaped(disk), NEW path \in Seq(Name), CanMakeDirs(path),
         NEW B, B = WithDirs(path)
  PROVE  /\ Follows(B) /\ disk \subseteq B
         /\ \A q \in Ancestors(path) : DirIn(B, q)
         /\ path # <<>> => DirIn(B, path)
<1>1. CASE path = <<>>
  <2>1. Ancestors(path) = {}
    BY <1>1 DEF Ancestors
  <2>2. B = disk
    BY <1>1 DEF WithDirs
  <2> QED BY <1>1, <2>1, <2>2, SameTreeFollows
<1>2. CASE path # <<>>
  <2> DEFINE asked == Ancestors(path) \cup {path}
  <2>1. B = disk \cup {Dir(q) : q \in MissingDirs(path)}
    BY <1>2 DEF WithDirs
  <2>2. ASSUME NEW q \in asked
        PROVE  q \in Path /\ q \in Seq(Segment) /\ q # <<>> /\ AtOrUnder(q, path)
    <3>1. q \in Seq(Name) /\ q # <<>> /\ AtOrUnder(q, path)
      BY <1>2, AncestorsArePaths DEF AtOrUnder
    <3> QED BY <3>1, PathTypes DEF Path, Segment
  <2>3. path \in Seq(Segment)
    BY <2>2
  <2>4. ASSUME NEW q \in asked PROVE DirIn(B, q)
    <3>1. CASE q \in MissingDirs(path)
      <4>1. Dir(q) \in B /\ Dir(q).path = q /\ Dir(q).dir
        BY <2>1, <3>1 DEF Dir
      <4> QED BY <4>1 DEF DirIn
    <3>2. CASE q \notin MissingDirs(path)
      <4>1. PICK e \in disk : e.path = q
        BY <3>2 DEF MissingDirs, Paths
      <4>2. e.dir
        BY <1>2, <2>2, <4>1 DEF CanMakeDirs
      <4> QED BY <2>1, <4>1, <4>2 DEF DirIn
    <3> QED BY <3>1, <3>2
  <2>5. ASSUME NEW q \in MissingDirs(path)
        PROVE  /\ q \in asked /\ q \notin Paths(disk)
               /\ Dir(q) \in DiskType /\ Dir(q).path = q /\ Dir(q).dir /\ ~IsTemp(q)
    <3>1. q \in asked /\ q \notin Paths(disk)
      BY DEF MissingDirs
    <3>2. q \in Seq(Name \cup Nat) \ {<<>>} /\ Last(q) \in Name
      BY <2>2, <3>1, PathTypes
    <3> QED BY <3>1, <3>2 DEF Dir, DiskType, Content, IsTemp
  <2> HIDE DEF asked
  <2>6. B \subseteq DiskType
    BY <2>1, <2>5 DEF Shaped
  <2>7. \A e \in B : IsTemp(e.path) => e \in disk
    BY <2>1, <2>5
  <2>8. \A d, e \in B : d.path = e.path => d = e
    <3>1. \A e \in B : e \in disk \/ (e = Dir(e.path) /\ e.path \notin Paths(disk))
      BY <2>1, <2>5
    <3>2. \A d, e \in disk : d.path = e.path => d = e
      BY DEF Shaped, Tree
    <3> QED BY <3>1, <3>2 DEF Paths
  <2>9. ASSUME NEW e \in B, NEW q \in Ancestors(e.path) PROVE DirIn(B, q)
    <3>1. CASE e \in disk
      BY <2>1, <3>1 DEF Shaped, Tree, DirIn
    <3>2. CASE e \notin disk
      <4>1. PICK r \in MissingDirs(path) : e = Dir(r)
        BY <2>1, <3>2
      <4>2. e.path = r /\ r \in Seq(Segment) /\ AtOrUnder(r, path)
        BY <2>2, <2>5, <4>1
      <4>3. q \in Seq(Segment) /\ q # <<>> /\ Under(q, r)
        BY <4>2, AncestorsArePaths
      <4>4. Under(q, path)
        BY <2>3, <4>2, <4>3, UnderTrans
      <4>5. q \in Ancestors(path)
        BY <2>3, <4>3, <4>4, AncestorsAbove
      <4> QED BY <2>4, <4>5 DEF asked
    <3> QED BY <3>1, <3>2
  <2>10. Shaped(B)
    BY <2>6, <2>7, <2>8, <2>9 DEF Shaped, Tree
  <2>11. TempNos(B) \subseteq TempNos(disk)
    BY <2>7 DEF TempNos
  <2> QED BY <2>1, <2>4, <2>10, <2>11 DEF Follows, asked
<1> QED BY <1>1, <1>2

\* What an entry needs of the directory it is put into.
LEMMA DirAbove ==
  ASSUME Shaped(disk), NEW path \in Seq(Segment), path # <<>>, IsDirAt(Parent(path)),
         NEW q \in Seq(Segment), q # <<>>, Under(q, path)
  PROVE  \E d \in disk : d.path = q /\ d.dir /\ ~AtOrUnder(path, d.path)
<1>1. Parent(path) \in Seq(Segment) /\ AtOrUnder(q, Parent(path))
  BY ParentProperties, UnderParent
<1>2. Parent(path) # <<>>
  <2>1. <<>> \in Seq(Segment)
    OBVIOUS
  <2>2. Under(q, <<>>) => Len(q) < Len(<<>>)
    BY <2>1, UnderIsLonger
  <2>3. Len(q) \in Nat
    BY LenProperties
  <2> QED BY <1>1, <2>2, <2>3 DEF AtOrUnder
<1>3. PICK u \in disk : u.path = Parent(path) /\ u.dir
  BY <1>2 DEF IsDirAt, At
<1>4. DirIn(disk, q)
  <2>1. CASE q = Parent(path)
    BY <1>3, <2>1 DEF DirIn
  <2>2. CASE Under(q, Parent(path))
    BY <1>3, <2>2, AboveIsDir DEF Shaped
  <2> QED BY <1>1, <2>1, <2>2 DEF AtOrUnder
<1>5. ~AtOrUnder(path, q)
  BY UnderIrreflexive
<1> QED BY <1>4, <1>5 DEF DirIn

\* A new file in an existing directory.
LEMMA FileAdded ==
  ASSUME Shaped(disk), NEW path \in Seq(Segment), path # <<>>, IsDirAt(Parent(path)),
         path \notin Paths(disk), NEW data \in Content
  PROVE  /\ Shaped(disk \cup {File(path, data)})
         /\ TempNos(disk \cup {File(path, data)}) \subseteq TempNos(disk) \cup {Last(path)}
<1> DEFINE new == File(path, data)
           S == disk \cup {new}
<1>1. new \in DiskType /\ new.path = path /\ ~new.dir
  BY DEF File, DiskType, Segment
<1>2. S = disk \cup {new}
  OBVIOUS
<1> HIDE DEF new, S
<1>3. \A d, e \in S : d.path = e.path => d = e
  BY <1>1, <1>2 DEF Shaped, Tree, Paths
<1>4. ASSUME NEW e \in S, NEW q \in Ancestors(e.path) PROVE DirIn(S, q)
  <2>1. CASE e \in disk
    BY <1>2, <2>1 DEF Shaped, Tree, DirIn
  <2>2. CASE e = new
    <3>1. q \in Seq(Segment) /\ q # <<>> /\ Under(q, path)
      BY <1>1, <2>2, AncestorsArePaths
    <3> QED BY <1>2, <3>1, DirAbove DEF DirIn
  <2> QED BY <1>2, <2>1, <2>2
<1>5. Shaped(S) /\ TempNos(S) \subseteq TempNos(disk) \cup {Last(path)}
  BY <1>1, <1>2, <1>3, <1>4 DEF Shaped, Tree, TempNos
<1> QED BY <1>5 DEF S, new

\* rename(2): what is moved takes what is below it along, and what it replaces
\* is a file or an empty directory.
LEMMA RenamedFollows ==
  ASSUME Shaped(disk), NEW from \in Seq(Segment), from # <<>>, NEW to \in Path,
         CanRename(from, to), ~AtOrUnder(from, to)
  PROVE  Follows(RenamedDisk(from, to))
<1> DEFINE M(e) == [e EXCEPT !.path = Rebase(@, from, to)]
           stays == {e \in disk : ~AtOrUnder(from, e.path) /\ e.path # to}
           S == stays \cup {M(e) : e \in Subtree(disk, from)}
<1>1. RenamedDisk(from, to) = S
  BY DEF RenamedDisk
<1>2. to \in Seq(Segment) /\ to # <<>> /\ Last(to) \in Name
  BY PathTypes DEF Segment
<1>3. PICK s \in disk : s.path = from
  BY DEF CanRename, At
<1>4. \A t \in disk : t.path = to => s.dir = t.dir /\ (t.dir => Subtree(disk, to) = {t})
  BY <1>3 DEF CanRename, At
<1>5. ASSUME NEW e \in disk PROVE ~Under(to, e.path)
  <2>1. e.path \in Seq(Segment)
    BY Entries DEF Shaped
  <2> SUFFICES ASSUME Under(to, e.path) PROVE FALSE
    OBVIOUS
  <2>2. PICK t \in disk : t.path = to /\ t.dir
    BY <1>2, AboveIsDir DEF Shaped, DirIn
  <2>3. e \in Subtree(disk, to)
    BY DEF Subtree, AtOrUnder
  <2>4. e = t
    BY <1>4, <2>2, <2>3
  <2> QED BY <1>2, <2>2, <2>4, UnderIrreflexive
<1>6. ASSUME NEW e \in Subtree(disk, from)
      PROVE  /\ e \in disk /\ e.path \in Seq(Segment) /\ AtOrUnder(from, e.path)
             /\ M(e) \in DiskType
             /\ M(e).path = Rebase(e.path, from, to)
             /\ M(e).dir = e.dir /\ M(e).data = e.data
             /\ AtOrUnder(to, M(e).path)
             /\ IsTemp(M(e).path) => IsTemp(e.path) /\ Last(M(e).path) = Last(e.path)
  <2>1. e \in DiskType /\ e \in disk /\ AtOrUnder(from, e.path)
    BY DEF Subtree, Shaped
  <2>2. e.path \in Seq(Segment)
    BY <2>1, Entries DEF Shaped
  <2>3. /\ Rebase(e.path, from, to) \in Seq(Segment)
        /\ Rebase(e.path, from, to) # <<>>
        /\ Under(from, e.path) => Last(Rebase(e.path, from, to)) = Last(e.path)
        /\ e.path = from => Rebase(e.path, from, to) = to
    BY <1>2, <2>2, RebaseProperties
  <2>4. M(e).path = Rebase(e.path, from, to) /\ M(e).data = e.data /\ M(e).dir = e.dir
    BY <2>1 DEF DiskType
  <2>5. M(e) \in DiskType
    BY <2>1, <2>3 DEF DiskType, Segment
  <2>6. AtOrUnder(to, Rebase(e.path, from, to))
    BY <1>2, <2>1, <2>2, RebaseBelow
  <2> HIDE DEF M
  <2>7. IsTemp(M(e).path) => IsTemp(e.path) /\ Last(M(e).path) = Last(e.path)
    BY <1>2, <2>1, <2>3, <2>4 DEF IsTemp, AtOrUnder
  <2> QED BY <2>1, <2>2, <2>4, <2>5, <2>6, <2>7
<1>7. \A e \in S : e \in stays \/ \E m \in Subtree(disk, from) : e = M(m)
  OBVIOUS
<1>8. \A m \in Subtree(disk, from) : M(m) \in S
  OBVIOUS
<1>9. stays \subseteq disk /\ stays \subseteq S /\ \A e \in stays : ~AtOrUnder(from, e.path) /\ e.path # to
  OBVIOUS
<1>10. \A e \in disk : ~AtOrUnder(from, e.path) /\ e.path # to => e \in S
  OBVIOUS
<1> HIDE DEF S, stays
<1>11. S \subseteq DiskType
  <2> HIDE DEF M
  <2> QED BY <1>6, <1>7, <1>9 DEF Shaped
<1>12. \A e \in stays, m \in Subtree(disk, from) : e.path # M(m).path
  <2> HIDE DEF M
  <2> QED BY <1>5, <1>6, <1>9 DEF AtOrUnder
<1>13. ASSUME NEW m \in Subtree(disk, from), NEW n \in Subtree(disk, from), M(m).path = M(n).path
       PROVE  m = n
  <2>1. m.path = n.path
    BY <1>2, <1>6, <1>13, RebaseInjective
  <2> QED BY <1>6, <2>1 DEF Shaped, Tree
<1>14. \A d, e \in S : d.path = e.path => d = e
  <2>1. \A d, e \in disk : d.path = e.path => d = e
    BY DEF Shaped, Tree
  <2> HIDE DEF M
  <2> QED BY <1>7, <1>9, <1>12, <1>13, <2>1
<1>15. ASSUME NEW e \in S, NEW q \in Ancestors(e.path) PROVE DirIn(S, q)
  <2>1. e.path \in Seq(Segment)
    BY <1>11, Entries
  <2>2. q \in Seq(Segment) /\ q # <<>> /\ Under(q, e.path)
    BY <2>1, AncestorsArePaths
  <2>3. CASE e \in stays
    <3>1. PICK d \in disk : d.path = q /\ d.dir
      BY <1>9, <2>2, <2>3, AboveIsDir DEF Shaped, DirIn
    <3>2. ~AtOrUnder(from, q)
      BY <1>9, <2>1, <2>2, <2>3, AtOrUnderTrans DEF AtOrUnder
    <3>3. q # to
      BY <1>5, <1>9, <2>2, <2>3
    <3> QED BY <1>10, <3>1, <3>2, <3>3 DEF DirIn
  <2>4. ASSUME NEW m \in Subtree(disk, from), e = M(m) PROVE DirIn(S, q)
    <3>1. e.path = Rebase(m.path, from, to) /\ m.path \in Seq(Segment) /\ AtOrUnder(from, m.path)
            /\ m \in disk
      BY <1>6, <2>4
    <3>2. CASE Under(q, to)
      <4>1. PICK d \in disk : d.path = q /\ d.dir /\ ~AtOrUnder(to, d.path)
        BY <1>2, <2>2, <3>2, DirAbove DEF CanRename
      <4>2. ~AtOrUnder(from, q)
        BY <1>2, <2>2, <3>2, AtOrUnderTrans DEF AtOrUnder
      <4> QED BY <1>10, <4>1, <4>2 DEF DirIn, AtOrUnder
    <3>3. CASE ~Under(q, to)
      <4>1. PICK b \in Seq(Segment) : AtOrUnder(from, b) /\ Under(b, m.path) /\ q = Rebase(b, from, to)
        BY <1>2, <2>2, <3>1, <3>3, RebaseAbove
      <4>2. b # <<>>
        <5>1. Len(from) \in Nat \ {0} /\ Len(b) \in Nat
          BY LenProperties, EmptySeq
        <5>2. Len(from) <= Len(b)
          BY <4>1, <5>1, UnderIsLonger DEF AtOrUnder
        <5> QED BY <5>1, <5>2
      <4>3. PICK d \in disk : d.path = b /\ d.dir
        BY <3>1, <4>1, <4>2, AboveIsDir DEF Shaped, DirIn
      <4>4. d \in Subtree(disk, from)
        BY <4>1, <4>3 DEF Subtree
      <4>5. M(d).path = q /\ M(d).dir
        BY <1>6, <4>1, <4>3, <4>4
      <4>6. M(d) \in S
        BY <1>8, <4>4
      <4> QED BY <4>5, <4>6 DEF DirIn
    <3> QED BY <3>2, <3>3
  <2> QED BY <1>7, <2>3, <2>4
<1>16. \A e \in S : IsTemp(e.path) => ~e.dir /\ Last(e.path) \in TempNos(disk)
  <2>1. \A e \in disk : IsTemp(e.path) => ~e.dir /\ Last(e.path) \in TempNos(disk)
    BY DEF Shaped, TempNos
  <2> HIDE DEF M
  <2> QED BY <1>6, <1>7, <1>9, <2>1
<1>17. Follows(S)
  BY <1>11, <1>14, <1>15, <1>16 DEF Follows, Shaped, Tree, TempNos
<1> QED BY <1>1, <1>17

\* A tree is laid over another one: where both have an entry it is of the same
\* kind, and what is above an entry of the one is in the one or in the other.
Fits(B, C) ==
  /\ C \subseteq DiskType
  /\ \A c, d \in C : c.path = d.path => c = d
  /\ \A c \in C, e \in B : c.path = e.path => c.dir = e.dir
  /\ \A c \in C : \A q \in Ancestors(c.path) : DirIn(B, q) \/ DirIn(C, q)
  /\ \A c \in C : IsTemp(c.path) => ~c.dir /\ Last(c.path) \in TempNos(disk)

Over(B, C) == {e \in B : e.path \notin Paths(C)} \cup C

LEMMA Overlaid ==
  ASSUME NEW B, Follows(B), NEW C, Fits(B, C)
  PROVE  Follows(Over(B, C))
<1> DEFINE S == Over(B, C)
<1>a. S = {e \in B : e.path \notin Paths(C)} \cup C
  BY DEF Over
<1> HIDE DEF S
<1>1. S \subseteq DiskType
  BY <1>a DEF Follows, Shaped, Fits
<1>2. \A d, e \in S : d.path = e.path => d = e
  BY <1>a DEF Follows, Shaped, Tree, Paths, Fits
<1>3. ASSUME NEW q, DirIn(B, q) \/ DirIn(C, q) PROVE DirIn(S, q)
  <2>1. CASE DirIn(C, q)
    BY <1>a, <2>1 DEF DirIn
  <2>2. CASE DirIn(B, q)
    <3>1. PICK d \in B : d.path = q /\ d.dir
      BY <2>2 DEF DirIn
    <3>2. CASE d.path \in Paths(C)
      <4>1. PICK c \in C : c.path = d.path
        BY <3>2 DEF Paths
      <4>2. c.dir = d.dir
        BY <4>1 DEF Fits
      <4> QED BY <1>a, <3>1, <4>1, <4>2 DEF DirIn
    <3> QED BY <1>a, <3>1, <3>2 DEF DirIn
  <2> QED BY <1>3, <2>1, <2>2
<1>4. ASSUME NEW e \in S, NEW q \in Ancestors(e.path) PROVE DirIn(S, q)
  BY <1>3, <1>a DEF Follows, Shaped, Tree, Fits
<1>5. \A e \in S : IsTemp(e.path) => ~e.dir /\ Last(e.path) \in TempNos(disk)
  BY <1>a DEF Follows, Shaped, TempNos, Fits
<1> QED BY <1>1, <1>2, <1>4, <1>5 DEF Follows, Shaped, Tree, TempNos, S

\* The copies of a tree, one by one.
LEMMA CopiesShape ==
  ASSUME Shaped(disk), NEW from \in Path, NEW to \in Path,
         NEW C, C = Copies(from, to)
  PROVE  /\ C \subseteq DiskType
         /\ \A c, d \in C : c.path = d.path => c = d
         /\ \A c \in C : IsTemp(c.path) => ~c.dir /\ Last(c.path) \in TempNos(disk)
         /\ \A c \in C : \A q \in Ancestors(c.path) :
              Under(q, to) \/ \E d \in C : d.path = q /\ d.dir /\ Under(d.path, c.path)
<1> DEFINE K(e) == [path |-> Rebase(e.path, from, to), dir |-> e.dir, data |-> CopiedData(e.data)]
<1>1. C = {K(e) : e \in Subtree(disk, from)}
  BY DEF Copies
<1>2. /\ from \in Seq(Segment) /\ from # <<>>
      /\ to \in Seq(Segment) /\ to # <<>> /\ Last(to) \in Name
  BY PathTypes DEF Segment, Path
<1>3. \A e : K(e).path = Rebase(e.path, from, to) /\ K(e).dir = e.dir
  OBVIOUS
<1>4. C \subseteq DiskType
  BY CopiesLemma DEF Shaped
<1> HIDE DEF K
<1>5. ASSUME NEW e \in Subtree(disk, from)
      PROVE  e \in disk /\ e.path \in Seq(Segment) /\ AtOrUnder(from, e.path)
  BY Entries DEF Subtree, Shaped
<1>6. ASSUME NEW d \in Subtree(disk, from), NEW e \in Subtree(disk, from), K(d).path = K(e).path
      PROVE  d = e
  <2>1. d.path = e.path
    BY <1>2, <1>3, <1>5, <1>6, RebaseInjective
  <2> QED BY <1>5, <2>1 DEF Shaped, Tree
<1>7. \A c, d \in C : c.path = d.path => c = d
  BY <1>1, <1>6
<1>8. ASSUME NEW e \in Subtree(disk, from), IsTemp(K(e).path)
      PROVE  ~K(e).dir /\ Last(K(e).path) \in TempNos(disk)
  <2>1. /\ Under(from, e.path) => Last(Rebase(e.path, from, to)) = Last(e.path)
        /\ e.path = from => Rebase(e.path, from, to) = to
    BY <1>2, <1>5, RebaseProperties
  <2>2. IsTemp(e.path) /\ Last(K(e).path) = Last(e.path)
    BY <1>2, <1>3, <1>5, <1>8, <2>1 DEF IsTemp, AtOrUnder
  <2> QED BY <1>3, <1>5, <2>2 DEF Shaped, TempNos
<1>9. \A c \in C : IsTemp(c.path) => ~c.dir /\ Last(c.path) \in TempNos(disk)
  BY <1>1, <1>8
<1>10. ASSUME NEW e \in Subtree(disk, from), NEW q \in Ancestors(K(e).path), ~Under(q, to)
       PROVE  \E d \in C : d.path = q /\ d.dir /\ Under(d.path, K(e).path)
  <2>1. K(e).path = Rebase(e.path, from, to) /\ K(e).path \in Seq(Segment)
    BY <1>1, <1>3, <1>4, Entries
  <2>2. q \in Seq(Segment) /\ q # <<>> /\ Under(q, K(e).path)
    BY <2>1, AncestorsArePaths
  <2>3. PICK b \in Seq(Segment) : AtOrUnder(from, b) /\ Under(b, e.path) /\ q = Rebase(b, from, to)
    BY <1>2, <1>5, <1>10, <2>1, <2>2, RebaseAbove
  <2>4. b # <<>>
    <3>1. Len(from) \in Nat \ {0} /\ Len(b) \in Nat
      BY <1>2, LenProperties, EmptySeq
    <3>2. Len(from) <= Len(b)
      BY <1>2, <2>3, <3>1, UnderIsLonger DEF AtOrUnder
    <3> QED BY <3>1, <3>2
  <2>5. PICK d \in disk : d.path = b /\ d.dir
    BY <1>5, <2>3, <2>4, AboveIsDir DEF Shaped, DirIn
  <2>6. d \in Subtree(disk, from)
    BY <2>3, <2>5 DEF Subtree
  <2>7. K(d) \in C /\ K(d).path = q /\ K(d).dir
    BY <1>1, <1>3, <2>3, <2>5, <2>6
  <2> QED BY <2>2, <2>7
<1>11. \A c \in C : \A q \in Ancestors(c.path) :
          Under(q, to) \/ \E d \in C : d.path = q /\ d.dir /\ Under(d.path, c.path)
  BY <1>1, <1>10
<1> QED BY <1>4, <1>7, <1>9, <1>11

\* What a copy can have laid over the disk when it stops: a part of the copies
\* that has, of what it has, all that is above, and some files of it torn.
LEMMA CopiedFollows ==
  ASSUME Shaped(disk), NEW from \in Path, NEW to \in Path, NEW asDir \in BOOLEAN,
         CanBeginCopy(to, asDir), NEW done \in CopiedSoFar(from, to, asDir),
         NEW torn, torn \subseteq {e \in done : ~e.dir},
         NEW C, C = (done \ torn) \cup {File(e.path, Torn) : e \in torn}
  PROVE  Follows(CopiedDisk(to, asDir, C))
<1> DEFINE B == CopyBase(to, asDir)
<1>1. to \in Seq(Name) /\ to \in Seq(Segment) /\ to # <<>>
  BY PathTypes DEF Path, Segment
<1>2. Follows(B) /\ \A q \in Seq(Segment) : q # <<>> /\ Under(q, to) => DirIn(B, q)
  <2>1. CASE asDir
    <3>1. CanMakeDirs(to) /\ B = WithDirs(to)
      BY <2>1 DEF CanBeginCopy, CopyBase
    <3>2. Follows(B) /\ \A q \in Ancestors(to) : DirIn(B, q)
      BY <1>1, <3>1, WithDirsFollows
    <3> QED BY <1>1, <3>2, AncestorsAbove
  <2>2. CASE ~asDir
    <3>1. IsDirAt(Parent(to)) /\ B = disk
      BY <2>2 DEF CanBeginCopy, CopyBase
    <3> QED BY <1>1, <3>1, DirAbove, SameTreeFollows DEF DirIn
  <2> QED BY <2>1, <2>2
<1> HIDE DEF B
<1> DEFINE A == Copies(from, to)
<1>3. /\ A \subseteq DiskType
      /\ \A c, d \in A : c.path = d.path => c = d
      /\ \A c \in A : IsTemp(c.path) => ~c.dir /\ Last(c.path) \in TempNos(disk)
      /\ \A c \in A : \A q \in Ancestors(c.path) :
           Under(q, to) \/ \E d \in A : d.path = q /\ d.dir /\ Under(d.path, c.path)
  BY CopiesShape
<1>4. /\ done \subseteq A
      /\ \A c \in done, e \in B : c.path = e.path => c.dir = e.dir
      /\ \A c \in A, d \in done : Under(c.path, d.path) => c \in done
  BY DEF CopiedSoFar, Fitting, B
<1> HIDE DEF A
<1>5. \A e : File(e.path, Torn).path = e.path /\ File(e.path, Torn).dir = FALSE
  BY DEF File
<1>6. \A c \in C : \E d \in done : /\ c.path = d.path /\ c.dir = d.dir /\ c \in DiskType
                                   /\ c = d \/ (c = File(d.path, Torn) /\ d \in torn)
  <2> TAKE c \in C
  <2>1. CASE c \in done
    BY <1>3, <1>4, <2>1
  <2>2. ASSUME NEW e \in torn, c = File(e.path, Torn)
        PROVE  e \in done /\ c.path = e.path /\ c.dir = e.dir /\ c \in DiskType
    <3>1. e \in done /\ e \in DiskType /\ ~e.dir
      BY <1>3, <1>4
    <3>2. e.dir = FALSE /\ e.path \in Seq(Name \cup Nat) \ {<<>>}
      BY <3>1 DEF DiskType
    <3>3. File(e.path, Torn) \in DiskType
      BY <3>2 DEF File, DiskType, Content
    <3> QED BY <1>5, <2>2, <3>1, <3>2, <3>3
  <2> QED BY <2>1, <2>2
<1>7. \A d \in done : \E c \in C : c.path = d.path /\ c.dir = d.dir
  <2> TAKE d \in done
  <2>1. CASE d \in torn
    <3>1. File(d.path, Torn) \in C /\ ~d.dir
      BY <2>1
    <3>2. d \in DiskType
      BY <1>3, <1>4
    <3>3. File(d.path, Torn).path = d.path /\ File(d.path, Torn).dir = d.dir
      BY <1>5, <3>1, <3>2 DEF DiskType
    <3> QED BY <3>1, <3>3
  <2>2. CASE d \notin torn
    BY <2>2
  <2> QED BY <2>1, <2>2
<1>8. ASSUME NEW c \in C, NEW d \in C, c.path = d.path PROVE c = d
  <2>1. PICK a \in done : c.path = a.path /\ (c = a \/ (c = File(a.path, Torn) /\ a \in torn))
    BY <1>6
  <2>2. PICK b \in done : d.path = b.path /\ (d = b \/ (d = File(b.path, Torn) /\ b \in torn))
    BY <1>6
  <2>3. a = b
    BY <1>3, <1>4, <1>8, <2>1, <2>2
  <2>4. ASSUME a \in torn, c = a PROVE c = File(a.path, Torn)
    <3>1. PICK e \in torn : c = File(e.path, Torn)
      BY <2>4
    <3>2. e.path = a.path
      BY <1>5, <2>4, <3>1
    <3> QED BY <3>1, <3>2
  <2>5. ASSUME b \in torn, d = b PROVE d = File(b.path, Torn)
    <3>1. PICK e \in torn : d = File(e.path, Torn)
      BY <2>5
    <3>2. e.path = b.path
      BY <1>5, <2>5, <3>1
    <3> QED BY <3>1, <3>2
  <2> QED BY <2>1, <2>2, <2>3, <2>4, <2>5
<1>9. ASSUME NEW c \in C, NEW q \in Ancestors(c.path) PROVE DirIn(B, q) \/ DirIn(C, q)
  <2>1. PICK a \in done : c.path = a.path
    BY <1>6
  <2>2. a \in A /\ a.path \in Seq(Segment)
    BY <1>3, <1>4, Entries
  <2>3. q \in Seq(Segment) /\ q # <<>>
    BY <2>1, <2>2, AncestorsArePaths
  <2>4. Under(q, to) => DirIn(B, q)
    BY <1>2, <2>3
  <2>5. ASSUME NEW d \in A, d.path = q, d.dir, Under(d.path, a.path) PROVE DirIn(C, q)
    <3>1. d \in done
      BY <1>4, <2>5
    <3> QED BY <1>7, <2>5, <3>1 DEF DirIn
  <2> QED BY <1>3, <2>1, <2>2, <2>4, <2>5
<1>10. C \subseteq DiskType
  BY <1>6
<1>11. \A c \in C, e \in B : c.path = e.path => c.dir = e.dir
  BY <1>4, <1>6
<1>12. \A c \in C : IsTemp(c.path) => ~c.dir /\ Last(c.path) \in TempNos(disk)
  BY <1>3, <1>4, <1>6
<1>13. CopiedDisk(to, asDir, C) = Over(B, C)
  BY DEF CopiedDisk, Over, B
<1> HIDE DEF B
<1>14. Fits(B, C)
  BY <1>8, <1>9, <1>10, <1>11, <1>12 DEF Fits
<1> QED BY <1>2, <1>13, <1>14, Overlaid

\* The bytes of entries change and nothing else of them.
LEMMA SameShape ==
  ASSUME Shaped(disk), NEW S, S \subseteq DiskType,
         \A e \in S : \E d \in disk : e.path = d.path /\ e.dir = d.dir,
         \A d \in disk : \E e \in S : e.path = d.path /\ e.dir = d.dir,
         \A d, e \in S : d.path = e.path => d = e
  PROVE  Follows(S)
<1>1. ASSUME NEW e \in S, NEW q \in Ancestors(e.path) PROVE DirIn(S, q)
  <2>1. PICK d \in disk : e.path = d.path
    OBVIOUS
  <2>2. PICK u \in disk : u.path = q /\ u.dir
    BY <2>1 DEF Shaped, Tree, DirIn
  <2> QED BY <2>2 DEF DirIn
<1>2. \A e \in S : IsTemp(e.path) => ~e.dir /\ Last(e.path) \in TempNos(disk)
  BY DEF Shaped, TempNos
<1> QED BY <1>1, <1>2 DEF Follows, Shaped, Tree, TempNos

-----------------------------------------------------------------------------
(* The steps of a handler.                                                 *)

\* From r to q a handler goes on with its request, or is done with it.
Continues(q, r) ==
  q.pc # "idle" =>
    /\ r.pc # "idle" /\ q.op = r.op /\ q.from = r.from /\ q.to = r.to /\ q.rid = r.rid
    /\ q.data = r.data
    /\ Early(q) => Early(r)

LEMMA ReturnContinues ==
  ASSUME ProcInv, NEW p \in Procs, NEW result, Return(p, result)
  PROVE  \A x \in Procs : Continues(proc'[x], proc[x])
BY DEF ProcInv, Return, Continues, Idle

LEMMA GotoContinues ==
  ASSUME ProcInv, NEW p \in Procs, NEW pc, proc[p].pc # "idle", Goto(p, pc),
         Early(proc[p]) \/ pc \in {"stream", "publish", "upsert"}
  PROVE  \A x \in Procs : Continues(proc'[x], proc[x])
<1> TAKE x \in Procs
<1>1. CASE x # p
  BY <1>1 DEF ProcInv, Goto, Continues
<1>2. CASE x = p
  <2> DEFINE q == [proc[p] EXCEPT !.pc = pc]
  <2>1. proc'[p] = q
    BY DEF ProcInv, Goto
  <2>2. proc[p] \in ProcType
    BY DEF ProcInv
  <2>3. /\ q.pc = pc /\ q.op = proc[p].op /\ q.from = proc[p].from /\ q.to = proc[p].to
        /\ q.rid = proc[p].rid /\ q.data = proc[p].data
    BY <2>2 DEF ProcType
  <2> HIDE DEF q
  <2> QED BY <1>2, <2>1, <2>3 DEF Continues, Early
<1> QED BY <1>1, <1>2

LEMMA ParentsContinues ==
  ASSUME ProcInv, NEW p \in Procs, NEW k, NextParent(p, k), Early(proc[p])
  PROVE  \A x \in Procs : Continues(proc'[x], proc[x])
<1> TAKE x \in Procs
<1>1. CASE x # p
  BY <1>1 DEF ProcInv, NextParent, Continues
<1>2. CASE x = p
  <2> DEFINE pc == ParentsFrom(p, k)
             q == [proc[p] EXCEPT !.k = k, !.pc = pc]
  <2>1. proc'[p] = q
    BY DEF ProcInv, NextParent
  <2>2. proc[p] \in ProcType
    BY DEF ProcInv
  <2> HIDE DEF pc
  <2>3. /\ q.op = proc[p].op /\ q.from = proc[p].from /\ q.to = proc[p].to
        /\ q.rid = proc[p].rid /\ q.data = proc[p].data
    BY <2>2 DEF ProcType
  <2> HIDE DEF q
  <2> QED BY <1>2, <2>1, <2>3 DEF Continues, Early
<1> QED BY <1>1, <1>2

LEMMA HandlerContinues ==
  ASSUME Inv, NEW p \in Procs, HandlerStep(p) \/ HandlerFault(p)
  PROVE  \A x \in Procs : Continues(proc'[x], proc[x])
<1>1. ProcInv
  BY DEF Inv
<1>2. ASSUME NEW pc, Goto(p, pc), Early(proc[p]) \/ (proc[p].pc # "idle" /\ pc \in {"stream", "publish", "upsert"})
      PROVE  \A x \in Procs : Continues(proc'[x], proc[x])
  BY <1>1, <1>2, GotoContinues DEF Early
<1>3. ASSUME NEW result, Return(p, result) PROVE \A x \in Procs : Continues(proc'[x], proc[x])
  BY <1>1, <1>3, ReturnContinues
<1>4. ASSUME NEW k, NextParent(p, k), Early(proc[p])
      PROVE  \A x \in Procs : Continues(proc'[x], proc[x])
  BY <1>1, <1>4, ParentsContinues
<1>5. CASE HandlerFault(p)
  BY <1>3, <1>5 DEF HandlerFault, DbFails, DiskFails, DeleteFailsMidway, CopyFailsMidway,
                    UploadFails, Abandon, Refuse
<1>6. CASE ParentRow(p)
  BY <1>4, <1>6 DEF ParentRow, Early
<1>7. CASE Upload(p)
  BY <1>2, <1>3, <1>4, <1>7
     DEF Upload, UploadCheck, UploadMakeParents, UploadCreateTemp, UploadStream, UploadPublish,
         UploadUpsert, AtStep, Refuse, Succeed, GotoParents, Early
<1>8. CASE Delete(p)
  BY <1>2, <1>3, <1>8 DEF Delete, DeleteCheck, DeleteDisk, DeleteRows, AtStep, Refuse, Succeed, Early
<1>9. CASE ReadSource(p)
  <2>1. proc[p].pc = "readRow"
    BY <1>9 DEF ReadSource
  <2>2. ASSUME NEW r,
               proc' = [proc EXCEPT ![p].pc = "checkTarget", ![p].dir = r.dir, ![p].sha = r.sha]
        PROVE  \A x \in Procs : Continues(proc'[x], proc[x])
    <3> DEFINE q == [proc[p] EXCEPT !.pc = "checkTarget", !.dir = r.dir, !.sha = r.sha]
    <3>1. \A x \in Procs : proc'[x] = IF x = p THEN q ELSE proc[x]
      BY <1>1, <2>2 DEF ProcInv
    <3>2. /\ q.op = proc[p].op /\ q.from = proc[p].from /\ q.to = proc[p].to
          /\ q.rid = proc[p].rid /\ q.data = proc[p].data
      BY <1>1 DEF ProcInv, ProcType
    <3> HIDE DEF q
    <3> QED BY <2>1, <3>1, <3>2 DEF Continues, Early
  <2> QED BY <1>3, <1>9, <2>2 DEF ReadSource, Refuse
<1>10. CASE CheckTarget(p)
  BY <1>2, <1>3, <1>10 DEF CheckTarget, Refuse, Early
<1>11. CASE TargetParents(p)
  BY <1>2, <1>3, <1>11 DEF TargetParents, Refuse, Early
<1>12. CASE Rename(p)
  BY <1>3, <1>4, <1>12 DEF Rename, RenameDisk, RenameRows, AtStep, Refuse, Succeed, GotoParents, Early
<1>13. CASE Copy(p)
  BY <1>2, <1>3, <1>4, <1>13 DEF Copy, CopyDisk, CopyInsert, CopyRollback, CopyChildRows, CopyResult,
                                 AtStep, Refuse, Succeed, GotoParents, Early
<1>14. CASE Mkdir(p)
  BY <1>2, <1>3, <1>4, <1>14 DEF Mkdir, MkdirCheck, MkdirDisk, MkdirInsert, AtStep, Refuse, Succeed,
                                 GotoParents, Early
<1>15. CASE Share(p)
  <2>1. CASE ShareInsert(p)
    BY <1>3, <2>1 DEF ShareInsert, Refuse, Succeed
  <2>2. CASE ShareLookup(p)
    <3>1. proc[p].pc = "readRow"
      BY <2>2 DEF ShareLookup, AtStep
    <3>2. ASSUME NEW r, proc' = [proc EXCEPT ![p].pc = "insertShare", ![p].id = r.id]
          PROVE  \A x \in Procs : Continues(proc'[x], proc[x])
      <4> DEFINE q == [proc[p] EXCEPT !.pc = "insertShare", !.id = r.id]
      <4>1. \A x \in Procs : proc'[x] = IF x = p THEN q ELSE proc[x]
        BY <1>1, <3>2 DEF ProcInv
      <4>2. /\ q.op = proc[p].op /\ q.from = proc[p].from /\ q.to = proc[p].to
            /\ q.rid = proc[p].rid /\ q.data = proc[p].data
        BY <1>1 DEF ProcInv, ProcType
      <4> HIDE DEF q
      <4> QED BY <3>1, <4>1, <4>2 DEF Continues, Early
    <3> QED BY <1>3, <2>2, <3>2 DEF ShareLookup, Refuse
  <2> QED BY <1>15, <2>1, <2>2 DEF Share
<1> QED BY <1>5, <1>6, <1>7, <1>8, <1>9, <1>10, <1>11, <1>12, <1>13, <1>14, <1>15 DEF HandlerStep

\* Only a handler that executes a request takes a step of one.
LEMMA StepOfBusy ==
  ASSUME NEW p \in Procs, HandlerStep(p) \/ HandlerFault(p)
  PROVE  proc[p].pc # "idle"
BY DEF HandlerStep, ParentRow, Upload, UploadCheck, UploadMakeParents, UploadCreateTemp,
       UploadStream, UploadPublish, UploadUpsert, Delete, DeleteCheck, DeleteDisk, DeleteRows,
       ReadSource, CheckTarget, TargetParents, Rename, RenameDisk, RenameRows, Copy, CopyDisk,
       CopyInsert, CopyRollback, CopyChildRows, CopyResult, Mkdir, MkdirCheck, MkdirDisk,
       MkdirInsert, Share, ShareLookup, ShareInsert, HandlerFault, DbFails, DiskFails,
       DeleteFailsMidway, CopyFailsMidway, UploadFails, Abandon, AtStep, Fault, SqlSteps, DiskSteps

LEMMA TreeStep ==
  ASSUME Inv, TreeInv, \A x \in Procs : Continues(proc'[x], proc[x]), UNCHANGED issued,
         Shaped(disk'), NEW p \in Procs, proc[p].pc # "idle",
         TempNos(disk') \subseteq TempNos(disk) \cup
           (IF Early(proc'[p]) THEN {} ELSE {proc[p].rid})
  PROVE  TreeInv'
<1>1. Shaped(disk)'
  BY DEF Shaped, Tree, DirIn
<1>2. TempNos(disk)' = TempNos(disk')
  BY DEF TempNos
<1>3. proc[p].rid \in 1..issued
  BY BusyHandler
<1>4. TempNos(disk)' \subseteq 1..issued'
  BY <1>2, <1>3 DEF TreeInv, TempsInv
<1>5. ASSUME NEW x \in Procs, Early(proc'[x]) PROVE proc'[x].rid \notin TempNos(disk)'
  <2>1. proc'[x].pc # "idle"
    BY <1>5 DEF Early
  <2>2. proc[x].pc # "idle" /\ proc'[x].rid = proc[x].rid /\ Early(proc[x])
    BY <1>5, <2>1 DEF Continues
  <2>3. proc[x].rid \notin TempNos(disk)
    BY <2>2 DEF TreeInv, TempsInv
  <2>4. CASE x = p
    BY <1>2, <1>5, <2>2, <2>3, <2>4
  <2>5. CASE x # p
    <3>1. proc[x].rid # proc[p].rid
      BY <2>2, <2>5 DEF Inv, ProcInv
    <3> QED BY <1>2, <2>2, <2>3, <3>1
  <2> QED BY <2>4, <2>5
<1>6. AcrossInv'
  BY DEF TreeInv, AcrossInv, Continues
<1>7. TempsInv'
  <2>1. ASSUME NEW x \in Procs, Early(proc[x])' PROVE (proc[x].rid)' \notin TempNos(disk)'
    <3>1. Early(proc'[x])
      BY <2>1 DEF Early
    <3> QED BY <1>5, <3>1
  <2> QED BY <1>4, <2>1 DEF TempsInv
<1> QED BY <1>1, <1>6, <1>7 DEF TreeInv

LEMMA TreeKept ==
  ASSUME Inv, TreeInv, NEW p \in Procs, HandlerStep(p) \/ HandlerFault(p), proc[p].pc # "idle",
         UNCHANGED issued, Follows(disk')
  PROVE  TreeInv'
BY HandlerContinues, TreeStep DEF Follows

\* Where a handler may work.
LEMMA HandlerPaths ==
  ASSUME Inv, TreeInv, NEW p \in Procs, proc[p].pc # "idle"
  PROVE  /\ Shaped(disk) /\ Follows(disk)
         /\ Source(p) \in Path /\ Target(p) \in Path
         /\ Source(p) \in Seq(Segment) /\ Target(p) \in Seq(Segment)
         /\ Source(p) # <<>> /\ Target(p) # <<>>
         /\ Parent(Target(p)) \in Seq(Name)
         /\ proc[p].op \in {"rename", "copy"} => ~AtOrUnder(Source(p), Target(p))
<1>1. Source(p) \in Path /\ Target(p) \in Path
  BY BusyHandler
<1>2. Shaped(disk) /\ Follows(disk)
  BY SameTreeFollows DEF TreeInv
<1> QED BY <1>1, <1>2, PathTypes DEF TreeInv, AcrossInv, Source, Target, Segment

\* The temporary file of a handler.
LEMMA TempShape ==
  ASSUME Inv, TreeInv, NEW p \in Procs, proc[p].pc # "idle", NEW t, t = Temp(p)
  PROVE  /\ t \in Seq(Segment) /\ t # <<>> /\ Last(t) = proc[p].rid /\ IsTemp(t)
         /\ Parent(t) = Parent(Target(p))
         /\ ~AtOrUnder(t, Target(p))
         /\ Early(proc[p]) => t \notin Paths(disk)
<1>1. t \in Seq(Segment) /\ t # <<>> /\ Last(t) = proc[p].rid
  BY TempProperty DEF Segment
<1>2. proc[p].rid \in Nat
  BY BusyHandler DEF ProcType
<1>3. IsTemp(t)
  BY <1>1, <1>2, TempAssumption DEF IsTemp
<1> DEFINE up == Parent(Target(p))
<1>4. up \in Seq(Name) /\ Target(p) \in Seq(Segment) /\ Target(p) # <<>>
  BY HandlerPaths
<1>5. Len(up) = Len(Target(p)) - 1 /\ up \in Seq(Segment)
  BY <1>4, ParentProperties
<1>6. t = Append(up, proc[p].rid)
  BY DEF Temp
<1> HIDE DEF up
<1>7. Len(t) = Len(up) + 1 /\ \A i \in 1..Len(up) : t[i] = up[i]
  BY <1>2, <1>5, <1>6 DEF Segment
<1>8. Parent(t) = up
  <2>1. Len(up) \in Nat /\ Len(t) - 1 = Len(up) /\ Len(t) - 1 \in 0..Len(t)
    BY <1>5, <1>7, LenProperties
  <2>2. SubSeq(t, 1, Len(t) - 1) \in Seq(Segment) /\ Len(SubSeq(t, 1, Len(t) - 1)) = Len(t) - 1
          /\ \A i \in 1..(Len(t) - 1) : SubSeq(t, 1, Len(t) - 1)[i] = t[i]
    BY <1>1, <2>1, FirstPart
  <2>3. SubSeq(t, 1, Len(t) - 1) = up
    BY <1>5, <1>7, <2>1, <2>2, SeqEqual
  <2> QED BY <2>3 DEF Parent, Front
<1>9. ~AtOrUnder(t, Target(p))
  <2>1. t # Target(p)
    <3>1. Last(Target(p)) \in Name
      BY HandlerPaths, PathTypes
    <3> QED BY <1>3, <3>1 DEF IsTemp
  <2>2. Len(t) = Len(Target(p)) /\ Len(t) \in Nat
    BY <1>4, <1>5, <1>7, LenProperties
  <2>3. Under(t, Target(p)) => Len(t) < Len(Target(p))
    BY <1>1, <1>4, UnderIsLonger
  <2> QED BY <2>1, <2>2, <2>3 DEF AtOrUnder
<1>10. ASSUME Early(proc[p]) PROVE t \notin Paths(disk)
  BY <1>1, <1>3, <1>10 DEF TreeInv, TempsInv, TempNos, Paths
<1> QED BY <1>1, <1>3, <1>8, <1>9, <1>10 DEF up

LEMMA UploadTree ==
  ASSUME Inv, Inv', TreeInv, NEW p \in Procs, Upload(p)
  PROVE  TreeInv'
<1>1. proc[p].pc # "idle" /\ UNCHANGED issued /\ HandlerStep(p)
  BY DEF Upload, UploadCheck, UploadMakeParents, UploadCreateTemp, UploadStream,
         UploadPublish, UploadUpsert, AtStep, Counters, HandlerStep
<1>2. /\ Shaped(disk) /\ Follows(disk) /\ Target(p) \in Path
      /\ Parent(Target(p)) \in Seq(Name)
  BY <1>1, HandlerPaths
<1>3. Follows(disk') => TreeInv'
  BY <1>1, TreeKept
<1> DEFINE t == Temp(p)
<1>4. /\ t \in Seq(Segment) /\ t # <<>> /\ Last(t) = proc[p].rid /\ IsTemp(t)
      /\ Parent(t) = Parent(Target(p))
      /\ ~AtOrUnder(t, Target(p))
      /\ Early(proc[p]) => t \notin Paths(disk)
  BY <1>1, TempShape
<1> HIDE DEF t
<1>5. CASE UploadCheck(p) \/ UploadUpsert(p)
  BY <1>2, <1>3, <1>5 DEF UploadCheck, UploadUpsert, store
<1>6. CASE UploadMakeParents(p)
  <2>1. CanMakeDirs(Parent(Target(p))) => Follows(WithDirs(Parent(Target(p))))
    BY <1>2, WithDirsFollows
  <2> QED BY <1>2, <1>3, <1>6, <2>1 DEF UploadMakeParents
<1>7. CASE UploadCreateTemp(p)
  <2>1. CASE UNCHANGED disk
    BY <1>2, <1>3, <2>1
  <2>2. CASE disk' = disk \cup {File(t, Partial)} /\ IsDirAt(Parent(Target(p))) /\ Goto(p, "stream")
    <3>1. t \notin Paths(disk)
      BY <1>4, <1>7 DEF UploadCreateTemp, AtStep, Early
    <3>2. Shaped(disk') /\ TempNos(disk') \subseteq TempNos(disk) \cup {proc[p].rid}
      BY <1>2, <1>4, <2>2, <3>1, FileAdded DEF Content
    <3>3. proc'[p].pc = "stream"
      BY <2>2 DEF Goto, Inv, ProcInv
    <3>4. ~Early(proc'[p])
      BY <3>3 DEF Early
    <3> QED BY <1>1, <3>2, <3>4, HandlerContinues, TreeStep
  <2> QED BY <1>7, <2>1, <2>2 DEF UploadCreateTemp, t
<1>8. CASE UploadStream(p)
  <2> DEFINE W(e) == IF e.data = Partial /\ Last(e.path) = proc[p].rid
                     THEN [e EXCEPT !.data = proc[p].data] ELSE e
  <2>1. \A e \in disk : W(e).path = e.path /\ W(e).dir = e.dir
    BY <1>2 DEF Shaped, DiskType
  <2>2. disk' = {W(e) : e \in disk}
    BY <1>8 DEF UploadStream
  <2> HIDE DEF W
  <2>3. disk' \subseteq DiskType
    BY DEF Inv, DiskInv
  <2>4. \A d, e \in disk' : d.path = e.path => d = e
    BY <1>2, <2>1, <2>2 DEF Shaped, Tree
  <2>5. Follows(disk')
    <3>1. /\ \A e \in disk' : \E d \in disk : e.path = d.path /\ e.dir = d.dir
          /\ \A d \in disk : \E e \in disk' : e.path = d.path /\ e.dir = d.dir
      BY <2>1, <2>2
    <3> QED BY <1>2, <2>3, <2>4, <3>1, SameShape
  <2> QED BY <1>3, <2>5
<1>9. CASE UploadPublish(p)
  <2>1. CanRename(t, Target(p)) => Follows(RenamedDisk(t, Target(p)))
    BY <1>2, <1>4, RenamedFollows
  <2>2. Follows(disk \ At(disk, t))
    BY <1>2, <1>4, TempGone
  <2> QED BY <1>3, <1>9, <2>1, <2>2 DEF UploadPublish, t
<1> QED BY <1>5, <1>6, <1>7, <1>8, <1>9 DEF Upload

LEMMA DiskOfRequests ==
  ASSUME Inv, TreeInv, NEW p \in Procs, HandlerStep(p), ~Upload(p)
  PROVE  Follows(disk')
<1>1. proc[p].pc # "idle"
  BY DEF HandlerStep, ParentRow, Upload, Delete, DeleteCheck, DeleteDisk, DeleteRows, ReadSource,
         CheckTarget, TargetParents, Rename, RenameDisk, RenameRows, Copy, CopyDisk, CopyInsert,
         CopyRollback, CopyChildRows, CopyResult, Mkdir, MkdirCheck, MkdirDisk, MkdirInsert,
         Share, ShareLookup, ShareInsert, AtStep
<1>2. /\ Shaped(disk) /\ Follows(disk) /\ Target(p) \in Path /\ Source(p) \in Path
      /\ Source(p) \in Seq(Segment) /\ Target(p) \in Seq(Segment)
      /\ Source(p) # <<>> /\ Target(p) # <<>>
      /\ Parent(Target(p)) \in Seq(Name)
      /\ proc[p].op \in {"rename", "copy"} => ~AtOrUnder(Source(p), Target(p))
  BY <1>1, HandlerPaths
<1>3. CASE UNCHANGED disk
  BY <1>2, <1>3
<1>4. CASE ParentRow(p) \/ ReadSource(p) \/ CheckTarget(p) \/ Share(p)
  BY <1>3, <1>4 DEF ParentRow, ReadSource, CheckTarget, Share, ShareLookup, ShareInsert, store
<1>5. CASE Delete(p)
  <2>1. Follows(disk \ Subtree(disk, Target(p)))
    BY <1>2, SubtreeGone
  <2> QED BY <1>3, <1>5, <2>1 DEF Delete, DeleteCheck, DeleteDisk, DeleteRows, store
<1>6. CASE TargetParents(p)
  <2>1. CanMakeDirs(Parent(Target(p))) => Follows(WithDirs(Parent(Target(p))))
    BY <1>2, WithDirsFollows
  <2> QED BY <1>3, <1>6, <2>1 DEF TargetParents
<1>7. CASE Rename(p)
  <2>1. (CanRename(Source(p), Target(p)) /\ proc[p].op = "rename")
          => Follows(RenamedDisk(Source(p), Target(p)))
    BY <1>2, RenamedFollows
  <2> QED BY <1>3, <1>7, <2>1 DEF Rename, RenameDisk, RenameRows, AtStep
<1>8. CASE Copy(p)
  <2>1. CASE CopyDisk(p)
    <3>1. proc[p].dir \in BOOLEAN
      BY <1>1, BusyHandler DEF ProcType
    <3>2. ASSUME CanBeginCopy(Target(p), proc[p].dir),
                 NEW done \in CopiedSoFar(Source(p), Target(p), proc[p].dir)
          PROVE  Follows(CopiedDisk(Target(p), proc[p].dir, done))
      <4>1. {} \subseteq {e \in done : ~e.dir}
              /\ done = (done \ {}) \cup {File(e.path, Torn) : e \in {}}
        OBVIOUS
      <4> QED BY <1>2, <3>1, <3>2, <4>1, CopiedFollows
    <3>3. CASE CanCopy(Source(p), Target(p), proc[p].dir)
      <4>1. /\ CanBeginCopy(Target(p), proc[p].dir)
            /\ Copies(Source(p), Target(p)) \in CopiedSoFar(Source(p), Target(p), proc[p].dir)
        BY <3>3 DEF CanCopy, CopiedSoFar
      <4> QED BY <2>1, <3>2, <3>3, <4>1 DEF CopyDisk
    <3>4. CASE ~CanCopy(Source(p), Target(p), proc[p].dir)
      <4>1. CASE proc[p].dir /\ CanMakeDirs(Target(p))
        <5>1. CanBeginCopy(Target(p), proc[p].dir) /\ proc[p].dir = TRUE
          BY <3>1, <4>1 DEF CanBeginCopy
        <5>2. PICK done \in CopiedSoFar(Source(p), Target(p), TRUE) :
                disk' = CopiedDisk(Target(p), TRUE, done)
          BY <2>1, <3>4, <4>1 DEF CopyDisk
        <5> QED BY <3>2, <5>1, <5>2
      <4>2. CASE ~(proc[p].dir /\ CanMakeDirs(Target(p)))
        BY <1>3, <2>1, <3>4, <4>2 DEF CopyDisk
      <4> QED BY <4>1, <4>2
    <3> QED BY <3>3, <3>4
  <2>2. CASE CopyRollback(p)
    <3>1. Follows(disk \ Subtree(disk, Target(p)))
      BY <1>2, SubtreeGone
    <3> QED BY <1>3, <2>2, <3>1 DEF CopyRollback
  <2>3. CASE CopyInsert(p) \/ CopyChildRows(p) \/ CopyResult(p)
    BY <1>3, <2>3 DEF CopyInsert, CopyChildRows, CopyResult, store
  <2> QED BY <1>8, <2>1, <2>2, <2>3 DEF Copy
<1>9. CASE Mkdir(p)
  <2>1. CanMakeDirs(Target(p)) => Follows(WithDirs(Target(p)))
    BY <1>2, WithDirsFollows DEF Path
  <2> QED BY <1>3, <1>9, <2>1 DEF Mkdir, MkdirCheck, MkdirDisk, MkdirInsert, store
<1> QED BY <1>4, <1>5, <1>6, <1>7, <1>8, <1>9 DEF HandlerStep

LEMMA DiskOfFaults ==
  ASSUME Inv, TreeInv, NEW p \in Procs, HandlerFault(p)
  PROVE  Follows(disk') /\ proc[p].pc # "idle" /\ UNCHANGED issued
<1>1. proc[p].pc # "idle" /\ UNCHANGED issued
  BY DEF HandlerFault, DbFails, DiskFails, DeleteFailsMidway, CopyFailsMidway, UploadFails,
         Abandon, AtStep, Fault, SqlSteps, DiskSteps
<1> SUFFICES Follows(disk')
  BY <1>1
<1>2. /\ Shaped(disk) /\ Follows(disk) /\ Target(p) \in Path /\ Source(p) \in Path
  BY <1>1, HandlerPaths
<1>3. CASE DbFails(p) \/ DiskFails(p) \/ Abandon(p)
  BY <1>2, <1>3 DEF DbFails, DiskFails, Abandon, store
<1>4. CASE DeleteFailsMidway(p)
  BY <1>2, <1>4, LeftoversLemma DEF DeleteFailsMidway
<1>5. CASE CopyFailsMidway(p)
  <2>1. CanBeginCopy(Target(p), proc[p].dir) /\ proc[p].dir \in BOOLEAN
    BY <1>1, <1>5, BusyHandler DEF CopyFailsMidway, CanCopy, ProcType
  <2>2. PICK done \in CopiedSoFar(Source(p), Target(p), proc[p].dir) :
          \E torn \in SUBSET {e \in done : ~e.dir} :
            disk' = CopiedDisk(Target(p), proc[p].dir,
                               (done \ torn) \cup {File(e.path, Torn) : e \in torn})
    BY <1>5 DEF CopyFailsMidway
  <2>3. PICK torn \in SUBSET {e \in done : ~e.dir} :
          disk' = CopiedDisk(Target(p), proc[p].dir,
                             (done \ torn) \cup {File(e.path, Torn) : e \in torn})
    BY <2>2
  <2> QED BY <1>2, <2>1, <2>3, CopiedFollows
<1>6. CASE UploadFails(p)
  <2>1. /\ Temp(p) \in Seq(Segment) /\ Temp(p) # <<>> /\ IsTemp(Temp(p))
    BY <1>1, TempShape
  <2> QED BY <1>2, <1>6, <2>1, TempGone DEF UploadFails
<1> QED BY <1>3, <1>4, <1>5, <1>6 DEF HandlerFault

LEMMA StartTree ==
  ASSUME Inv, TreeInv, NEW p \in Procs, Start(p)
  PROVE  TreeInv'
<1>1. PICK r \in Requests : proc' = [proc EXCEPT ![p] = Accept(r, issued + 1)]
  BY DEF Start
<1>2. UNCHANGED disk /\ issued' = issued + 1 /\ issued \in Nat /\ proc[p].pc = "idle"
  BY DEF Start, store, Inv, ProcInv
<1>3. \A x \in Procs : proc'[x] = IF x = p THEN Accept(r, issued + 1) ELSE proc[x]
  BY <1>1 DEF Inv, ProcInv
<1>4. /\ Accept(r, issued + 1).op = r.op /\ Accept(r, issued + 1).rid = issued + 1
      /\ Accept(r, issued + 1).from = r.from /\ Accept(r, issued + 1).to = r.to
  BY DEF Accept
<1>5. TempNos(disk)' = TempNos(disk) /\ Shaped(disk)'
  BY <1>2 DEF TempNos, Shaped, Tree, DirIn, TreeInv
<1>6. TempNos(disk) \subseteq 1..issued
  BY DEF TreeInv, TempsInv
<1>7. TempNos(disk)' \subseteq 1..issued' /\ issued + 1 \notin TempNos(disk)
  BY <1>2, <1>5, <1>6
<1>8. ASSUME NEW x \in Procs, Early(proc'[x]) PROVE proc'[x].rid \notin TempNos(disk)
  <2>1. CASE x = p
    BY <1>3, <1>4, <1>7, <2>1
  <2>2. CASE x # p
    BY <1>3, <1>8, <2>2 DEF TreeInv, TempsInv
  <2> QED BY <2>1, <2>2
<1>9. TempsInv'
  <2>1. ASSUME NEW x \in Procs, Early(proc[x])' PROVE (proc[x].rid)' \notin TempNos(disk)'
    <3>1. Early(proc'[x])
      BY <2>1 DEF Early
    <3> QED BY <1>5, <1>8, <3>1
  <2> QED BY <1>7, <2>1 DEF TempsInv
<1>10. AcrossInv'
  <2>1. ~(r.op \in {"rename", "copy"} /\ AtOrUnder(r.from, r.to))
    BY RequestAssumption
  <2> QED BY <1>3, <1>4, <2>1 DEF TreeInv, AcrossInv
<1> QED BY <1>5, <1>9, <1>10 DEF TreeInv

LEMMA InitTree == Init => TreeInv
<1> SUFFICES ASSUME Init PROVE TreeInv
  OBVIOUS
<1>1. /\ disk = {Stored[i] : i \in DOMAIN Stored} /\ issued = 0
      /\ \A p \in Procs : proc[p] = Idle
  BY DEF Init
<1>2. Idle.pc = "idle"
  BY DEF Idle
<1>3. \A i \in DOMAIN Stored : Stored[i] \in EntryType
  BY StoredAssumption, ElementOfSeq
<1>4. ASSUME NEW e \in disk PROVE e \in DiskType /\ ~IsTemp(e.path)
  <2>1. e.path \in Path /\ e \in EntryType
    BY <1>1, <1>3 DEF EntryType
  <2>2. e.path \in Seq(Name \cup Nat) \ {<<>>} /\ Last(e.path) \in Name
    BY <2>1, PathTypes
  <2> QED BY <2>1, <2>2 DEF EntryType, DiskType, Content, IsTemp
<1>5. \A d, e \in disk : d.path = e.path => d = e
  BY <1>1, StoredAssumption
<1>6. \A e \in disk : \A q \in Ancestors(e.path) : DirIn(disk, q)
  BY <1>1, StoredAssumption DEF DirIn
<1>7. TempNos(disk) = {}
  BY <1>4 DEF TempNos
<1> QED BY <1>1, <1>2, <1>4, <1>5, <1>6, <1>7
       DEF TreeInv, Shaped, Tree, TempsInv, AcrossInv, Early

\* The disk stays a tree under every step of every handler.
LEMMA HandlerTree ==
  ASSUME Inv, Inv', TreeInv, NEW p \in Procs, Start(p) \/ HandlerStep(p) \/ HandlerFault(p)
  PROVE  TreeInv'
<1>1. CASE Start(p)
  BY <1>1, StartTree
<1>2. CASE Upload(p)
  BY <1>2, UploadTree
<1>3. CASE HandlerStep(p) /\ ~Upload(p)
  <2>1. Follows(disk')
    BY <1>3, DiskOfRequests
  <2>2. proc[p].pc # "idle" /\ UNCHANGED issued
    BY <1>3 DEF HandlerStep, ParentRow, Upload, Delete, DeleteCheck, DeleteDisk, DeleteRows, ReadSource,
         CheckTarget, TargetParents, Rename, RenameDisk, RenameRows, Copy, CopyDisk, CopyInsert,
         CopyRollback, CopyChildRows, CopyResult, Mkdir, MkdirCheck, MkdirDisk, MkdirInsert,
         Share, ShareLookup, ShareInsert, AtStep, Counters
  <2> QED BY <1>3, <2>1, <2>2, TreeKept
<1>4. CASE HandlerFault(p)
  BY <1>4, DiskOfFaults, TreeKept
<1> QED BY <1>1, <1>2, <1>3, <1>4

\* Of an entry the directory is there.
LEMMA TreeHasParents ==
  ASSUME Shaped(disk), NEW e \in disk
  PROVE  IsDirAt(Parent(e.path))
<1>1. e.path \in Seq(Segment) /\ e.path # <<>>
  BY Entries DEF Shaped
<1>2. Parent(e.path) \in Seq(Segment) /\ Under(Parent(e.path), e.path)
  <2>1. <<>> \in Seq(Segment)
    OBVIOUS
  <2> QED BY <1>1, <2>1, ParentProperties, UnderParent
<1>3. CASE Parent(e.path) # <<>>
  BY <1>2, <1>3, AboveIsDir DEF Shaped, DirIn, IsDirAt, At
<1> QED BY <1>3 DEF IsDirAt

-----------------------------------------------------------------------------
(* What a step of a handler touches.                                       *)

Changed(S, T) == (S \ T) \cup (T \ S)

\* A name that is being written, or one the request is about.
Mine(p, path) == IsTemp(path) \/ InScope(p, path)

LEMMA AsideIsUntouched ==
  ASSUME NEW p, \A r \in Changed(rows, rows') : InScope(p, r.path),
         \A e \in Changed(disk, disk') : Mine(p, e.path)
  PROVE  /\ Outside(p, rows') = Outside(p, rows)
         /\ Outside(p, Whole(disk')) = Outside(p, Whole(disk))
BY DEF Outside, Whole, Changed, Mine

LEMMA DirsTouched ==
  ASSUME NEW path \in Path, NEW q \in {Parent(path), path},
         NEW e \in Changed(disk, WithDirs(q))
  PROVE  e.path = path \/ e.path \in Ancestors(path)
<1>1. path \in Seq(Name) /\ path # <<>> /\ q \in Seq(Name)
  BY PathTypes DEF Path
<1>2. q # <<>> /\ e \in {Dir(r) : r \in MissingDirs(q)}
  BY DEF WithDirs, Changed
<1>3. PICK r \in Ancestors(q) \cup {q} : e = Dir(r)
  BY <1>2 DEF MissingDirs
<1>4. e.path = r /\ r \in Seq(Name) /\ r # <<>> /\ AtOrUnder(r, q)
  BY <1>1, <1>2, <1>3, AncestorsArePaths DEF Dir, AtOrUnder
<1>5. AtOrUnder(q, path)
  BY <1>1, UnderParent DEF AtOrUnder
<1>6. AtOrUnder(r, path)
  BY <1>1, <1>4, <1>5, AtOrUnderTrans
<1> QED BY <1>1, <1>4, <1>6, AncestorsAbove DEF AtOrUnder

LEMMA RenameTouches ==
  ASSUME Shaped(disk), NEW from \in Seq(Segment), NEW to \in Seq(Segment),
         NEW e \in Changed(disk, RenamedDisk(from, to))
  PROVE  AtOrUnder(from, e.path) \/ AtOrUnder(to, e.path)
<1>1. CASE e \in disk
  BY <1>1 DEF Changed, RenamedDisk, AtOrUnder
<1>2. CASE e \notin disk
  <2>1. PICK d \in Subtree(disk, from) : e = [d EXCEPT !.path = Rebase(@, from, to)]
    BY <1>2 DEF Changed, RenamedDisk
  <2>2. d \in DiskType /\ AtOrUnder(from, d.path)
    BY DEF Subtree, Shaped
  <2>3. e.path = Rebase(d.path, from, to) /\ d.path \in Seq(Segment)
    BY <2>1, <2>2 DEF DiskType, Segment
  <2> QED BY <2>2, <2>3, RebaseBelow
<1> QED BY <1>1, <1>2

LEMMA CopyTouches ==
  ASSUME Shaped(disk), NEW from \in Path, NEW to \in Path, NEW asDir \in BOOLEAN,
         NEW C, \A c \in C : \E a \in Copies(from, to) : c.path = a.path,
         NEW e \in Changed(disk, CopiedDisk(to, asDir, C))
  PROVE  AtOrUnder(to, e.path) \/ e.path \in Ancestors(to)
<1>1. ASSUME NEW c \in C PROVE AtOrUnder(to, c.path)
  <2>1. PICK a \in Copies(from, to) : c.path = a.path
    OBVIOUS
  <2>2. PICK d \in Subtree(disk, from) : a.path = Rebase(d.path, from, to)
    BY <2>1 DEF Copies
  <2>3. d.path \in Seq(Segment) /\ AtOrUnder(from, d.path)
    BY Entries DEF Subtree, Shaped
  <2>4. from \in Seq(Segment) /\ to \in Seq(Segment)
    BY PathTypes DEF Segment
  <2> QED BY <2>1, <2>2, <2>3, <2>4, RebaseBelow
<1>2. ASSUME NEW d \in Changed(disk, CopyBase(to, asDir))
      PROVE  AtOrUnder(to, d.path) \/ d.path \in Ancestors(to)
  <2>1. asDir /\ d \in Changed(disk, WithDirs(to))
    BY DEF CopyBase, Changed
  <2> QED BY <2>1, DirsTouched DEF AtOrUnder
<1>3. e \in Changed(disk, CopyBase(to, asDir)) \/ \E c \in C : e = c \/ e.path = c.path
  BY DEF CopiedDisk, Changed, Paths
<1> QED BY <1>1, <1>2, <1>3

\* The rows: each statement names the target, what is above it, or what is at
\* or below the source or the target.
LEMMA RowsTouched ==
  ASSUME Inv, NEW p \in Procs, HandlerStep(p), \A w \in Wild : w[1] = w[2],
         NEW r \in Changed(rows, rows')
  PROVE  InScope(p, r.path)
<1>1. CASE ParentRow(p)
  <2> DEFINE prefix == SubSeq(Target(p), 1, proc[p].k + 1)
  <2>1. proc[p].k \in Nat /\ proc[p].k < Len(Target(p)) - 1 /\ proc[p].pc # "idle"
    BY <1>1 DEF ParentRow, Inv, ProcInv, Sound, ProcType, Target
  <2>2. Len(Target(p)) \in Nat
    BY <2>1, BusyHandler, LenProperties DEF Path
  <2>3. proc[p].k + 1 \in 1..(Len(Target(p)) - 1)
    BY <2>1, <2>2
  <2>4. prefix \in Ancestors(Target(p))
    BY <2>3 DEF Ancestors
  <2>5. r.path = prefix
    BY <1>1 DEF ParentRow, Changed, Row
  <2> QED BY <2>4, <2>5 DEF InScope
<1>2. ASSUME proc[p].pc # "idle",
             \/ rows' \ rows \subseteq {s \in rows' : s.path = Target(p)}
                  /\ rows \ rows' \subseteq {s \in rows : s.path = Target(p)}
      PROVE  InScope(p, r.path)
  BY <1>2 DEF Changed, InScope, AtOrUnder
<1>3. CASE Upload(p)
  <2>1. CASE UploadUpsert(p)
    <3>1. proc[p].pc # "idle" /\ rows \subseteq RowType
      BY <2>1 DEF UploadUpsert, AtStep, Inv, RowInv
    <3>2. CASE Target(p) \in Paths(rows)
      <4> DEFINE U(s) == IF s.path = Target(p) THEN [s EXCEPT !.sha = proc[p].data] ELSE s
      <4>1. rows' = {U(s) : s \in rows}
        BY <2>1, <3>2 DEF UploadUpsert
      <4>2. \A s \in rows : U(s).path = s.path
        BY <3>1 DEF RowType
      <4>3. \A s \in rows : s.path # Target(p) => U(s) = s
        OBVIOUS
      <4> HIDE DEF U
      <4>4. \A s \in rows' \ rows : s.path = Target(p)
        BY <4>1, <4>2, <4>3
      <4>5. \A s \in rows \ rows' : s.path = Target(p)
        BY <4>1, <4>3
      <4> QED BY <1>2, <3>1, <4>4, <4>5
    <3>3. CASE Target(p) \notin Paths(rows)
      BY <1>2, <2>1, <3>1, <3>3 DEF UploadUpsert, Row
    <3> QED BY <3>2, <3>3
  <2>2. CASE ~UploadUpsert(p)
    BY <1>3, <2>2 DEF Upload, UploadCheck, UploadMakeParents, UploadCreateTemp,
                      UploadStream, UploadPublish, store, Changed
  <2> QED BY <2>1, <2>2
<1>4. CASE Delete(p)
  <2>1. CASE DeleteRows(p)
    <3>1. r \in rows /\ (r.path = Target(p) \/ LikeUnder(Target(p), r.path))
      BY <2>1 DEF DeleteRows, DeletedRows, Changed
    <3>2. r.path \in Seq(Name) /\ Target(p) \in Seq(Name)
      BY <2>1, <3>1, BusyHandler DEF DeleteRows, AtStep, RowInv, RowType, Path
    <3> QED BY <3>1, <3>2, LikeIsUnder DEF InScope, AtOrUnder
  <2>2. CASE ~DeleteRows(p)
    BY <1>4, <2>2 DEF Delete, DeleteCheck, DeleteDisk, store, Changed
  <2> QED BY <2>1, <2>2
<1>5. CASE ReadSource(p) \/ CheckTarget(p) \/ TargetParents(p) \/ Share(p)
  BY <1>5 DEF ReadSource, CheckTarget, TargetParents, Share, ShareLookup, ShareInsert, store, Changed
<1>6. CASE Rename(p)
  <2>1. CASE RenameRows(p) /\ rows' = MovedRows(p)
    <3>1. Source(p) \in Path /\ Target(p) \in Path /\ RowInv
      BY <2>1, BusyHandler DEF RenameRows, AtStep
    <3>2. \A s \in rows : IsMoved(p, s.path) => AtOrUnder(Source(p), s.path)
      <4> TAKE s \in rows
      <4>1. s.path \in Seq(Name) /\ Source(p) \in Seq(Name)
        BY <3>1 DEF RowInv, RowType, Path
      <4> QED BY <4>1, LikeIsUnder DEF IsMoved, AtOrUnder
    <3>3. CASE r \in rows
      BY <2>1, <3>2, <3>3 DEF MovedRows, Changed, InScope
    <3>4. CASE r \notin rows
      <4>1. PICK s \in rows : IsMoved(p, s.path) /\ r = MovedRow(p, s)
        BY <2>1, <3>4 DEF MovedRows, Changed
      <4>2. r.path = Rebase(s.path, Source(p), Target(p))
        BY <3>1, <4>1, MovedRowLemma
      <4>3. AtOrUnder(Target(p), r.path)
        <5>1. s.path \in Seq(Name) /\ Source(p) \in Seq(Name) /\ Target(p) \in Seq(Name)
          BY <3>1 DEF RowInv, RowType, Path
        <5> QED BY <3>2, <4>1, <4>2, <5>1, RebaseBelow
      <4> QED BY <4>3 DEF InScope
    <3> QED BY <3>3, <3>4
  <2>2. CASE UNCHANGED rows
    BY <2>2 DEF Changed
  <2> QED BY <1>6, <2>1, <2>2 DEF Rename, RenameDisk, RenameRows
<1>7. CASE Copy(p)
  <2>1. CASE CopyInsert(p)
    BY <1>2, <2>1 DEF CopyInsert, AtStep, Row
  <2>2. CASE ~CopyInsert(p)
    BY <1>7, <2>2 DEF Copy, CopyDisk, CopyRollback, CopyChildRows, CopyResult, store, Changed
  <2> QED BY <2>1, <2>2
<1>8. CASE Mkdir(p)
  <2>1. CASE MkdirInsert(p)
    BY <1>2, <2>1 DEF MkdirInsert, AtStep, Row
  <2>2. CASE ~MkdirInsert(p)
    BY <1>8, <2>2 DEF Mkdir, MkdirCheck, MkdirDisk, store, Changed
  <2> QED BY <2>1, <2>2
<1> QED BY <1>1, <1>3, <1>4, <1>5, <1>6, <1>7, <1>8 DEF HandlerStep
\* Nothing is below a temporary file.
LEMMA BelowTemp ==
  ASSUME NEW S, Shaped(S), NEW e \in S, NEW t \in Seq(Segment), t # <<>>, IsTemp(t),
         AtOrUnder(t, e.path)
  PROVE  IsTemp(e.path)
<1>1. CASE Under(t, e.path)
  <2>1. DirIn(S, t)
    BY <1>1, AboveIsDir DEF Shaped
  <2> QED BY <2>1 DEF Shaped, DirIn
<1> QED BY <1>1 DEF AtOrUnder

LEMMA UploadTouches ==
  ASSUME Inv, TreeInv, TreeInv', NEW p \in Procs, Upload(p), NEW e \in Changed(disk, disk')
  PROVE  Mine(p, e.path)
<1>1. proc[p].pc # "idle"
  BY DEF Upload, UploadCheck, UploadMakeParents, UploadCreateTemp, UploadStream,
         UploadPublish, UploadUpsert, AtStep
<1>2. /\ Shaped(disk) /\ Shaped(disk') /\ Target(p) \in Path /\ Target(p) \in Seq(Segment)
  BY <1>1, HandlerPaths DEF TreeInv, Shaped, Tree, DirIn
<1> DEFINE t == Temp(p)
<1>3. t \in Seq(Segment) /\ t # <<>> /\ IsTemp(t)
  BY <1>1, TempShape
<1> HIDE DEF t
<1>4. CASE UploadMakeParents(p)
  <2>1. e \in Changed(disk, WithDirs(Parent(Target(p))))
    BY <1>4 DEF UploadMakeParents, Changed
  <2> QED BY <1>2, <2>1, DirsTouched DEF Mine, InScope, AtOrUnder
<1>5. CASE UploadCreateTemp(p)
  <2>1. e = File(t, Partial)
    BY <1>5 DEF UploadCreateTemp, Changed, t
  <2> QED BY <1>3, <2>1 DEF File, Mine
<1>6. CASE UploadStream(p)
  <2> DEFINE W(d) == IF d.data = Partial /\ Last(d.path) = proc[p].rid
                     THEN [d EXCEPT !.data = proc[p].data] ELSE d
  <2>1. disk' = {W(d) : d \in disk}
    BY <1>6 DEF UploadStream
  <2>2. \A d \in disk : W(d).path = d.path
    BY <1>2 DEF Shaped, DiskType
  <2>3. \A d \in disk : W(d) # d => Last(d.path) = proc[p].rid
    OBVIOUS
  <2> HIDE DEF W
  <2>4. Last(e.path) = proc[p].rid
    BY <2>1, <2>2, <2>3 DEF Changed
  <2>5. proc[p].rid \in Nat
    BY <1>1, BusyHandler DEF ProcType
  <2> QED BY <2>4, <2>5, TempAssumption DEF Mine, IsTemp
<1>7. CASE UploadPublish(p)
  <2>1. CASE disk' = RenamedDisk(t, Target(p))
    <3>1. AtOrUnder(t, e.path) \/ AtOrUnder(Target(p), e.path)
      BY <1>2, <1>3, <2>1, RenameTouches
    <3>2. e \in disk \/ e \in disk'
      BY DEF Changed
    <3>3. AtOrUnder(t, e.path) => IsTemp(e.path)
      BY <1>2, <1>3, <3>2, BelowTemp
    <3> QED BY <3>1, <3>3 DEF Mine, InScope
  <2>2. CASE disk' = disk \ At(disk, t)
    BY <1>3, <2>2 DEF Changed, At, Mine
  <2> QED BY <1>7, <2>1, <2>2 DEF UploadPublish, t
<1>8. CASE UploadCheck(p) \/ UploadUpsert(p)
  BY <1>8 DEF UploadCheck, UploadUpsert, store, Changed
<1> QED BY <1>4, <1>5, <1>6, <1>7, <1>8 DEF Upload

LEMMA CopyDiskTouches ==
  ASSUME Inv, TreeInv, NEW p \in Procs, proc[p].pc # "idle", NEW e, NEW done, NEW torn, NEW asDir \in BOOLEAN,
         done \subseteq Copies(Source(p), Target(p)), torn \subseteq done,
         e \in Changed(disk, CopiedDisk(Target(p), asDir,
                               (done \ torn) \cup {File(d.path, Torn) : d \in torn}))
  PROVE  InScope(p, e.path)
<1> DEFINE C == (done \ torn) \cup {File(d.path, Torn) : d \in torn}
<1>1. \A c \in C : \E a \in Copies(Source(p), Target(p)) : c.path = a.path
  BY DEF File
<1>2. e \in Changed(disk, CopiedDisk(Target(p), asDir, C))
  OBVIOUS
<1> HIDE DEF C
<1>3. Shaped(disk) /\ Source(p) \in Path /\ Target(p) \in Path
  BY HandlerPaths
<1> QED BY <1>1, <1>2, <1>3, CopyTouches DEF InScope

LEMMA RequestTouches ==
  ASSUME Inv, TreeInv, NEW p \in Procs, HandlerStep(p), ~Upload(p), NEW e \in Changed(disk, disk')
  PROVE  InScope(p, e.path)
<1>1. proc[p].pc # "idle"
  BY DEF HandlerStep, ParentRow, Upload, Delete, DeleteCheck, DeleteDisk, DeleteRows, ReadSource,
         CheckTarget, TargetParents, Rename, RenameDisk, RenameRows, Copy, CopyDisk, CopyInsert,
         CopyRollback, CopyChildRows, CopyResult, Mkdir, MkdirCheck, MkdirDisk, MkdirInsert,
         Share, ShareLookup, ShareInsert, AtStep
<1>2. /\ Shaped(disk) /\ Target(p) \in Path /\ Source(p) \in Path
      /\ Source(p) \in Seq(Segment) /\ Target(p) \in Seq(Segment)
  BY <1>1, HandlerPaths
<1>3. ~UNCHANGED disk
  BY DEF Changed
<1>4. CASE DeleteDisk(p) \/ CopyRollback(p)
  BY <1>4 DEF DeleteDisk, CopyRollback, Changed, Subtree, InScope
<1>5. CASE TargetParents(p)
  <2>1. e \in Changed(disk, WithDirs(Parent(Target(p))))
    BY <1>5 DEF TargetParents, Changed
  <2> QED BY <1>2, <2>1, DirsTouched DEF InScope, AtOrUnder
<1>6. CASE RenameDisk(p)
  <2>1. disk' = RenamedDisk(Source(p), Target(p))
    BY <1>3, <1>6 DEF RenameDisk
  <2> QED BY <1>2, <2>1, RenameTouches DEF InScope
<1>7. CASE CopyDisk(p)
  <2>1. PICK asDir \in BOOLEAN, done \in SUBSET Copies(Source(p), Target(p)) :
          disk' = CopiedDisk(Target(p), asDir, done)
    <3>1. proc[p].dir \in BOOLEAN
      BY <1>1, BusyHandler DEF ProcType
    <3>2. CASE CanCopy(Source(p), Target(p), proc[p].dir)
      BY <1>7, <3>1, <3>2 DEF CopyDisk
    <3>3. CASE ~CanCopy(Source(p), Target(p), proc[p].dir)
      <4>1. PICK done \in CopiedSoFar(Source(p), Target(p), TRUE) :
                    disk' = CopiedDisk(Target(p), TRUE, done)
        BY <1>3, <1>7, <3>3 DEF CopyDisk
      <4>2. done \in SUBSET Copies(Source(p), Target(p))
        BY DEF CopiedSoFar, Fitting
      <4> QED BY <4>1, <4>2
    <3> QED BY <3>2, <3>3
  <2>2. \A c \in done : \E a \in Copies(Source(p), Target(p)) : c.path = a.path
    OBVIOUS
  <2> QED BY <1>2, <2>1, <2>2, CopyTouches DEF InScope
<1>8. CASE MkdirDisk(p)
  <2>1. e \in Changed(disk, WithDirs(Target(p)))
    BY <1>8 DEF MkdirDisk, Changed
  <2> QED BY <1>2, <2>1, DirsTouched DEF InScope, AtOrUnder
<1> QED BY <1>3, <1>4, <1>5, <1>6, <1>7, <1>8
       DEF HandlerStep, ParentRow, Delete, DeleteCheck, DeleteRows, ReadSource, CheckTarget,
           Rename, RenameRows, Copy, CopyInsert, CopyChildRows, CopyResult, Mkdir, MkdirCheck,
           MkdirInsert, Share, ShareLookup, ShareInsert, store

LEMMA FaultTouches ==
  ASSUME Inv, TreeInv, NEW p \in Procs, HandlerFault(p), NEW e \in Changed(disk, disk')
  PROVE  Mine(p, e.path)
<1>1. proc[p].pc # "idle"
  BY DiskOfFaults
<1>2. ~UNCHANGED disk
  BY DEF Changed
<1>3. CASE DeleteFailsMidway(p)
  BY <1>3 DEF DeleteFailsMidway, Leftovers, Changed, Subtree, Mine, InScope
<1>4. CASE CopyFailsMidway(p)
  <2>1. proc[p].dir \in BOOLEAN
    BY <1>1, BusyHandler DEF ProcType
  <2>2. PICK done \in CopiedSoFar(Source(p), Target(p), proc[p].dir) :
          \E torn \in SUBSET {d \in done : ~d.dir} :
            disk' = CopiedDisk(Target(p), proc[p].dir,
                               (done \ torn) \cup {File(d.path, Torn) : d \in torn})
    BY <1>4 DEF CopyFailsMidway
  <2>3. PICK torn \in SUBSET {d \in done : ~d.dir} :
          disk' = CopiedDisk(Target(p), proc[p].dir,
                             (done \ torn) \cup {File(d.path, Torn) : d \in torn})
    BY <2>2
  <2>4. done \subseteq Copies(Source(p), Target(p)) /\ torn \subseteq done
    BY DEF CopiedSoFar, Fitting
  <2> QED BY <1>1, <2>1, <2>3, <2>4, CopyDiskTouches DEF Mine
<1>5. CASE UploadFails(p)
  <2>1. IsTemp(Temp(p))
    BY <1>1, TempShape
  <2> QED BY <1>5, <2>1 DEF UploadFails, Changed, At, Mine
<1> QED BY <1>2, <1>3, <1>4, <1>5 DEF HandlerFault, DbFails, DiskFails, Abandon, store

\* All that a step of a handler changes is about its request.
LEMMA HandlerConfined ==
  ASSUME Inv, TreeInv, TreeInv', NEW p \in Procs, HandlerStep(p) \/ HandlerFault(p),
         \A w \in Wild : w[1] = w[2]
  PROVE  /\ Outside(p, rows') = Outside(p, rows)
         /\ Outside(p, Whole(disk')) = Outside(p, Whole(disk))
<1>1. ASSUME NEW r \in Changed(rows, rows') PROVE InScope(p, r.path)
  <2>1. HandlerFault(p) => UNCHANGED rows
    BY DEF HandlerFault, DbFails, DiskFails, DeleteFailsMidway, CopyFailsMidway, UploadFails,
           Abandon, store
  <2>2. HandlerStep(p)
    BY <2>1 DEF Changed
  <2> QED BY <2>2, RowsTouched
<1>2. ASSUME NEW e \in Changed(disk, disk') PROVE Mine(p, e.path)
  BY UploadTouches, RequestTouches, FaultTouches DEF Mine
<1> QED BY <1>1, <1>2, AsideIsUntouched

=============================================================================
