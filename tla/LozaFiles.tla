------------------------------- MODULE LozaFiles -------------------------------
(***************************************************************************)
(* The file API of the Loza server (backend/src/handlers/files.rs) for one *)
(* user: the rows of table user_files on one side, the directory tree of   *)
(* the user's storage on the other, and the request handlers that change   *)
(* both.  Nothing joins the two sides in one transaction, so a handler is  *)
(* a sequence of steps, one per SQL statement and one per change of the    *)
(* disk, and the handlers of different requests interleave between them.   *)
(*                                                                         *)
(* Faults: an SQL statement or a disk operation may fail, the body stream  *)
(* of an upload may break, the handler's future may be dropped with its    *)
(* connection, the server may crash.  MaxFaults bounds them together.      *)
(***************************************************************************)
EXTENDS LozaPaths, FiniteSets, TLC

CONSTANTS
  Procs,        \* the handlers that may run at the same time
  Stored,       \* what the storage holds at first: a sequence of entries
  Requests,     \* the requests clients may send
  Data,         \* file contents; a content's SHA-256 is the content itself
  NoData,       \* NULL: the content or checksum of a directory
  Partial,      \* the content of an upload that is not completely written
  Torn,         \* the content of an incomplete copy
  Faults,       \* which faults may happen: subset of FaultKinds
  MaxRequests,  \* bound: requests sent in a behaviour
  MaxFaults     \* bound: faults in a behaviour

Ops == {"upload", "delete", "rename", "copy", "mkdir", "share"}

FaultKinds == {"db", "disk", "stream", "drop", "crash"}

EntryType == [path: Path, dir: BOOLEAN, data: Data \cup {NoData}]

RequestType ==
  [op: Ops, from: Path, to: Path, over: BOOLEAN, data: Data \cup {NoData}]

ASSUME RequestAssumption ==
  /\ \A r \in Requests : r \in RequestType
  /\ \A r \in Requests : (r.op = "upload") => (r.data \in Data)
  /\ \A r \in Requests : (r.op \in {"rename", "copy"}) => ~AtOrUnder(r.from, r.to)
ASSUME StoredAssumption ==
  /\ Stored \in Seq(EntryType)
  /\ \A i, j \in DOMAIN Stored : Stored[i].path = Stored[j].path => i = j
  /\ \A i \in DOMAIN Stored : Stored[i].dir = (Stored[i].data = NoData)
  /\ \A i \in DOMAIN Stored : \A q \in Ancestors(Stored[i].path) :
       \E j \in DOMAIN Stored : Stored[j].path = q /\ Stored[j].dir
ASSUME FaultAssumption == Faults \subseteq FaultKinds
ASSUME BoundAssumption == MaxRequests \in Nat /\ MaxFaults \in Nat
ASSUME TempAssumption == Name \cap Nat = {}
ASSUME DataAssumption ==
  /\ {NoData, Partial, Torn} \cap Data = {}
  /\ NoData # Partial /\ NoData # Torn /\ Partial # Torn

VARIABLES
  rows,    \* user_files: a set of [path, id, dir, sha]
  disk,    \* the user's directory: a set of [path, dir, data]
  shares,  \* file_shares, as the set of user_files ids the links point to
  nextId,  \* the next unused row id (ids are fresh UUIDs)
  proc,    \* the request each handler is executing, and where it is
  issued,  \* number of requests sent so far
  faults,  \* number of faults so far
  answer   \* what the last request that returned was answered: "ok", "error"

store == <<rows, disk, shares, nextId>>
vars == <<rows, disk, shares, nextId, proc, issued, faults, answer>>

-----------------------------------------------------------------------------
(* Rows and disk entries.                                                  *)

Paths(S) == {x.path : x \in S}

At(S, path) == {x \in S : x.path = path}

Row(path, id, dir, sha) == [path |-> path, id |-> id, dir |-> dir, sha |-> sha]

Dir(path) == [path |-> path, dir |-> TRUE, data |-> NoData]

File(path, data) == [path |-> path, dir |-> FALSE, data |-> data]

IsDirAt(path) == path = <<>> \/ \E e \in At(disk, path) : e.dir

\* storage_path: the walk over the components stops at a file with ENOTDIR.
Blocked(path) == \E e \in disk : ~e.dir /\ Under(e.path, path)

\* create_dir_all: fails when a component exists and is not a directory.
MissingDirs(path) == (Ancestors(path) \cup {path}) \ Paths(disk)
CanMakeDirs(path) ==
  path = <<>> \/ \A e \in disk : AtOrUnder(e.path, path) => e.dir
WithDirs(path) ==
  IF path = <<>> THEN disk ELSE disk \cup {Dir(q) : q \in MissingDirs(path)}

Subtree(S, path) == {x \in S : AtOrUnder(path, x.path)}

\* What a removal of the tree at path that fails half way can leave.
Leftovers(path) ==
  {disk \ gone : gone \in {g \in SUBSET Subtree(disk, path) :
                             \A e \in disk \ g, d \in g : ~Under(d.path, e.path)}}

\* rename(2) of the tree at from to the name to.
CanRename(from, to) ==
  /\ At(disk, from) # {}
  /\ IsDirAt(Parent(to))
  /\ \A s \in At(disk, from), t \in At(disk, to) :
       s.dir = t.dir /\ (t.dir => Subtree(disk, to) = {t})
RenamedDisk(from, to) ==
  {e \in disk : ~AtOrUnder(from, e.path) /\ e.path # to}
    \cup {[e EXCEPT !.path = Rebase(@, from, to)] : e \in Subtree(disk, from)}

\* fs::copy of a file, copy_dir_recursive of a directory, which begins with
\* create_dir_all of the target.  Target files are overwritten, target
\* directories are merged into, an entry of the other kind is an error.  The
\* copy of a file somebody is still writing is a file of its own: it stays torn.
CopiedData(data) == IF data = Partial THEN Torn ELSE data
Copies(from, to) ==
  {[path |-> Rebase(e.path, from, to), dir |-> e.dir, data |-> CopiedData(e.data)] :
     e \in Subtree(disk, from)}
CopyBase(to, asDir) == IF asDir THEN WithDirs(to) ELSE disk
CanBeginCopy(to, asDir) == IF asDir THEN CanMakeDirs(to) ELSE IsDirAt(Parent(to))
Fitting(from, to, asDir) ==
  {c \in Copies(from, to) :
     \A e \in CopyBase(to, asDir) : (c.path = e.path) => (c.dir = e.dir)}
CanCopy(from, to, asDir) ==
  /\ CanBeginCopy(to, asDir)
  /\ \E e \in At(disk, from) : e.dir = asDir
  /\ Fitting(from, to, asDir) = Copies(from, to)
CopiedDisk(to, asDir, copied) ==
  {e \in CopyBase(to, asDir) : e.path \notin Paths(copied)} \cup copied

\* What a recursive copy that stops early can have copied.
CopiedSoFar(from, to, asDir) ==
  {done \in SUBSET Fitting(from, to, asDir) :
     \A e \in Copies(from, to), d \in done : Under(e.path, d.path) => e \in done}

\* What GET /files/download answers: the row says it is a file, the bytes
\* come from the disk.
Served(path) ==
  {e.data : e \in {f \in At(disk, path) : ~f.dir /\ \E r \in At(rows, path) : ~r.dir}}

\* Mutant: a deletion takes the links of all rows with it.
CascadeAll(kept) == shares \cap {}

\* A share link points to a row, and the row's deletion deletes it (cascade).
Cascade(kept) == shares \cap {r.id : r \in kept}

-----------------------------------------------------------------------------
(* The handlers.                                                           *)

Idle == [pc |-> "idle", op |-> "none", from |-> <<>>, to |-> <<>>,
         over |-> FALSE, data |-> NoData, rid |-> 0, k |-> 0,
         id |-> 0, dir |-> FALSE, sha |-> NoData]

FirstStep == [upload |-> "checkDisk", delete |-> "checkRow", rename |-> "readRow",
              copy |-> "readRow", mkdir |-> "checkRow", share |-> "readRow"]

\* A handler about to execute request r, the n-th of the behaviour.
Accept(r, n) == [pc |-> FirstStep[r.op], op |-> r.op, from |-> r.from, to |-> r.to,
                 over |-> r.over, data |-> r.data, rid |-> n, k |-> 0,
                 id |-> 0, dir |-> FALSE, sha |-> NoData]

Target(p) == proc[p].to
Source(p) == proc[p].from

\* The temporary sibling `.name.uuid.loza-part`: its last segment, the number
\* of the request, is as unique as the UUID and no name a client can send.
Temp(p) == Append(Parent(Target(p)), proc[p].rid)

IsTemp(path) == Last(path) \notin Name

AtStep(p, op, pc) == proc[p].op = op /\ proc[p].pc = pc

Goto(p, pc) == proc' = [proc EXCEPT ![p].pc = pc] /\ UNCHANGED answer

\* The handler returns: with an error, or with success.
Return(p, result) == proc' = [proc EXCEPT ![p] = Idle] /\ answer' = result
Refuse(p) == Return(p, "error")
Succeed(p) == Return(p, "ok")

Counters == <<issued, faults>>

Init ==
  /\ rows = {Row(Stored[i].path, i, Stored[i].dir, Stored[i].data) : i \in DOMAIN Stored}
  /\ disk = {Stored[i] : i \in DOMAIN Stored}
  /\ nextId = Len(Stored) + 1
  /\ shares = {}
  /\ proc = [p \in Procs |-> Idle]
  /\ issued = 0 /\ faults = 0 /\ answer = "none"

\* A client sends a request.  "from == to" and "to under from" are refused
\* before anything is read, so such requests are left out of Requests.
Start(p) ==
  /\ proc[p].pc = "idle"
  /\ issued < MaxRequests
  /\ issued' = issued + 1
  /\ \E r \in Requests : proc' = [proc EXCEPT ![p] = Accept(r, issued + 1)]
  /\ answer' = "none"
  /\ UNCHANGED <<store, faults>>

(* ensure_parent_directories: one INSERT .. ON CONFLICT DO NOTHING for each
   proper prefix of the target, shortest first; k of them are done.        *)
AfterParents == [upload |-> "makeParents", mkdir |-> "makeDir",
                 rename |-> "updateRows", copy |-> "readResult"]

ParentsFrom(p, k) ==
  IF k < Len(Target(p)) - 1 THEN "parentRows" ELSE AfterParents[proc[p].op]

NextParent(p, k) ==
  /\ proc' = [proc EXCEPT ![p].k = k, ![p].pc = ParentsFrom(p, k)]
  /\ UNCHANGED answer
GotoParents(p) == NextParent(p, 0)

ParentRow(p) ==
  /\ proc[p].pc = "parentRows"
  /\ LET prefix == SubSeq(Target(p), 1, proc[p].k + 1) IN
       IF prefix \in Paths(rows)
       THEN UNCHANGED <<rows, nextId>>
       ELSE /\ rows' = rows \cup {Row(prefix, nextId, TRUE, NoData)}
            /\ nextId' = nextId + 1
  /\ NextParent(p, proc[p].k + 1)
  /\ UNCHANGED <<disk, shares, Counters>>

-----------------------------------------------------------------------------
(* POST /files/upload                                                      *)

\* Mutant: overwrite=true is taken as leave to replace a directory.
UploadConflictFilesOnly(p) == ~proc[p].over /\ At(disk, Target(p)) # {}

\* The existence check looks at the disk, not at the rows.
UploadConflict(p) ==
  \E e \in At(disk, Target(p)) : e.dir \/ ~proc[p].over

UploadCheck(p) ==
  /\ AtStep(p, "upload", "checkDisk")
  /\ IF Blocked(Target(p)) \/ UploadConflict(p)
     THEN Refuse(p)
     ELSE GotoParents(p)
  /\ UNCHANGED <<store, Counters>>

UploadMakeParents(p) ==
  /\ AtStep(p, "upload", "makeParents")
  /\ IF CanMakeDirs(Parent(Target(p)))
     THEN disk' = WithDirs(Parent(Target(p))) /\ Goto(p, "createTemp")
     ELSE Refuse(p) /\ UNCHANGED disk
  /\ UNCHANGED <<rows, shares, nextId, Counters>>

\* Mutant: the upload is written under its final name.
UploadCreateInPlace(p) ==
  /\ AtStep(p, "upload", "createTemp")
  /\ disk' = (disk \ At(disk, Target(p))) \cup {File(Target(p), Partial)}
  /\ Goto(p, "stream")
  /\ UNCHANGED <<rows, shares, nextId, Counters>>

UploadCreateTemp(p) ==
  /\ AtStep(p, "upload", "createTemp")
  /\ IF IsDirAt(Parent(Target(p)))
     THEN /\ disk' = disk \cup {File(Temp(p), Partial)}
          /\ Goto(p, "stream")
     ELSE Refuse(p) /\ UNCHANGED disk
  /\ UNCHANGED <<rows, shares, nextId, Counters>>

\* The body has been written and synced, through the open file: the bytes
\* reach the temporary file even if its directory was moved meanwhile.
UploadStream(p) ==
  /\ AtStep(p, "upload", "stream")
  /\ disk' = {IF e.data = Partial /\ Last(e.path) = proc[p].rid
               THEN [e EXCEPT !.data = proc[p].data] ELSE e : e \in disk}
  /\ Goto(p, "publish")
  /\ UNCHANGED <<rows, shares, nextId, Counters>>

\* The atomic replace of the final path; on an error the temp is removed.
UploadPublish(p) ==
  /\ AtStep(p, "upload", "publish")
  /\ IF CanRename(Temp(p), Target(p))
     THEN disk' = RenamedDisk(Temp(p), Target(p)) /\ Goto(p, "upsert")
     ELSE disk' = disk \ At(disk, Temp(p)) /\ Refuse(p)
  /\ UNCHANGED <<rows, shares, nextId, Counters>>

\* Mutant: an overwrite replaces the row by a new one.
UploadReplaceRow(p) ==
  /\ AtStep(p, "upload", "upsert")
  /\ rows' = (rows \ At(rows, Target(p))) \cup {Row(Target(p), nextId, FALSE, proc[p].data)}
  /\ shares' = Cascade(rows')
  /\ nextId' = nextId + 1
  /\ Succeed(p)
  /\ UNCHANGED <<disk, Counters>>

\* INSERT .. ON CONFLICT (username, path) DO UPDATE: id and is_dir stay.
UploadUpsert(p) ==
  /\ AtStep(p, "upload", "upsert")
  /\ IF Target(p) \in Paths(rows)
     THEN /\ rows' = {IF r.path = Target(p) THEN [r EXCEPT !.sha = proc[p].data] ELSE r
                        : r \in rows}
          /\ UNCHANGED nextId
     ELSE /\ rows' = rows \cup {Row(Target(p), nextId, FALSE, proc[p].data)}
          /\ nextId' = nextId + 1
  /\ Succeed(p)
  /\ UNCHANGED <<disk, shares, Counters>>

Upload(p) ==
  \/ UploadCheck(p) \/ UploadMakeParents(p) \/ UploadCreateTemp(p)
  \/ UploadStream(p) \/ UploadPublish(p) \/ UploadUpsert(p)

-----------------------------------------------------------------------------
(* DELETE /files/delete                                                    *)

DeleteCheck(p) ==
  /\ AtStep(p, "delete", "checkRow")
  /\ IF Target(p) \in Paths(rows)
     THEN Goto(p, "removeDisk")
     ELSE Refuse(p)
  /\ UNCHANGED <<store, Counters>>

\* remove_dir_all or remove_file; a path that is already gone is fine.
DeleteDisk(p) ==
  /\ AtStep(p, "delete", "removeDisk")
  /\ IF Blocked(Target(p))
     THEN Refuse(p) /\ UNCHANGED disk
     ELSE /\ disk' = disk \ Subtree(disk, Target(p))
          /\ Goto(p, "deleteRows")
  /\ UNCHANGED <<rows, shares, nextId, Counters>>

\* Mutants: the rows below a deleted directory stay; those beside it go.
DeletedNode(path) == At(rows, path)
DeletedSiblings(path) == {r \in rows : r.path = path \/ LikeUnder(Parent(path), r.path)}

\* DELETE .. WHERE path = $2 OR path LIKE $2 || '/%'
DeletedRows(path) == {r \in rows : r.path = path \/ LikeUnder(path, r.path)}

DeleteRows(p) ==
  /\ AtStep(p, "delete", "deleteRows")
  /\ rows' = rows \ DeletedRows(Target(p))
  /\ shares' = Cascade(rows \ DeletedRows(Target(p)))
  /\ Succeed(p)
  /\ UNCHANGED <<disk, nextId, Counters>>

Delete(p) == DeleteCheck(p) \/ DeleteDisk(p) \/ DeleteRows(p)

-----------------------------------------------------------------------------
(* POST /files/rename and /files/move, POST /files/copy: the common prefix *)

\* SELECT of the source row: what the handler will answer with, and what a
\* copy will store, is read here.
ReadSource(p) ==
  /\ proc[p].op \in {"rename", "copy"} /\ proc[p].pc = "readRow"
  /\ IF Source(p) \in Paths(rows)
     THEN /\ \E r \in At(rows, Source(p)) :
               proc' = [proc EXCEPT ![p].pc = "checkTarget", ![p].dir = r.dir,
                                    ![p].sha = r.sha]
          /\ UNCHANGED answer
     ELSE Refuse(p)
  /\ UNCHANGED <<store, Counters>>

\* The conflict check looks at the rows, not at the disk.
CheckTarget(p) ==
  /\ proc[p].pc = "checkTarget"
  /\ IF Target(p) \in Paths(rows)
     THEN Refuse(p)
     ELSE Goto(p, "makeParents")
  /\ UNCHANGED <<store, Counters>>

TargetParents(p) ==
  /\ proc[p].op \in {"rename", "copy"} /\ proc[p].pc = "makeParents"
  /\ IF ~Blocked(Source(p)) /\ ~Blocked(Target(p)) /\ CanMakeDirs(Parent(Target(p)))
     THEN /\ disk' = WithDirs(Parent(Target(p)))
          /\ Goto(p, IF proc[p].op = "rename" THEN "renameDisk" ELSE "copyDisk")
     ELSE Refuse(p) /\ UNCHANGED disk
  /\ UNCHANGED <<rows, shares, nextId, Counters>>

RenameDisk(p) ==
  /\ AtStep(p, "rename", "renameDisk")
  /\ IF CanRename(Source(p), Target(p))
     THEN disk' = RenamedDisk(Source(p), Target(p)) /\ GotoParents(p)
     ELSE Refuse(p) /\ UNCHANGED disk
  /\ UNCHANGED <<rows, shares, nextId, Counters>>

\* Mutants: only the node itself is moved; the new prefix is forgotten.
IsMovedNode(p, path) == path = Source(p)
MovedRowNoPrefix(p, r) == [r EXCEPT !.path = SubSeq(@, Len(Source(p)) + 1, Len(@))]

\* UPDATE user_files SET path = .. WHERE path = $from OR path LIKE $from/%
IsMoved(p, path) == path = Source(p) \/ LikeUnder(Source(p), path)
MovedRow(p, r) == [r EXCEPT !.path = Rebase(@, Source(p), Target(p))]
MovedRows(p) == {IF IsMoved(p, r.path) THEN MovedRow(p, r) ELSE r : r \in rows}

\* Mutant: there is no unique index.
UniqueViolationNever(S) == S # S

\* The unique index on (username, path) rejects the statement as a whole.
UniqueViolation(S) == \E r, s \in S : r.path = s.path /\ r # s

RenameRows(p) ==
  /\ AtStep(p, "rename", "updateRows")
  /\ IF UniqueViolation(MovedRows(p))
     THEN Refuse(p) /\ UNCHANGED rows
     ELSE rows' = MovedRows(p) /\ Succeed(p)
  /\ UNCHANGED <<disk, shares, nextId, Counters>>

Rename(p) == RenameDisk(p) \/ RenameRows(p)

-----------------------------------------------------------------------------
(* POST /files/copy                                                        *)

\* A directory that is no longer there, or a target that does not fit, is
\* noticed only after create_dir_all of the target; nothing is removed then.
CopyDisk(p) ==
  /\ AtStep(p, "copy", "copyDisk")
  /\ IF CanCopy(Source(p), Target(p), proc[p].dir)
     THEN /\ disk' = CopiedDisk(Target(p), proc[p].dir, Copies(Source(p), Target(p)))
          /\ Goto(p, "insertRow")
     ELSE /\ IF proc[p].dir /\ CanMakeDirs(Target(p))
             THEN \E done \in CopiedSoFar(Source(p), Target(p), TRUE) :
                    disk' = CopiedDisk(Target(p), TRUE, done)
             ELSE UNCHANGED disk
          /\ Refuse(p)
  /\ UNCHANGED <<rows, shares, nextId, Counters>>

\* INSERT .. ON CONFLICT DO NOTHING of the target row, with the checksum read
\* at the beginning; rows_affected() = 0 sends the handler to the rollback.
CopyInsert(p) ==
  /\ AtStep(p, "copy", "insertRow")
  /\ IF Target(p) \in Paths(rows)
     THEN Goto(p, "rollback") /\ UNCHANGED <<rows, nextId>>
     ELSE /\ rows' = rows \cup {Row(Target(p), nextId, proc[p].dir,
                                    IF proc[p].dir THEN NoData ELSE proc[p].sha)}
          /\ nextId' = nextId + 1
          /\ IF proc[p].dir THEN Goto(p, "childRows") ELSE GotoParents(p)
  /\ UNCHANGED <<disk, shares, Counters>>

\* "Another request won the race": remove_dir_all or remove_file of disk_to.
CopyRollback(p) ==
  /\ AtStep(p, "copy", "rollback")
  /\ disk' = IF \E e \in At(disk, Target(p)) : e.dir = proc[p].dir
             THEN disk \ Subtree(disk, Target(p)) ELSE disk
  /\ Refuse(p)
  /\ UNCHANGED <<rows, shares, nextId, Counters>>

\* INSERT .. SELECT of the rows below the source, WHERE path LIKE $3 with
\* $3 = from || '/' and no '%': the pattern matches the path "from/" only,
\* which sanitize_path never lets in, so no row is copied.
CopyChildRows(p) ==
  /\ AtStep(p, "copy", "childRows")
  /\ GotoParents(p)
  /\ UNCHANGED <<store, Counters>>

\* SELECT id of the new row for the answer: an error if it is already gone.
CopyResult(p) ==
  /\ AtStep(p, "copy", "readResult")
  /\ IF Target(p) \in Paths(rows) THEN Succeed(p) ELSE Refuse(p)
  /\ UNCHANGED <<store, Counters>>

Copy(p) ==
  \/ CopyDisk(p) \/ CopyInsert(p) \/ CopyRollback(p)
  \/ CopyChildRows(p) \/ CopyResult(p)

-----------------------------------------------------------------------------
(* POST /files/mkdir                                                       *)

\* Mutant: mkdir does not make the rows of its parents.
MkdirCheckNoParents(p) ==
  /\ AtStep(p, "mkdir", "checkRow")
  /\ IF Target(p) \in Paths(rows) \/ Blocked(Target(p))
     THEN Refuse(p)
     ELSE Goto(p, "makeDir")
  /\ UNCHANGED <<store, Counters>>

MkdirCheck(p) ==
  /\ AtStep(p, "mkdir", "checkRow")
  /\ IF Target(p) \in Paths(rows) \/ Blocked(Target(p))
     THEN Refuse(p)
     ELSE GotoParents(p)
  /\ UNCHANGED <<store, Counters>>

MkdirDisk(p) ==
  /\ AtStep(p, "mkdir", "makeDir")
  /\ IF CanMakeDirs(Target(p))
     THEN disk' = WithDirs(Target(p)) /\ Goto(p, "insertRow")
     ELSE Refuse(p) /\ UNCHANGED disk
  /\ UNCHANGED <<rows, shares, nextId, Counters>>

\* A plain INSERT: a row that appeared meanwhile is a unique violation.
MkdirInsert(p) ==
  /\ AtStep(p, "mkdir", "insertRow")
  /\ IF Target(p) \in Paths(rows)
     THEN Refuse(p) /\ UNCHANGED <<rows, nextId>>
     ELSE /\ rows' = rows \cup {Row(Target(p), nextId, TRUE, NoData)}
          /\ nextId' = nextId + 1
          /\ Succeed(p)
  /\ UNCHANGED <<disk, shares, Counters>>

Mkdir(p) == MkdirCheck(p) \/ MkdirDisk(p) \/ MkdirInsert(p)

-----------------------------------------------------------------------------
(* POST /files/share: look the node's id up, then insert the link.         *)

ShareLookup(p) ==
  /\ AtStep(p, "share", "readRow")
  /\ IF Target(p) \in Paths(rows)
     THEN /\ \E r \in At(rows, Target(p)) :
               proc' = [proc EXCEPT ![p].pc = "insertShare", ![p].id = r.id]
          /\ UNCHANGED answer
     ELSE Refuse(p)
  /\ UNCHANGED <<store, Counters>>

\* The foreign key on file_id rejects a link to a row that is gone.
ShareInsert(p) ==
  /\ AtStep(p, "share", "insertShare")
  /\ IF proc[p].id \in {r.id : r \in rows}
     THEN shares' = shares \cup {proc[p].id} /\ Succeed(p)
     ELSE Refuse(p) /\ UNCHANGED shares
  /\ UNCHANGED <<rows, disk, nextId, Counters>>

Share(p) == ShareLookup(p) \/ ShareInsert(p)

-----------------------------------------------------------------------------
(* Faults.                                                                 *)

Fault(kind) ==
  /\ kind \in Faults
  /\ faults < MaxFaults
  /\ faults' = faults + 1
  /\ UNCHANGED issued

SqlSteps == {"checkRow", "readRow", "checkTarget", "parentRows", "upsert",
             "deleteRows", "updateRows", "insertRow", "childRows", "readResult",
             "insertShare"}

\* An SQL statement fails: the handler answers with the error and undoes
\* nothing.  After the upsert of an upload that is not what the code means to
\* do: its remove_file is a future that is never awaited, so it never runs.
DbFails(p) ==
  /\ Fault("db")
  /\ proc[p].pc \in SqlSteps
  /\ Refuse(p)
  /\ UNCHANGED store

DiskSteps == {"makeParents", "createTemp", "makeDir", "renameDisk"}

\* A disk operation fails without an effect.
DiskFails(p) ==
  /\ Fault("disk")
  /\ proc[p].pc \in DiskSteps
  /\ Refuse(p)
  /\ UNCHANGED store

\* remove_dir_all fails half way: some of the entries are gone.
DeleteFailsMidway(p) ==
  /\ Fault("disk")
  /\ AtStep(p, "delete", "removeDisk")
  /\ disk' \in Leftovers(Target(p))
  /\ Refuse(p)
  /\ UNCHANGED <<rows, shares, nextId>>

\* fs::copy fails half way: some of the entries are there, and of the files
\* that are, at most one is incomplete.  The handler removes nothing.  It is
\* also what a handler dropped in the middle leaves.
CopyFailsMidway(p) ==
  /\ Fault("disk")
  /\ AtStep(p, "copy", "copyDisk")
  /\ CanCopy(Source(p), Target(p), proc[p].dir)
  /\ \E done \in CopiedSoFar(Source(p), Target(p), proc[p].dir) :
       \E torn \in SUBSET {e \in done : ~e.dir} :
         /\ Cardinality(torn) <= 1
         /\ disk' = CopiedDisk(Target(p), proc[p].dir,
                               (done \ torn) \cup {File(e.path, Torn) : e \in torn})
  /\ Refuse(p)
  /\ UNCHANGED <<rows, shares, nextId>>

\* Mutants: a broken body is taken for the end of the body; a failed upload
\* leaves its temporary file; it removes the target.
UploadFailsIsEnd(p) ==
  /\ proc[p].pc = "stream" /\ Fault("stream")
  /\ Goto(p, "publish")
  /\ UNCHANGED store
UploadFailsKeepsTemp(p) ==
  /\ proc[p].pc = "stream" /\ Fault("stream")
  /\ Refuse(p)
  /\ UNCHANGED store
UploadFailsRemovesTarget(p) ==
  /\ proc[p].pc = "stream" /\ Fault("stream")
  /\ disk' = disk \ (At(disk, Temp(p)) \cup At(disk, Target(p)))
  /\ Refuse(p)
  /\ UNCHANGED <<rows, shares, nextId>>

\* The body stream breaks, or the write or the publishing rename fails: the
\* handler removes its temporary file.
UploadFails(p) ==
  /\ \/ proc[p].pc = "stream" /\ Fault("stream")
     \/ proc[p].pc = "publish" /\ Fault("disk")
  /\ disk' = disk \ At(disk, Temp(p))
  /\ Refuse(p)
  /\ UNCHANGED <<rows, shares, nextId>>

\* The connection closes and the server drops the handler at an await point:
\* no code of the handler runs after that.
Abandon(p) ==
  /\ Fault("drop")
  /\ proc[p].pc # "idle"
  /\ Return(p, "none")
  /\ UNCHANGED store

HandlerStep(p) ==
  \/ ParentRow(p)
  \/ Upload(p) \/ Delete(p)
  \/ ReadSource(p) \/ CheckTarget(p) \/ TargetParents(p)
  \/ Rename(p) \/ Copy(p) \/ Mkdir(p) \/ Share(p)

HandlerFault(p) ==
  \/ DbFails(p) \/ DiskFails(p) \/ DeleteFailsMidway(p) \/ CopyFailsMidway(p)
  \/ UploadFails(p) \/ Abandon(p)

Next == \E p \in Procs : Start(p) \/ HandlerStep(p) \/ HandlerFault(p)

Spec == Init /\ [][Next]_vars

-----------------------------------------------------------------------------
(* Properties.                                                             *)

Step == {"idle", "checkDisk", "makeParents", "createTemp", "stream", "publish",
         "removeDisk", "renameDisk", "copyDisk", "makeDir", "rollback"} \cup SqlSteps

\* Type invariant: rows name client paths only (never a temporary file), a
\* checksum is never that of an incomplete file.
TypeOK ==
  /\ rows \subseteq [path: Path, id: Nat, dir: BOOLEAN, sha: Data \cup {NoData}]
  /\ disk \subseteq [path: Seq(Name \cup Nat), dir: BOOLEAN,
                     data: Data \cup {NoData, Partial, Torn}]
  /\ shares \subseteq Nat
  /\ nextId \in Nat
  /\ proc \in [Procs -> [pc: Step, op: Ops \cup {"none"}, from: Seq(Name), to: Seq(Name),
                         over: BOOLEAN, data: Data \cup {NoData}, rid: Nat, k: Nat,
                         id: Nat, dir: BOOLEAN, sha: Data \cup {NoData}]]
  /\ issued \in Nat /\ faults \in Nat
  /\ answer \in {"none", "ok", "error"}

\* (user_files_path_idx, PRIMARY KEY, FOREIGN KEY)  A path and an id name at
\* most one row, ids are never handed out twice, and a share link always
\* points to a live row.
KeysSound ==
  /\ \A r, s \in rows : (r.path = s.path \/ r.id = s.id) => r = s
  /\ \A r \in rows : r.id < nextId
  /\ shares \subseteq {r.id : r \in rows}

\* (upload_file, "written to a temporary file .. and then atomically renamed")
\* An upload that is not complete exists under its temporary name only: no
\* failure, crash or pass ever makes it readable under a client's path.
UploadsAtomic == \A e \in disk : e.data = Partial => IsTemp(e.path)

Quiescent == \A p \in Procs : proc[p].pc = "idle"

Kinds(S) == {[path |-> x.path, dir |-> x.dir] : x \in S}

\* The listing and the disk show the same files and directories whenever no
\* handler is running.
SameTree == Quiescent => Kinds(rows) = Kinds(disk)

\* (upload_file, "the content is hashed, the checksum is stored in the DB")
\* .. and every file has the checksum of the bytes on the disk.
Listed(r) == [path |-> r.path, dir |-> r.dir, data |-> r.sha]
Agree == Quiescent => {Listed(r) : r \in rows} = disk

\* (upload_file, "the server leaves no garbage .loza-part")  A temporary file
\* belongs to an upload that is still writing it, when no request moves or
\* deletes its directory and no handler is dropped meanwhile.
NoStrayTemp ==
  \A e \in disk : IsTemp(e.path) =>
    \E p \in Procs : proc[p].pc \in {"stream", "publish"} /\ e.path = Temp(p)

\* (upload_file, "written to a temporary file .. and renamed atomically")  What
\* an upload renames to its target is what its client sent, when no request
\* moves or copies its directory meanwhile.
PublishedWhole ==
  [][\A p \in Procs :
       (AtStep(p, "upload", "publish") /\ proc'[p].pc = "upsert")
         => File(Target(p), proc[p].data) \in disk']_vars

\* When no request deletes or renames, a file that can be downloaded stays
\* downloadable: no request harms what another one has stored.
StillServed ==
  [][\A path \in Paths(disk) : Served(path) # {} => Served(path)' # {}]_vars

\* (upload_file, "UPSERT preserving the existing id")  When no request deletes
\* or renames, a node keeps its row: links to it survive every overwrite.
NodesStay ==
  [][\A r \in rows : \E s \in rows' : s.path = r.path /\ s.id = r.id /\ s.dir = r.dir]_vars

\* What a request may touch: the nodes at and below the paths it names, and the
\* directories its target needs.
InScope(p, path) ==
  \/ AtOrUnder(Source(p), path) \/ AtOrUnder(Target(p), path) \/ path \in Ancestors(Target(p))

\* A step of a handler leaves every row outside the scope of its request alone,
\* and every file that is not an upload still being written.
Whole(S) == {e \in S : ~IsTemp(e.path)}
Outside(p, S) == {x \in S : ~InScope(p, x.path)}
Confined ==
  [][\A p \in Procs :
       proc'[p] # proc[p] =>
         /\ Outside(p, rows') = Outside(p, rows)
         /\ Outside(p, Whole(disk')) = Outside(p, Whole(disk))]_vars

\* Over any step, a link is either gone together with the row it pointed to,
\* or still points to the row with that id ..
LinksKept == \A id \in shares \ shares' : id \notin {r.id : r \in rows'}

\* .. and a row changes its path by a rename of it or of a directory above it
\* only.
PathsKept ==
  \A r \in rows, s \in rows' :
    (r.id = s.id /\ r.path # s.path) =>
      \E p \in Procs : /\ proc[p].op = "rename"
                       /\ AtOrUnder(proc[p].from, r.path)
                       /\ s.path = Rebase(r.path, proc[p].from, proc[p].to)

\* (migration 0004, "a link is bound to a file by id and not by path: renaming
\* does not break it, deleting revokes it")  A link follows its node.
LinkFollowsNode == [][LinksKept /\ PathsKept]_vars

=============================================================================
