------------------------------ MODULE LozaStorage ------------------------------
(***************************************************************************)
(* The server's storage over its restarts: the request handlers of         *)
(* LozaFiles, crashes, and the reconciliation of rows and disk that every  *)
(* start of the server spawns beside the handlers                          *)
(* (backend/src/db/consistency.rs, spawned by main.rs).                    *)
(***************************************************************************)
EXTENDS LozaFiles

CONSTANTS
  PartName,      \* the names among Name that end in ".loza-part": no check of
                 \* a path refuses them
  QuietRecovery  \* TRUE: clients send nothing until the pass has ended.  The
                 \* server does not enforce it, it is an assumption on clients

ASSUME PartAssumption == PartName \subseteq Name
ASSUME QuietAssumption == QuietRecovery \in BOOLEAN

VARIABLES
  rec,   \* the reconciliation pass: its step, the row paths it read first,
         \* the ones still to compare, the disk entries listed and those of
         \* them still to deal with
  calm   \* bounded by 2: whole passes since a handler last did anything and
         \* since an operation of a pass last failed

allvars == <<vars, rec, calm>>

RecOff == [pc |-> "off", snap |-> {}, todo |-> {}, victim |-> <<>>,
           pending |-> {}, listed |-> {}, ok |-> TRUE]

RecStart == [RecOff EXCEPT !.pc = "snapshot"]

InitStorage ==
  /\ Init
  /\ rec = RecStart
  /\ calm = 0

RecGoto(pc) == rec' = [rec EXCEPT !.pc = pc]

\* Mutant: the copy of the paths the walk consults is not filled.
RecSnapshotEmpty ==
  /\ rec.pc = "snapshot"
  /\ rec' = [rec EXCEPT !.pc = "rows", !.todo = Paths(rows)]
  /\ UNCHANGED <<vars, calm>>

\* SELECT path, is_dir: every later decision uses this copy.
RecSnapshot ==
  /\ rec.pc = "snapshot"
  /\ rec' = [rec EXCEPT !.pc = "rows", !.snap = Paths(rows), !.todo = Paths(rows)]
  /\ UNCHANGED <<vars, calm>>

\* Mutant: a row that is on the disk is looked up again and again.
RecCheckRowAgain ==
  /\ rec.pc = "rows"
  /\ \E path \in rec.todo :
       rec' = IF At(disk, path) # {}
              THEN rec
              ELSE [rec EXCEPT !.todo = @ \ {path}, !.pc = "deleteRow", !.victim = path]
  /\ UNCHANGED <<vars, calm>>

\* DB to disk: look the next row of the copy up on the disk ..
RecCheckRow ==
  /\ rec.pc = "rows"
  /\ \E path \in rec.todo :
       rec' = IF At(disk, path) # {}
              THEN [rec EXCEPT !.todo = @ \ {path}]
              ELSE [rec EXCEPT !.todo = @ \ {path}, !.pc = "deleteRow", !.victim = path]
  /\ UNCHANGED <<vars, calm>>

\* Mutant: the row of a missing entry is only reported.
RecReportRow ==
  /\ rec.pc = "deleteRow"
  /\ RecGoto("rows")
  /\ UNCHANGED <<vars, calm>>

\* .. and delete by path the row of a missing one.
RecDeleteRow ==
  /\ rec.pc = "deleteRow"
  /\ rows' = rows \ At(rows, rec.victim)
  /\ shares' = Cascade(rows \ At(rows, rec.victim))
  /\ RecGoto("rows")
  /\ UNCHANGED <<disk, nextId, proc, issued, faults, answer, calm>>

\* Disk to DB: the walk opens a directory.  What it lists then is what it will
\* deal with; left is what it has still to deal with in the directories above.
Children(dir) == {e \in disk : Parent(e.path) = dir}
Listing(dir, left) ==
  [rec EXCEPT !.pc = "walk", !.pending = left \cup Kinds(Children(dir)),
              !.listed = @ \cup Paths(Children(dir))]

RecRowsDone ==
  /\ rec.pc = "rows" /\ rec.todo = {}
  /\ rec' = Listing(<<>>, {})
  /\ UNCHANGED <<vars, calm>>

\* An entry that appears in a directory not yet read to its end may be listed.
RecListMore ==
  /\ rec.pc = "walk"
  /\ \E e \in disk :
       /\ e.path \notin rec.listed
       /\ \E q \in rec.pending : Under(Parent(e.path), q.path)
       /\ Parent(e.path) = <<>> \/ Parent(e.path) \in rec.listed
       /\ rec' = [rec EXCEPT !.pending = @ \cup Kinds({e}), !.listed = @ \cup {e.path}]
  /\ UNCHANGED <<vars, calm>>

\* The suffix of the name decides what is a temporary artifact.
IsTempArtifact(path) == IsTemp(path) \/ Last(path) \in PartName

\* Mutants: directories without a row are left alone; an entry is looked up by
\* its name instead of its path.
IsOrphanFile(e) == ~e.dir /\ (IsTempArtifact(e.path) \/ e.path \notin rec.snap)
IsOrphanName(e) ==
  (~e.dir /\ IsTempArtifact(e.path)) \/ <<Last(e.path)>> \notin rec.snap

IsOrphan(e) == (~e.dir /\ IsTempArtifact(e.path)) \/ e.path \notin rec.snap

\* A listed file or directory has its row in the copy: go on, or down.  A
\* directory that is gone by then is an error, and an error ends the walk.
RecKeep ==
  /\ rec.pc = "walk"
  /\ \E e \in rec.pending :
       /\ ~IsOrphan(e)
       /\ rec' = IF ~e.dir THEN [rec EXCEPT !.pending = @ \ {e}]
                 ELSE IF IsDirAt(e.path) THEN Listing(e.path, rec.pending \ {e})
                 ELSE RecOff
  /\ UNCHANGED <<vars, calm>>

\* It has none: remove it, as what it was when it was listed.
RecRemove ==
  /\ rec.pc = "walk"
  /\ \E e \in rec.pending :
       /\ IsOrphan(e)
       /\ IF \E d \in At(disk, e.path) : d.dir = e.dir
          THEN /\ disk' = disk \ Subtree(disk, e.path)
               /\ rec' = [rec EXCEPT !.pending = @ \ {e}]
          ELSE rec' = RecOff /\ UNCHANGED disk
  /\ UNCHANGED <<rows, shares, nextId, proc, issued, faults, answer, calm>>

RecDone ==
  /\ rec.pc = "walk" /\ rec.pending = {}
  /\ rec' = RecOff
  /\ calm' = IF rec.ok /\ calm < 2 THEN calm + 1 ELSE calm
  /\ UNCHANGED vars

RecStep ==
  \/ RecSnapshot \/ RecCheckRow \/ RecDeleteRow \/ RecRowsDone
  \/ RecListMore \/ RecKeep \/ RecRemove \/ RecDone

\* A failed read of the rows skips the user.  A failed look at the disk, for
\* whatever reason, counts as a missing entry.  A failed DELETE is logged and
\* skipped.
RecFault ==
  /\ \/ rec.pc = "snapshot" /\ Fault("db") /\ rec' = RecOff
     \/ rec.pc = "rows" /\ Fault("disk")
          /\ \E path \in rec.todo :
               rec' = [rec EXCEPT !.todo = @ \ {path}, !.pc = "deleteRow",
                                  !.victim = path, !.ok = FALSE]
     \/ rec.pc = "deleteRow" /\ Fault("db") /\ rec' = [rec EXCEPT !.pc = "rows", !.ok = FALSE]
  /\ calm' = 0
  /\ UNCHANGED <<store, proc, answer>>

\* A failed operation ends the walk, a failed removal perhaps half way.
RecWalkFails ==
  /\ Fault("disk")
  /\ rec.pc = "walk"
  /\ disk' \in {disk} \cup UNION {Leftovers(e.path) : e \in {q \in rec.pending : IsOrphan(q)}}
  /\ rec' = RecOff
  /\ calm' = 0
  /\ UNCHANGED <<rows, shares, nextId, proc, answer>>

\* The process dies and is started again: rows and disk survive, handlers
\* and a running pass do not, and a new pass begins.
Crash ==
  /\ Fault("crash")
  /\ proc' = [p \in Procs |-> Idle]
  /\ rec' = RecStart
  /\ answer' = "none"
  /\ UNCHANGED <<store, calm>>

\* A handler's step disturbs a running pass and ends the calm.
Disturb == rec' = [rec EXCEPT !.ok = (rec.pc = "off")] /\ calm' = 0

Serve ==
  \E p \in Procs :
    /\ \/ Start(p) /\ (QuietRecovery => rec.pc = "off")
       \/ HandlerStep(p) \/ HandlerFault(p)
    /\ Disturb

NextStorage == Serve \/ RecStep \/ RecFault \/ RecWalkFails \/ Crash

\* tokio polls a spawned task that can make progress.  Of the handlers nothing
\* is assumed: an upload may wait for its client for ever.
Fairness == WF_allvars(RecStep)

SpecStorage == InitStorage /\ [][NextStorage]_allvars /\ Fairness

-----------------------------------------------------------------------------
(* Properties.                                                             *)

\* The disk is a tree: one entry per path, and every entry in a directory.
DiskIsTree ==
  /\ \A d, e \in disk : d.path = e.path => d = e
  /\ \A e \in disk : IsDirAt(Parent(e.path))

\* Type invariant, of the disk's shape too: the operating system keeps it a
\* tree, so the steps of the handlers must have been modelled to.
RecTypeOK ==
  /\ TypeOK
  /\ DiskIsTree
  /\ rec.pc \in {"off", "snapshot", "rows", "deleteRow", "walk"}
  /\ rec.todo \subseteq rec.snap /\ rec.snap \subseteq Path
  /\ Paths(rec.pending) \subseteq rec.listed /\ rec.ok \in BOOLEAN
  /\ calm \in 0..2

\* After one undisturbed pass nothing is on the disk without a row (in
\* particular no .loza-part), and every row whose parent directories all have
\* rows is on the disk.
PassCleans ==
  (calm >= 1 /\ Quiescent) =>
    /\ Paths(disk) \subseteq Paths(rows)
    /\ \A r \in rows : Ancestors(r.path) \subseteq Paths(rows) => r.path \in Paths(disk)

\* Two undisturbed passes always reach it.  One does not: of a copy cut off
\* between its row and its parents' rows, the first pass keeps the row, since
\* its file exists, and then removes the unlisted directory with the file.
TwoPassesReconcile == (calm = 2 /\ Quiescent) => Paths(disk) = Paths(rows)

\* A pass that runs alone removes no file that is listed, in directories that
\* are listed: it repairs what is missing, it never loses data.
Listable(path) == Ancestors(path) \cup {path} \subseteq Paths(rows)
PassKeepsFiles ==
  [][(rec.pc # "off" /\ Quiescent) =>
       \A e \in disk : (~e.dir /\ Listable(e.path)) => e \in disk']_allvars

\* Every pass comes to an end, however the handlers are scheduled beside it
\* and even if they hang.
PassEnds == (rec.pc # "off") ~> (rec.pc = "off")

=============================================================================
