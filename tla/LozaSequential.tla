----------------------------- MODULE LozaSequential -----------------------------
(***************************************************************************)
(* What a client sees of the rows and the disk of LozaFiles, and that it   *)
(* is the tree LozaTree promises, as long as requests come one at a time   *)
(* and nothing fails.                                                      *)
(***************************************************************************)
EXTENDS LozaFiles

CONSTANT TreePaths  \* the paths LozaTree is asked about

ASSUME TreePathsAssumption == TreePaths \subseteq Path

-----------------------------------------------------------------------------
(* The refinement.  While a rename has moved the disk but not yet the rows, *)
(* the bytes of a row are found at their new place.                         *)

Midway(p) == proc[p].op = "rename" /\ proc[p].pc \in {"parentRows", "updateRows"}

Where(path) ==
  IF \E p \in Procs : Midway(p) /\ AtOrUnder(proc[p].from, path)
  THEN LET p == CHOOSE p \in Procs : Midway(p)
       IN  Rebase(path, proc[p].from, proc[p].to)
  ELSE path

\* What a client can see: the rows with an entry of their kind on the disk.
SeenOf(r) ==
  {[path |-> r.path, dir |-> r.dir, data |-> e.data] :
     e \in {d \in At(disk, Where(r.path)) : d.dir = r.dir}}

Seen == UNION {SeenOf(r) : r \in rows}

\* A copied file is there before the rows of its new parent directories are.
View ==
  Seen \cup {[path |-> q, dir |-> TRUE, data |-> NoData] :
               q \in UNION {Ancestors(t.path) : t \in Seen}}

Promised == INSTANCE LozaTree WITH tree <- View

\* Each request has the effect the tree promises, in one visible step.
ImplementsTree == Promised!TreeSpec

\* The steps of a handler that may find the request impossible: the checks, and
\* create_dir_all where no step before it has changed rows or disk.  An upload
\* inserts the rows of the parents first, a mkdir too.
Refusing(q) ==
  \/ q.pc \in {"checkDisk", "checkRow", "readRow", "checkTarget"}
  \/ q.pc = "makeParents" /\ q.op \in {"rename", "copy"}

\* A request that has begun to change rows or disk is not refused any more:
\* in this setting every refusal comes from a step that precedes all changes.
NoLateRefusal ==
  [][\A p \in Procs :
       (proc[p].pc # "idle" /\ proc'[p].pc = "idle" /\ answer' = "error")
         => Refusing(proc[p]) /\ UNCHANGED store]_vars

=============================================================================
