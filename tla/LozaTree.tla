-------------------------------- MODULE LozaTree --------------------------------
(***************************************************************************)
(* What the file API promises a client: one tree of files and directories  *)
(* in which every request takes effect at once or not at all.  Missing     *)
(* parent directories of a target come into being with it.                 *)
(***************************************************************************)
EXTENDS LozaPaths, FiniteSets

CONSTANTS
  Data,       \* file contents
  NoData,     \* the content of a directory
  TreePaths   \* the paths requests name, and their ancestors

VARIABLE tree \* a set of [path, dir, data]

Found(path) == {t \in tree : t.path = path}

Below(path) == {t \in tree : AtOrUnder(path, t.path)}

NewDirs(S) ==
  {[path |-> q, dir |-> TRUE, data |-> NoData] : q \in {q \in S : Found(q) = {}}}

NoFileAbove(path) == \A t \in tree : Under(t.path, path) => t.dir

TreeInit == tree \subseteq [path: TreePaths, dir: BOOLEAN, data: Data \cup {NoData}]

AddDir(path) ==
  /\ Found(path) = {} /\ NoFileAbove(path)
  /\ tree' = tree \cup NewDirs(Ancestors(path) \cup {path})

Put(path, data) ==
  /\ \A t \in Found(path) : ~t.dir
  /\ NoFileAbove(path)
  /\ tree' = (tree \ Found(path)) \cup NewDirs(Ancestors(path))
               \cup {[path |-> path, dir |-> FALSE, data |-> data]}

Drop(path) ==
  /\ Found(path) # {}
  /\ tree' = tree \ Below(path)

Move(from, to) ==
  /\ Found(from) # {} /\ Found(to) = {}
  /\ ~AtOrUnder(from, to) /\ NoFileAbove(to)
  /\ tree' = (tree \ Below(from)) \cup NewDirs(Ancestors(to))
               \cup {[t EXCEPT !.path = Rebase(@, from, to)] : t \in Below(from)}

CopyFile(from, to) ==
  /\ \E t \in Found(from) : ~t.dir /\ Put(to, t.data)
  /\ Found(to) = {}

TreeNext ==
  \/ \E path \in TreePaths : AddDir(path) \/ Drop(path)
  \/ \E path \in TreePaths, data \in Data : Put(path, data)
  \/ \E from, to \in TreePaths : Move(from, to) \/ CopyFile(from, to)

TreeSpec == TreeInit /\ [][TreeNext]_tree

=============================================================================
