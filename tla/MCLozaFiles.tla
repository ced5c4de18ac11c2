------------------------------ MODULE MCLozaFiles ------------------------------
(***************************************************************************)
(* Instances of LozaFiles: the requests of each run.                       *)
(***************************************************************************)
EXTENDS LozaFiles

CONSTANTS a, b, f, c1, c2, p1, p2

Req(op, from, to, over, data) ==
  [op |-> op, from |-> from, to |-> to, over |-> over, data |-> data]

Put(path, over, data) == Req("upload", path, path, over, data)
On(op, path) == Req(op, path, path, FALSE, NoData)
Move(op, from, to) == Req(op, from, to, FALSE, NoData)

\* A directory with one file.
OneFile == << [path |-> <<a>>, dir |-> TRUE, data |-> NoData],
              [path |-> <<a, f>>, dir |-> FALSE, data |-> c1] >>

\* Requests that only add: uploads with and without overwrite, into the
\* stored directory and into directories nobody has made yet, mkdirs of those
\* directories, links.  f is always a file, a and b are directories.
CreateRequests ==
  {Put(<<a, f>>, TRUE, c2), Put(<<b, f>>, FALSE, c1), Put(<<b, f>>, TRUE, c2),
   Put(<<b, a, f>>, FALSE, c2), Put(<<f>>, FALSE, c1),
   On("mkdir", <<b>>), On("mkdir", <<b, a>>), On("share", <<a, f>>), On("share", <<b, f>>)}

CopyRequests == {Move("copy", <<a, f>>, <<b, f>>), Put(<<b, f>>, FALSE, c2)}

\* Every operation on the file, its directory and one beside it that is not
\* there at first.
EveryRequest ==
  {Put(<<a, f>>, TRUE, c2), Put(<<b, f>>, FALSE, c2),
   On("delete", <<a>>), On("delete", <<b, f>>), On("mkdir", <<b>>), On("share", <<a, f>>),
   Move("rename", <<a>>, <<b>>), Move("rename", <<a, f>>, <<b, f>>),
   Move("copy", <<a>>, <<b>>), Move("copy", <<a, f>>, <<b, f>>)}

=============================================================================
