----------------------------- MODULE MCLozaStorage -----------------------------
(***************************************************************************)
(* Instances of LozaStorage: the requests of each run.                     *)
(***************************************************************************)
EXTENDS LozaStorage

CONSTANTS a, b, f, c1, c2, p1, p2

Req(op, from, to, over, data) ==
  [op |-> op, from |-> from, to |-> to, over |-> over, data |-> data]

Put(path, over, data) == Req("upload", path, path, over, data)
On(op, path) == Req(op, path, path, FALSE, NoData)
Move(op, from, to) == Req(op, from, to, FALSE, NoData)

\* A directory with one file.  <<b>> does not exist, so that targets below it
\* need a parent.
OneFile == << [path |-> <<a>>, dir |-> TRUE, data |-> NoData],
              [path |-> <<a, f>>, dir |-> FALSE, data |-> c1] >>

EveryRequest ==
  {Put(<<a, f>>, TRUE, c2), Put(<<b, f>>, FALSE, c2),
   On("delete", <<a>>), On("delete", <<b, f>>), On("mkdir", <<b>>), On("share", <<a, f>>),
   Move("rename", <<a>>, <<b>>), Move("rename", <<a, f>>, <<b, f>>),
   Move("copy", <<a>>, <<b>>), Move("copy", <<a, f>>, <<b, f>>)}

\* Requests that change directories under the walk of a pass.
PassRequests ==
  {Put(<<b, f>>, FALSE, c2), On("delete", <<a>>),
   Move("rename", <<a>>, <<b>>), Move("copy", <<a>>, <<b>>), Move("copy", <<a, f>>, <<b, f>>)}

\* The name a is "_", which as a pattern also matches the name b.
AMatchesB == {<<a, b>>}

=============================================================================
