--------------------------- MODULE MCLozaSequential ---------------------------
(***************************************************************************)
(* One request at a time, nothing fails: the handlers implement LozaTree.  *)
(***************************************************************************)
EXTENDS LozaSequential

CONSTANTS a, b, f, c1, c2, p1

\* f is always a file; a and b may be either.  Depth 2 before renames, and a
\* renamed directory may bring a third level.
Tops == {<<a>>, <<b>>}
Leaves == {<<f>>, <<a, f>>, <<b, f>>}
All == Tops \cup Leaves \cup {<<a, b>>}

Req(op, from, to, over, data) ==
  [op |-> op, from |-> from, to |-> to, over |-> over, data |-> data]

MCRequests ==
  {Req("upload", q, q, over, d) : q \in Leaves \cup {<<a>>}, over \in BOOLEAN, d \in Data}
  \cup {Req(op, q, q, FALSE, NoData) : op \in {"delete", "mkdir"}, q \in Tops \cup {<<a, b>>}}
  \cup {Req("delete", q, q, FALSE, NoData) : q \in Leaves}
  \cup {Req("rename", q, r, FALSE, NoData) : q, r \in Tops \cup {<<a, b>>}}
  \cup {Req(op, q, r, FALSE, NoData) : op \in {"rename", "copy"}, q, r \in Leaves}

Legal(r) == r.op \in {"rename", "copy"} => ~AtOrUnder(r.from, r.to)

LegalRequests == {r \in MCRequests : Legal(r)}

MCStored == <<>>

\* The paths that requests name, and the directories above them.
MCTreePaths == All

=============================================================================
