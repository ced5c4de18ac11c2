------------------------------- MODULE LozaPaths -------------------------------
(***************************************************************************)
(* Relative paths of a user's storage, as sanitize_path accepts them       *)
(* (backend/src/models/file.rs): a non-empty sequence of names.  "docs/a"  *)
(* is <<docs, a>>.  The user's root, the empty string in the code, is the  *)
(* empty sequence; it is nobody's row.                                     *)
(***************************************************************************)
EXTENDS Naturals, Sequences, SequencesExt

CONSTANTS
  Name,   \* the names a client may use as one segment of a path
  Wild    \* <<n, m>>: the name n, read as an SQL LIKE pattern, matches m.
          \* Every name matches itself; a name with '_' also matches others

ASSUME NameAssumption == Wild \subseteq Name \X Name

Path == Seq(Name) \ {<<>>}

Parent(path) == Front(path)

\* "path is below dir": to.starts_with(from + "/") in the code.
Under(dir, path) == IsStrictPrefix(dir, path)

AtOrUnder(dir, path) == path = dir \/ Under(dir, path)

\* The proper prefixes of a path: the directories its entry lives in.
Ancestors(path) == {SubSeq(path, 1, i) : i \in 1..(Len(path) - 1)}

\* path LIKE dir || '/%' : the names of dir are patterns, not literals.
LikeUnder(dir, path) ==
  /\ Len(dir) < Len(path)
  /\ \A i \in 1..Len(dir) : dir[i] = path[i] \/ <<dir[i], path[i]>> \in Wild

\* to || SUBSTRING(path FROM length(from) + 1)
Rebase(path, from, to) == to \o SubSeq(path, Len(from) + 1, Len(path))

=============================================================================
