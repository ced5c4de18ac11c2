----------------------------- MODULE MCLozaBrowser -----------------------------
(***************************************************************************)
(* Instances of LozaBrowser: an account with a folder a, a file a/f and a  *)
(* file g, and users of several habits.                                    *)
(***************************************************************************)
EXTENDS LozaBrowser

CONSTANTS a, f, g, s, q1, q2

MCStored == {[id |-> [at |-> 0, born |-> <<a>>], path |-> <<a>>, dir |-> TRUE],
             [id |-> [at |-> 0, born |-> <<a, f>>], path |-> <<a, f>>, dir |-> FALSE],
             [id |-> [at |-> 0, born |-> <<g>>], path |-> <<g>>, dir |-> FALSE]}

MCHit == {<<q1, a>>, <<q1, f>>, <<q2, g>>}

Habit(gestures, acts, others, fails) ==
  [habit |-> gestures, acts |-> acts, others |-> others, fails |-> fails]

MCHabits == {Habit({"open", "crumb", "history", "refresh"}, 4, 1, 1),
             Habit({"open", "search", "all", "cut"}, 5, 0, 1),
             Habit({"open", "all", "cut", "copy", "paste"}, 5, 0, 1),
             Habit({"open", "upload"}, 2, 0, 1),
             Habit({"pick", "range", "delete"}, 3, 1, 1),
             Habit({"open", "menu", "rename", "cut"}, 5, 0, 1),
             Habit({"menu", "input", "share", "open", "escape", "close", "edit"}, 5, 0, 0)}

\* The habit in which a cut is lost.
CutHabit == {Habit({"pick", "cut", "paste", "open"}, 6, 0, 0)}

MCTreePaths == {<<n>> : n \in Name} \cup {<<m, n>> : m, n \in Name}

=============================================================================
