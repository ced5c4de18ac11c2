------------------------------ MODULE MCLozaLinks ------------------------------
(***************************************************************************)
(* Instance of LozaLinks: a shared folder with two pictures and a folder   *)
(* that holds one more, with a link for everyone and one with a password. *)
(***************************************************************************)
EXTENDS LozaLinks

CONSTANTS d, x, y, pw1, pw2

MCInside == {[path |-> <<d>>, dir |-> TRUE, show |-> FALSE],
             [path |-> <<d, x>>, dir |-> FALSE, show |-> TRUE],
             [path |-> <<x>>, dir |-> FALSE, show |-> TRUE],
             [path |-> <<y>>, dir |-> FALSE, show |-> TRUE]}

MCEarlier == {[token |-> 4, pass |-> pw1, active |-> TRUE],
              [token |-> 3, pass |-> None, active |-> TRUE]}

Budget(made, acts, visits, fails) ==
  [links |-> made, acts |-> acts, visits |-> visits, fails |-> fails]

\* An owner alone, a visitor alone, and both at a time.
MCBudgets == {Budget(2, 4, 0, 1), Budget(2, 5, 0, 0), Budget(0, 1, 5, 1), Budget(0, 2, 4, 0), Budget(1, 2, 2, 0)}

=============================================================================
