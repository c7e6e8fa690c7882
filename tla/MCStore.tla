------------------------------ MODULE MCStore -------------------------------
(***************************************************************************)
(* Store on small budgets of mishaps.                                      *)
(***************************************************************************)
EXTENDS Store

Mishaps(power, kills, io) == [power |-> power, kills |-> kills, io |-> io]

\* A machine that loses its power, and one whose process dies and whose calls
\* fail but which keeps running.
MCBudgets == {Mishaps(3, 0, 0), Mishaps(0, 2, 3)}

\* Both on one machine.
MixedBudgets == {Mishaps(1, 1, 0)}
=============================================================================
