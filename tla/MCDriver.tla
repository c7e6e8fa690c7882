------------------------------ MODULE MCDriver ------------------------------
(***************************************************************************)
(* Driver on a small tree: a chain a1 a2 a3 a4 and a fork b2 b3 b4 off a1. *)
(* a2 holds two events, a3 and b2 none, so that walks cross empty blocks.  *)
(***************************************************************************)
EXTENDS Driver

CONSTANTS a1, a2, a3, a4, b2, b3, b4

MCHash == {a1, a2, a3, a4, b2, b3, b4}

MCNumber ==
    [h \in Hash |-> CASE h = a1 -> 1 [] h \in {a2, b2} -> 2 [] h \in {a3, b3} -> 3 [] OTHER -> 4]

MCParent ==
    [h \in Hash |-> CASE h \in {a1, a2, b2} -> a1 [] h = a3 -> a2 [] h = a4 -> a3
                        [] h = b3 -> b2 [] OTHER -> b3]

MCLogs ==
    [h \in Hash |-> CASE h = a2 -> <<0, 1>> [] h \in {a3, b2} -> <<>> [] OTHER -> <<0>>]

MCForeign == {[block |-> 2, log |-> 0, hash |-> a2]}

Allowed(moves, errors, faults, calls, refusals, prunings, crashes) ==
    [moves |-> moves, errors |-> errors, faults |-> faults, calls |-> calls,
     refusals |-> refusals, prunings |-> prunings, crashes |-> crashes]

\* Three stories: reorganisations around failing calls; a crash, a refused offer and
\* a pruned source; a failing fold and the caller's hand.
MCBudgets == {Allowed(3, 1, 0, 0, 0, 0, 0), Allowed(2, 0, 0, 0, 1, 1, 1),
              Allowed(1, 0, 1, 2, 0, 0, 0)}
=============================================================================
