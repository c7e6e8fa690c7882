----------------------------- MODULE MCRotorTree ----------------------------
(***************************************************************************)
(* RotorTree on small budgets of mishaps.                                  *)
(***************************************************************************)
EXTENDS RotorTree

Mishaps(opens, power, kills, flush, checkpoint, log_) ==
    [opens |-> opens, power |-> power, kills |-> kills, flush |-> flush,
     checkpoint |-> checkpoint, log |-> log_]

\* Power failures and kills in turn; a call of a flush or of a checkpoint that fails
\* before a power failure; a failing log write of a checkpoint in a process that is
\* not restarted (MCRotorTreeRetry restarts it).
MCBudgets ==
    {Mishaps(3, 1, 1, 0, 0, 0), Mishaps(2, 1, 0, 1, 0, 0), Mishaps(2, 1, 0, 0, 1, 0),
     Mishaps(1, 0, 0, 0, 0, 1)}

\* The log write of a checkpoint fails and the process is restarted later.
LogFailsBudgets == {Mishaps(2, 0, 1, 0, 0, 1)}

\* A flush whose sync fails, so that its frames are in the file only; a power failure
\* behind a checkpoint; and one more open after the clean end of the session that
\* follows.
ReuseBudgets == {Mishaps(3, 1, 0, 1, 0, 0)}

\* Nothing goes wrong.
QuietBudgets == {Mishaps(1, 0, 0, 0, 0, 0)}
=============================================================================
