------------------------------ MODULE MCTasking ------------------------------
(***************************************************************************)
(* Three tasks for TLC, each of which calls yield from one place, with or  *)
(* without a local on its stack and different marks in its registers.      *)
(***************************************************************************)
EXTENDS Tasking

CONSTANTS t1, t2, t3

MCTasks == {t1, t2, t3}

MCOutcomes == {[mark |-> 1, locals |-> 0], [mark |-> 2, locals |-> 1]}

=============================================================================
