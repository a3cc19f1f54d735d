---------------------------- MODULE MCScheduler ----------------------------
(* Model values and symmetry for the runs of Scheduler.                    *)
EXTENDS Scheduler, TLC

Symmetry == Permutations(Tasks \ {IdleTask, Shell})
=============================================================================
