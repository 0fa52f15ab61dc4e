------------------------ MODULE MC_DispatcherThread ------------------------
(* A small instance of DispatcherThread. *)
EXTENDS DispatcherThread

CONSTANTS owner, other, job, empty
MCCallers == {owner, other}
MCIntervals == {1}
MCElapsed == {0, 1}
MCTasks == {job, empty}
=============================================================================
