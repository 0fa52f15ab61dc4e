-------------------------- MODULE MC_WorkerThread --------------------------
(* A small instance of WorkerThread. *)
EXTENDS WorkerThread

CONSTANTS owner, other
MCCallers == {owner, other}
MCIntervals == {1, 2}
MCElapsed == {0, 2}
=============================================================================
