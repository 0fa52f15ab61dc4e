------------------------- MODULE MC_UvPosixProcess -------------------------
(* Small instances of UvPosixProcess. *)
EXTENDS UvPosixProcess

CONSTANTS p1, p2
MCProcesses == {p1, p2}
=============================================================================
