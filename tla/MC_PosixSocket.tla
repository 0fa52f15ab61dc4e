--------------------------- MODULE MC_PosixSocket ---------------------------
(* A small instance of PosixSocket. *)
EXTENDS PosixSocket

CONSTANTS s1, s2
MCSockets == {s1, s2}
=============================================================================
