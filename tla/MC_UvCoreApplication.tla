------------------------ MODULE MC_UvCoreApplication ------------------------
(* A small instance of UvCoreApplication. *)
EXTENDS UvCoreApplication

CONSTANTS t1, t2
MCTimers == {t1, t2}
=============================================================================
