----------------------------- MODULE MC_Subject -----------------------------
(* A small instance of Subject. *)
EXTENDS Subject

CONSTANTS u1, u2, o1, o2, empty
MCUsers == {u1, u2}
MCFunctions == {o1, o2}
MCObservers == MCFunctions \cup {empty}

Symmetric == Permutations(MCUsers) \cup Permutations(MCFunctions)
=============================================================================
