----------------------------- MODULE MC_Wakeups -----------------------------
(***************************************************************************)
(* Small instances of the two threads that other threads wake up: that of  *)
(* a WorkerThread, and the service thread of a WebSocket connection.  Each *)
(* owns its variables: a behaviour uses one of them, chosen at the         *)
(* beginning.                                                              *)
(***************************************************************************)
EXTENDS WorkerThread, WebSocketClient

CONSTANTS owner, other, t1, worker
MCCallers == {owner, other}
MCIntervals == {1, 2}
MCElapsed == {0, 2}

VARIABLE uses  \* what the behaviour uses

allVars == <<uses, vars, webSocketVars>>

MCInit == uses \in {"worker", "connection"} /\ Init /\ WebSocketInit

WorkerStep == uses = "worker" /\ Next /\ UNCHANGED <<uses, webSocketVars>>
ConnectionStep == uses = "connection" /\ WebSocketNext /\ UNCHANGED <<uses, vars>>
MCNext == WorkerStep \/ ConnectionStep

MCSpec ==
    /\ MCInit /\ [][MCNext]_allVars
    /\ uses = "worker" => Fairness
    /\ uses = "connection" => WebSocketFairness
=============================================================================
