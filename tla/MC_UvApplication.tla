-------------------------- MODULE MC_UvApplication --------------------------
(***************************************************************************)
(* Small instances of what runs on the thread of the event loop: the       *)
(* application with its handles, the functions posted to it, and the child *)
(* processes it watches.  Each owns its variables: a behaviour uses one of *)
(* them, chosen at the beginning.                                          *)
(***************************************************************************)
EXTENDS UvCoreApplication, UvInvokeAsync, UvPosixProcess

VARIABLE uses  \* what the behaviour uses

allVars == <<uses, appVars, asyncVars, processVars>>

MCInit ==
    /\ uses \in {"handles", "functions", "processes"}
    /\ AppInit /\ AsyncInit /\ ProcessInit

HandlesNext == uses = "handles" /\ AppNext /\ UNCHANGED <<asyncVars, processVars>>
FunctionsNext == uses = "functions" /\ AsyncNext /\ UNCHANGED <<appVars, processVars>>
ProcessesNext == uses = "processes" /\ ProcessNext /\ UNCHANGED <<appVars, asyncVars>>

(* Every function is run or the loop is stopped; every process object is   *)
(* destroyed.                                                              *)
Finished ==
    /\ \/ uses = "functions" /\ closing /\ Len(submitted) = MaxPosts
       \/ uses = "processes" /\ destroyed = Processes
    /\ UNCHANGED allVars

MCNext ==
    \/ (HandlesNext \/ FunctionsNext \/ ProcessesNext) /\ UNCHANGED uses
    \/ Finished

MCSpec ==
    /\ MCInit /\ [][MCNext]_allVars
    /\ uses = "handles" => AppFairness
    /\ uses = "functions" => AsyncFairness
    /\ uses = "processes" => ProcessFairness
=============================================================================
