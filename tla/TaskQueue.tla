----------------------------- MODULE TaskQueue -----------------------------
(***************************************************************************)
(* What a dispatcher promises to those who dispatch to it, without the     *)
(* threads, flags and locks that keep the promise: tasks are taken in the  *)
(* order they were submitted, each once, one at a time, and an empty       *)
(* function is taken without being run.                                    *)
(***************************************************************************)
EXTENDS Naturals, Sequences

CONSTANTS
    Tasks,  \* the functions that are submitted
    Empty   \* the one of them that holds no target

VARIABLES
    submitted,  \* the tasks, in the order they were submitted
    executed,   \* the tasks that were taken, in the order they were taken
    busy        \* a task is running

taskVars == <<submitted, executed, busy>>

Init ==
    /\ submitted = <<>>
    /\ executed = <<>>
    /\ busy = FALSE

Submit(t) ==
    /\ submitted' = Append(submitted, t)
    /\ UNCHANGED <<executed, busy>>

Take ==
    /\ ~busy
    /\ Len(executed) < Len(submitted)
    /\ LET t == submitted[Len(executed) + 1]
       IN  /\ executed' = Append(executed, t)
           /\ busy' = (t # Empty)
    /\ UNCHANGED submitted

Finish ==
    /\ busy
    /\ busy' = FALSE
    /\ UNCHANGED <<submitted, executed>>

Next == (\E t \in Tasks : Submit(t)) \/ Take \/ Finish

Spec == Init /\ [][Next]_taskVars
=============================================================================
