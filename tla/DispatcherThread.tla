-------------------------- MODULE DispatcherThread --------------------------
(***************************************************************************)
(* katla::DispatcherThread: a queue of functions in front of a             *)
(* WorkerThread whose work takes one function from the queue and runs it.  *)
(*                                                                         *)
(* The dispatcher's own m_mutex covers only the push and the pop, so each  *)
(* of them is one action.  The wakeup() that follows a push is a separate  *)
(* call of the worker: other threads run in between.                       *)
(***************************************************************************)
EXTENDS WorkerThread, Sequences

CONSTANTS
    Tasks,         \* functions given to dispatch()
    Empty,         \* the std::function without a target
    MaxDispatches  \* bound: how many calls of dispatch() in a behaviour

ASSUME DispatcherAssumption ==
    /\ Empty \in Tasks
    /\ MaxDispatches \in Nat

VARIABLES
    execQueue,    \* _execQueue
    dispatching,  \* callers between the push and the wakeup() of dispatch()
    work,         \* where each thread is inside repeatableWork()
    submitted,    \* history: the functions pushed, in order
    executed      \* history: the functions popped, in order

dispatcherVars == <<execQueue, dispatching, work, submitted, executed>>
allVars == <<vars, dispatcherVars>>

WorkStates == {"begin", "run", "pushed", "end"}

(***************************************************************************)
(* The single type invariant of the module.                                *)
(***************************************************************************)
DispatcherTypeOK ==
    /\ TypeOK
    /\ execQueue \in Seq(Tasks)
    /\ dispatching \subseteq Callers
    /\ work \in [Threads -> WorkStates]
    /\ submitted \in Seq(Tasks)
    /\ executed \in Seq(Tasks)

DispatcherInit ==
    /\ Init
    /\ execQueue = <<>>
    /\ dispatching = {}
    /\ work = [g \in Threads |-> "begin"]
    /\ submitted = <<>>
    /\ executed = <<>>

WorkGoto(g, state) == work' = [work EXCEPT ![g] = state]

-----------------------------------------------------------------------------
(* dispatch() by a caller *)

Push(t) ==
    /\ Len(submitted) < MaxDispatches
    /\ execQueue' = Append(execQueue, t)
    /\ submitted' = Append(submitted, t)

Dispatch(c, t) ==
    /\ pc[c] = "idle"
    /\ c \notin dispatching
    /\ Push(t)
    /\ dispatching' = dispatching \cup {c}
    /\ UNCHANGED <<vars, work, executed>>

DispatchWakeup(c) ==
    /\ c \in dispatching
    /\ Wakeup(c)
    /\ dispatching' = dispatching \ {c}
    /\ UNCHANGED <<execQueue, work, submitted, executed>>

(* init(), wakeup(), stop() and join() are those of the worker. *)
WorkerCall(c) ==
    /\ c \notin dispatching
    /\ Call(c)
    /\ UNCHANGED dispatcherVars

-----------------------------------------------------------------------------
(* repeatableWork(), run as the worker's work *)

PopNothing(g) ==
    /\ exec[g] = "work"
    /\ work[g] = "begin"
    /\ execQueue = <<>>
    /\ WorkGoto(g, "end")
    /\ UNCHANGED <<vars, execQueue, dispatching, submitted, executed>>

(* Mutant of Pop: the function is taken from the back of the queue. *)
Pop_Back(g) ==
    /\ exec[g] = "work"
    /\ work[g] = "begin"
    /\ execQueue # <<>>
    /\ LET t == execQueue[Len(execQueue)]
       IN  /\ execQueue' = SubSeq(execQueue, 1, Len(execQueue) - 1)
           /\ executed' = Append(executed, t)
           /\ WorkGoto(g, IF t # Empty THEN "run" ELSE "end")
    /\ UNCHANGED <<vars, dispatching, submitted>>

(* The front function is popped; it is run only if it has a target. *)
Pop(g) ==
    /\ exec[g] = "work"
    /\ work[g] = "begin"
    /\ execQueue # <<>>
    /\ LET t == Head(execQueue)
       IN  /\ execQueue' = Tail(execQueue)
           /\ executed' = Append(executed, t)
           /\ WorkGoto(g, IF t # Empty THEN "run" ELSE "end")
    /\ UNCHANGED <<vars, dispatching, submitted>>

(* A running function may itself call dispatch(): no mutex is held. *)
TaskDispatch(g, t) ==
    /\ work[g] = "run"
    /\ Push(t)
    /\ WorkGoto(g, "pushed")
    /\ UNCHANGED <<vars, dispatching, executed>>

TaskWakeup(g) ==
    /\ work[g] = "pushed"
    /\ WorkWakeup(g)
    /\ WorkGoto(g, "run")
    /\ UNCHANGED <<execQueue, dispatching, submitted, executed>>

(* It may call stop() as well. *)
TaskStop(g) ==
    /\ work[g] = "run"
    /\ WorkStop(g)
    /\ UNCHANGED dispatcherVars

TaskReturn(g) ==
    /\ work[g] = "run"
    /\ WorkGoto(g, "end")
    /\ UNCHANGED <<vars, execQueue, dispatching, submitted, executed>>

(* repeatableWork() returns to exec(). *)
WorkReturn(g) ==
    /\ work[g] = "end"
    /\ \E e \in Elapsed : FinishWork(g, e)
    /\ WorkGoto(g, "begin")
    /\ UNCHANGED <<execQueue, dispatching, submitted, executed>>

-----------------------------------------------------------------------------
DispatcherContinue(c) ==
    \/ DispatchWakeup(c)
    \/ Continue(c) /\ UNCHANGED dispatcherVars

DispatcherRun(g) ==
    \/ Loop(g) /\ UNCHANGED dispatcherVars
    \/ PopNothing(g) \/ Pop(g)
    \/ TaskWakeup(g) \/ TaskReturn(g)
    \/ WorkReturn(g)

DispatcherTimeout(g) == Timeout(g) /\ UNCHANGED dispatcherVars

DispatcherNext ==
    \/ \E c \in Callers :
          \/ WorkerCall(c)
          \/ \E t \in Tasks : Dispatch(c, t)
          \/ DispatcherContinue(c)
    \/ \E g \in Threads :
          \/ DispatcherRun(g)
          \/ DispatcherTimeout(g)
          \/ SpuriousWakeup(g) /\ UNCHANGED dispatcherVars
          \/ \E t \in Tasks : TaskDispatch(g, t)
          \/ TaskStop(g)

(***************************************************************************)
(* Fairness is that of the worker, and the interval passes: each run pops  *)
(* one function only, and wakeups that fall together count as one, so a    *)
(* queue of several functions is emptied with the help of the interval.    *)
(* It is strong fairness because wait_for computes its deadline once:      *)
(* spurious wakeups, however many, do not put the timeout off.             *)
(***************************************************************************)
DispatcherFairness ==
    /\ \A c \in Callers : WF_allVars(DispatcherContinue(c))
    /\ \A g \in Threads :
          /\ WF_allVars(DispatcherRun(g))
          /\ SF_allVars(DispatcherTimeout(g))

DispatcherSpec ==
    DispatcherInit /\ [][DispatcherNext]_allVars /\ DispatcherFairness

-----------------------------------------------------------------------------
Running(g) == work[g] \in {"run", "pushed"}

(* Nothing that was dispatched is lost, doubled or overtaken, whatever     *)
(* stop(), join() and init() do to the thread meanwhile: what is not taken *)
(* yet is in the queue, in the order of the calls of dispatch().           *)
QueueExact == submitted = executed \o execQueue

(* Once join() has returned no dispatched function is running, so what the *)
(* functions refer to may be destroyed.                                    *)
JoinedQuiet ==
    m_thread = Null /\ m_mutex = Free => \A g \in Threads : ~Running(g)

(* dispatch() and repeatableWork() keep the promise of a task queue: in    *)
(* order, once, one at a time, nothing run for an empty function.          *)
TQ == INSTANCE TaskQueue WITH busy <- \E g \in Threads : Running(g)
KeepsTaskQueue == TQ!Spec

(* The n-th function that is dispatched is taken, unless the dispatcher is *)
(* stopped: also when its wakeup falls together with another one.          *)
DispatchedRuns ==
    \A n \in 1 .. MaxDispatches :
        (Len(submitted) >= n /\ \E g \in Threads : Alive(g))
            ~> (Len(executed) >= n \/ m_stop)
=============================================================================
