---------------------------- MODULE WorkerThread ----------------------------
(***************************************************************************)
(* katla::WorkerThread: a thread that repeats one piece of work, woken by  *)
(* wakeup() or by its interval, ended by stop().                           *)
(*                                                                         *)
(* Every access to m_stop and m_wakeUp is made with m_mutex held.  A       *)
(* critical section that neither blocks nor creates a thread is one action *)
(* guarded by m_mutex = Free; init() keeps the mutex over several actions, *)
(* because the thread it creates runs before m_thread is assigned.         *)
(* m_interval and the m_thread of join() are accessed without the mutex:   *)
(* each of these accesses is an action of its own.                         *)
(***************************************************************************)
EXTENDS Integers

CONSTANTS
    Callers,    \* threads that call the public methods
    Owner,      \* the one of them that calls join() (or the destructor)
    Intervals,  \* values of init()'s interval, in milliseconds
    Elapsed,    \* durations one run of the work may take
    MaxInits    \* bound: how many threads init() creates in a behaviour

ASSUME ConstantsAssumption ==
    /\ Owner \in Callers
    /\ Intervals \subseteq Nat
    /\ Elapsed \subseteq Nat
    /\ MaxInits \in Nat
    /\ 0 \notin Callers

Threads == 1 .. MaxInits    \* the threads created, in order of creation
Null == 0                   \* m_thread == nullptr
Free == 0                   \* nobody holds m_mutex

VARIABLES
    m_thread,    \* the thread m_thread points to, or Null
    m_stop,
    m_wakeUp,
    m_interval,
    m_mutex,     \* the caller that is inside init() with the mutex, or Free
    pc,          \* where each caller is inside a public method
    arg,         \* the interval argument of each caller's init()
    exec,        \* where each created thread is inside exec()
    waitTime,    \* exec()'s local of that name, per thread
    elapsed,     \* the duration of its last run of the work
    launched,    \* number of threads created
    requested    \* history: interval of the init() that created the last thread

callerVars == <<pc, arg>>
threadVars == <<exec, waitTime, elapsed>>
vars == <<m_thread, m_stop, m_wakeUp, m_interval, m_mutex, callerVars,
          threadVars, launched, requested>>

CallerStates == {"idle", "init", "create", "assign", "notify", "joining", "reset"}
ExecStates == {"none", "start", "read", "check", "waiting", "timedout",
               "work", "pace", "done"}

Alive(g) == exec[g] \notin {"none", "done"}

(***************************************************************************)
(* The single type invariant of the module.                                *)
(***************************************************************************)
TypeOK ==
    /\ m_thread \in Threads \cup {Null}
    /\ m_stop \in BOOLEAN
    /\ m_wakeUp \in BOOLEAN
    /\ m_interval \in Nat
    /\ m_mutex \in Callers \cup {Free}
    /\ pc \in [Callers -> CallerStates]
    /\ arg \in [Callers -> Nat]
    /\ exec \in [Threads -> ExecStates]
    /\ waitTime \in [Threads -> Int]
    /\ elapsed \in [Threads -> Nat]
    /\ launched \in 0 .. MaxInits
    /\ requested \in Nat

(* A constructed WorkerThread; m_interval's initializer is 1000ms. *)
Init ==
    /\ m_thread = Null
    /\ m_stop = FALSE
    /\ m_wakeUp = FALSE
    /\ m_interval = 1000
    /\ m_mutex = Free
    /\ pc = [c \in Callers |-> "idle"]
    /\ arg = [c \in Callers |-> 0]
    /\ exec = [g \in Threads |-> "none"]
    /\ waitTime = [g \in Threads |-> 0]
    /\ elapsed = [g \in Threads |-> 0]
    /\ launched = 0
    /\ requested = 0

Goto(c, state) == pc' = [pc EXCEPT ![c] = state]
ExecGoto(g, state) == exec' = [exec EXCEPT ![g] = state]

-----------------------------------------------------------------------------
(* The public methods, called by the callers. *)

(* init(): m_interval is assigned before the mutex is taken.  The second   *)
(* conjunct is the bound MaxInits.                                         *)
InitInterval(c, i) ==
    /\ pc[c] = "idle"
    /\ m_thread # Null \/ launched < MaxInits
    /\ m_interval' = i
    /\ arg' = [arg EXCEPT ![c] = i]
    /\ Goto(c, "init")
    /\ UNCHANGED <<m_thread, m_stop, m_wakeUp, m_mutex, threadVars, launched, requested>>

(* init() takes the mutex and returns AlreadyInitialized when there is a   *)
(* thread.                                                                 *)
InitAlready(c) ==
    /\ pc[c] = "init"
    /\ m_mutex = Free
    /\ m_thread # Null
    /\ arg' = [arg EXCEPT ![c] = 0]
    /\ Goto(c, "idle")
    /\ UNCHANGED <<m_thread, m_stop, m_wakeUp, m_interval, m_mutex, threadVars, launched, requested>>

(* init() takes the mutex, finds no thread and clears the flags. *)
InitLock(c) ==
    /\ pc[c] = "init"
    /\ m_mutex = Free
    /\ m_thread = Null
    /\ launched < MaxInits
    /\ m_mutex' = c
    /\ m_stop' = FALSE
    /\ m_wakeUp' = FALSE
    /\ requested' = arg[c]
    /\ arg' = [arg EXCEPT ![c] = 0]
    /\ Goto(c, "create")
    /\ UNCHANGED <<m_thread, m_interval, threadVars, launched>>

(* std::make_unique<std::thread>(...): the new thread runs from here on. *)
InitCreate(c) ==
    /\ pc[c] = "create"
    /\ launched' = launched + 1
    /\ ExecGoto(launched', "start")
    /\ Goto(c, "assign")
    /\ UNCHANGED <<m_thread, m_stop, m_wakeUp, m_interval, m_mutex, arg, waitTime, elapsed, requested>>

(* m_thread is assigned and the mutex released. *)
InitAssign(c) ==
    /\ pc[c] = "assign"
    /\ m_thread' = launched
    /\ m_mutex' = Free
    /\ Goto(c, "idle")
    /\ UNCHANGED <<m_stop, m_wakeUp, m_interval, arg, threadVars, launched, requested>>

(* wakeup() and stop(): the flag is set under the mutex, the notification  *)
(* follows after it is released.                                           *)
Wakeup(c) ==
    /\ pc[c] = "idle"
    /\ m_mutex = Free
    /\ m_wakeUp' = TRUE
    /\ Goto(c, "notify")
    /\ UNCHANGED <<m_thread, m_stop, m_interval, m_mutex, arg, threadVars, launched, requested>>

(* Mutant of Stop: the flag is set and nobody is notified. *)
Stop_Silent(c) ==
    /\ pc[c] = "idle"
    /\ m_mutex = Free
    /\ m_stop' = TRUE
    /\ UNCHANGED <<m_thread, m_wakeUp, m_interval, m_mutex, callerVars, threadVars, launched, requested>>

Stop(c) ==
    /\ pc[c] = "idle"
    /\ m_mutex = Free
    /\ m_stop' = TRUE
    /\ Goto(c, "notify")
    /\ UNCHANGED <<m_thread, m_wakeUp, m_interval, m_mutex, arg, threadVars, launched, requested>>

(* m_condition.notify_all(): whoever waits goes back to its predicate. *)
NotifyAll(c) ==
    /\ pc[c] = "notify"
    /\ exec' = [g \in Threads |-> IF exec[g] = "waiting" THEN "check" ELSE exec[g]]
    /\ Goto(c, "idle")
    /\ UNCHANGED <<m_thread, m_stop, m_wakeUp, m_interval, m_mutex, arg, waitTime, elapsed, launched, requested>>

(* join() and the destructor: nothing to do without a thread. *)
JoinBegin(c) ==
    /\ pc[c] = "idle"
    /\ m_thread # Null
    /\ Goto(c, "joining")
    /\ UNCHANGED <<m_thread, m_stop, m_wakeUp, m_interval, m_mutex, arg, threadVars, launched, requested>>

(* Mutant of JoinWait: the thread is detached instead of joined. *)
JoinWait_Detach(c) ==
    /\ pc[c] = "joining"
    /\ Goto(c, "reset")
    /\ UNCHANGED <<m_thread, m_stop, m_wakeUp, m_interval, m_mutex, arg, threadVars, launched, requested>>

(* m_thread->join() returns when the thread has ended. *)
JoinWait(c) ==
    /\ pc[c] = "joining"
    /\ exec[m_thread] = "done"
    /\ Goto(c, "reset")
    /\ UNCHANGED <<m_thread, m_stop, m_wakeUp, m_interval, m_mutex, arg, threadVars, launched, requested>>

JoinReset(c) ==
    /\ pc[c] = "reset"
    /\ m_thread' = Null
    /\ Goto(c, "idle")
    /\ UNCHANGED <<m_stop, m_wakeUp, m_interval, m_mutex, arg, threadVars, launched, requested>>

-----------------------------------------------------------------------------
(* exec(), run by the created threads. *)

(* The first critical section sets the priority of m_thread; a failure is  *)
(* only logged.                                                            *)
ExecStart(g) ==
    /\ exec[g] = "start"
    /\ m_mutex = Free
    /\ ExecGoto(g, "read")
    /\ UNCHANGED <<m_thread, m_stop, m_wakeUp, m_interval, m_mutex, callerVars, waitTime, elapsed, launched, requested>>

ReadInterval(g) ==
    /\ exec[g] = "read"
    /\ waitTime' = [waitTime EXCEPT ![g] = m_interval]
    /\ ExecGoto(g, "check")
    /\ UNCHANGED <<m_thread, m_stop, m_wakeUp, m_interval, m_mutex, callerVars, elapsed, launched, requested>>

(* After wait_for: leave the loop when stopped, else take the wakeup and   *)
(* run the work.  The locals end with the thread.                          *)
Proceed(g) ==
    /\ \/ /\ m_stop
          /\ ExecGoto(g, "done")
          /\ waitTime' = [waitTime EXCEPT ![g] = 0]
          /\ elapsed' = [elapsed EXCEPT ![g] = 0]
          /\ UNCHANGED m_wakeUp
       \/ /\ ~m_stop
          /\ ExecGoto(g, "work")
          /\ m_wakeUp' = FALSE
          /\ UNCHANGED <<waitTime, elapsed>>
    /\ UNCHANGED <<m_thread, m_stop, m_interval, m_mutex, callerVars, launched, requested>>

(* wait_for evaluates its predicate with the mutex held ... *)
WaitOver(g) ==
    /\ exec[g] = "check"
    /\ m_mutex = Free
    /\ m_wakeUp \/ m_stop
    /\ Proceed(g)

(* Mutant of WaitBlock: wait_for is called without its predicate. *)
WaitBlock_NoPredicate(g) ==
    /\ exec[g] = "check"
    /\ m_mutex = Free
    /\ ExecGoto(g, "waiting")
    /\ UNCHANGED <<m_thread, m_stop, m_wakeUp, m_interval, m_mutex, callerVars, waitTime, elapsed, launched, requested>>

(* ... and blocks, releasing the mutex in the same step, when it is false. *)
WaitBlock(g) ==
    /\ exec[g] = "check"
    /\ m_mutex = Free
    /\ ~(m_wakeUp \/ m_stop)
    /\ ExecGoto(g, "waiting")
    /\ UNCHANGED <<m_thread, m_stop, m_wakeUp, m_interval, m_mutex, callerVars, waitTime, elapsed, launched, requested>>

(* A condition variable may wake a waiter for no reason. *)
SpuriousWakeup(g) ==
    /\ exec[g] = "waiting"
    /\ ExecGoto(g, "check")
    /\ UNCHANGED <<m_thread, m_stop, m_wakeUp, m_interval, m_mutex, callerVars, waitTime, elapsed, launched, requested>>

(* waitTime has passed; wait_for returns once it holds the mutex again. *)
Timeout(g) ==
    /\ exec[g] = "waiting"
    /\ ExecGoto(g, "timedout")
    /\ UNCHANGED <<m_thread, m_stop, m_wakeUp, m_interval, m_mutex, callerVars, waitTime, elapsed, launched, requested>>

(* Mutant of TimeoutOver: without a wakeup the loop goes back to waiting. *)
TimeoutOver_NoWork(g) ==
    /\ exec[g] = "timedout"
    /\ m_mutex = Free
    /\ \/ (m_wakeUp \/ m_stop) /\ Proceed(g)
       \/ /\ ~(m_wakeUp \/ m_stop)
          /\ ExecGoto(g, "check")
          /\ UNCHANGED <<m_thread, m_stop, m_wakeUp, m_interval, m_mutex, callerVars, waitTime, elapsed, launched, requested>>

TimeoutOver(g) ==
    /\ exec[g] = "timedout"
    /\ m_mutex = Free
    /\ Proceed(g)

(* The work itself may call wakeup() or stop().  Their notify_all() finds  *)
(* no waiter: the thread that would wait is the one that runs the work.    *)
WorkWakeup(g) ==
    /\ exec[g] = "work"
    /\ m_mutex = Free
    /\ m_wakeUp' = TRUE
    /\ UNCHANGED <<m_thread, m_stop, m_interval, m_mutex, callerVars, threadVars, launched, requested>>

WorkStop(g) ==
    /\ exec[g] = "work"
    /\ m_mutex = Free
    /\ m_stop' = TRUE
    /\ UNCHANGED <<m_thread, m_wakeUp, m_interval, m_mutex, callerVars, threadVars, launched, requested>>

(* Mutant of FinishWork: m_wakeUp is cleared after the work, not before. *)
FinishWork_ClearsLate(g, e) ==
    /\ exec[g] = "work"
    /\ elapsed' = [elapsed EXCEPT ![g] = e]
    /\ waitTime' = [waitTime EXCEPT ![g] = 0]
    /\ ExecGoto(g, "check")
    /\ m_wakeUp' = FALSE
    /\ UNCHANGED <<m_thread, m_stop, m_interval, m_mutex, callerVars, launched, requested>>

(* The work returns after e milliseconds.  m_interval is read without the  *)
(* mutex twice: here for the comparison, in PaceWait for the subtraction.  *)
FinishWork(g, e) ==
    /\ exec[g] = "work"
    /\ elapsed' = [elapsed EXCEPT ![g] = e]
    /\ \/ /\ e < m_interval
          /\ ExecGoto(g, "pace")
          /\ UNCHANGED waitTime
       \/ /\ ~(e < m_interval)
          /\ waitTime' = [waitTime EXCEPT ![g] = 0]
          /\ ExecGoto(g, "check")
    /\ UNCHANGED <<m_thread, m_stop, m_wakeUp, m_interval, m_mutex, callerVars, launched, requested>>

PaceWait(g) ==
    /\ exec[g] = "pace"
    /\ waitTime' = [waitTime EXCEPT ![g] = m_interval - elapsed[g]]
    /\ ExecGoto(g, "check")
    /\ UNCHANGED <<m_thread, m_stop, m_wakeUp, m_interval, m_mutex, callerVars, elapsed, launched, requested>>

-----------------------------------------------------------------------------
(* A call that has begun goes on by itself. *)
Continue(c) ==
    \/ InitAlready(c) \/ InitLock(c) \/ InitCreate(c) \/ InitAssign(c)
    \/ NotifyAll(c)
    \/ JoinWait(c) \/ JoinReset(c)

Call(c) ==
    \/ \E i \in Intervals : InitInterval(c, i)
    \/ Wakeup(c)
    \/ Stop(c)
    \/ c = Owner /\ JoinBegin(c)

(* The loop of exec() around the work ... *)
Loop(g) ==
    \/ ExecStart(g) \/ ReadInterval(g)
    \/ WaitOver(g) \/ WaitBlock(g) \/ TimeoutOver(g)
    \/ PaceWait(g)

(* ... and all that the thread does without waiting for the time to pass. *)
Run(g) == Loop(g) \/ \E e \in Elapsed : FinishWork(g, e)

Next ==
    \/ \E c \in Callers : Call(c) \/ Continue(c)
    \/ \E g \in Threads :
          Run(g) \/ SpuriousWakeup(g) \/ Timeout(g) \/ WorkWakeup(g) \/ WorkStop(g)

(***************************************************************************)
(* Fairness: a runnable thread is eventually scheduled.  It is asked of a  *)
(* call that has begun and of exec(), including the work, which is taken   *)
(* to return.  It is not asked of the callers' decision to call, of        *)
(* spurious wakeups, or of the interval: a wakeup must be served without   *)
(* the help of a timeout.                                                  *)
(***************************************************************************)
Fairness ==
    /\ \A c \in Callers : WF_vars(Continue(c))
    /\ \A g \in Threads : WF_vars(Run(g))

Spec == Init /\ [][Next]_vars /\ Fairness

-----------------------------------------------------------------------------
(* Safety *)

(* "need lock otherwise m_thread is not always assigned yet": when exec()  *)
(* gets the mutex for the first time, m_thread points to the running thread. *)
ThreadAssigned ==
    \A g \in Threads : exec[g] = "start" /\ m_mutex = Free => m_thread = g

(* However init(), stop() and join() interleave, at most one thread runs   *)
(* exec(): a restart never overlaps the thread it replaces.                *)
SingleWorker ==
    \A g, h \in Threads : Alive(g) /\ Alive(h) => g = h

(* join() never dereferences a null m_thread, although another caller may  *)
(* be inside init(), and it resets the pointer of an ended thread only.    *)
JoinTarget ==
    /\ pc[Owner] = "joining" => m_thread # Null
    /\ pc[Owner] = "reset" => m_thread # Null /\ ~Alive(m_thread)

(* The three together: m_thread is what its users take it for, and restarts *)
(* do not overlap.                                                          *)
ThreadExact == ThreadAssigned /\ SingleWorker /\ JoinTarget

(* A stop is never taken back from a thread that runs: init() clears       *)
(* m_stop only when every thread has ended.                                *)
StopKept ==
    [][m_stop /\ ~m_stop' => \A g \in Threads : ~Alive(g)]_vars

(* A wakeup is used up by a run of the work that begins after it, or is    *)
(* dropped by an init() that finds no thread: one that arrives while the   *)
(* work runs is kept for the next run.                                     *)
WakeupUsed ==
    [][m_wakeUp /\ ~m_wakeUp' =>
         \/ \A g \in Threads : ~Alive(g)
         \/ \E g \in Threads : exec[g] # "work" /\ exec'[g] = "work"]_vars

(* Neither flag is cleared for anything but what it asks for. *)
FlagsKept == StopKept /\ WakeupUsed

(* "Calculate wait time so that task is invoked at requested interval when *)
(* possible. If tasks ran for longer, do not wait.": a thread waits for    *)
(* what is left of the interval it was created with.                       *)
RequestedInterval ==
    \A g \in Threads :
        exec[g] = "waiting" =>
            waitTime[g] = IF elapsed[g] < requested
                          THEN requested - elapsed[g] ELSE 0

(* Liveness *)

(* No wakeup is lost between the predicate and the wait: the work runs for *)
(* it (or the thread ends) without waiting for the interval.               *)
WakeupServed ==
    \A g \in Threads : (m_wakeUp /\ Alive(g)) ~> (~m_wakeUp \/ ~Alive(g))

(* A stop reaches the thread wherever it is, without the interval's help.  *)
StopTerminates ==
    \A g \in Threads : (m_stop /\ Alive(g)) ~> ~Alive(g)
=============================================================================
