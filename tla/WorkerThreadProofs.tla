------------------------- MODULE WorkerThreadProofs -------------------------
(***************************************************************************)
(* Safety of WorkerThread for every set of callers, every set of intervals *)
(* and any number of restarts.                                             *)
(*                                                                         *)
(* The properties are not inductive: that no thread runs when init() finds *)
(* m_thread null depends on who holds the mutex, on how far the holder is, *)
(* and on join() resetting the pointer of an ended thread only.  IInv adds *)
(* these facts.                                                            *)
(***************************************************************************)
EXTENDS WorkerThread, TLAPS

(* The mutex is kept across actions by init() only. *)
MutexHeld == \A c \in Callers : m_mutex = c <=> pc[c] \in {"create", "assign"}

(* Before init() creates the thread nothing runs; before it assigns        *)
(* m_thread nothing runs but the thread it created.                        *)
Creating ==
    \A c \in Callers :
        pc[c] = "create" =>
            /\ m_thread = Null
            /\ launched < MaxInits
            /\ \A g \in Threads : ~Alive(g)
Assigning ==
    \A c \in Callers :
        pc[c] = "assign" =>
            /\ m_thread = Null
            /\ launched \in Threads
            /\ \A g \in Threads : Alive(g) => g = launched

(* With the mutex free, the thread that runs is the one m_thread points to. *)
Living == \A g \in Threads : Alive(g) => m_mutex # Free \/ g = m_thread

Launching == \A g \in Threads : g > launched => exec[g] = "none"

(* Only the owner joins, a thread that exists; it resets an ended one. *)
Joining ==
    /\ \A c \in Callers :
          pc[c] \in {"joining", "reset"} => c = Owner /\ m_thread # Null
    /\ pc[Owner] = "reset" => exec[m_thread] = "done"

IInv == TypeOK /\ MutexHeld /\ Creating /\ Assigning /\ Living /\ Launching /\ Joining

-----------------------------------------------------------------------------
(* The initial state satisfies the inductive invariant. *)
LEMMA InitIInv == Init => IInv
<1> SUFFICES ASSUME Init PROVE IInv
  OBVIOUS
<1> USE ConstantsAssumption DEF Init, Threads, Null, Free
<1>1. TypeOK
  <2>1. m_stop \in BOOLEAN /\ m_wakeUp \in BOOLEAN
    BY Zenon
  <2> QED BY <2>1 DEF TypeOK, CallerStates, ExecStates
<1>2. MutexHeld /\ Creating /\ Assigning
  BY DEF MutexHeld, Creating, Assigning
<1>3. Living /\ Launching /\ Joining
  BY DEF Living, Launching, Joining, Alive
<1> QED BY <1>1, <1>2, <1>3 DEF IInv

(* What exec() does after wait_for keeps the types. *)
LEMMA ProceedType == \A g \in Threads : TypeOK /\ Proceed(g) => TypeOK'
<1> SUFFICES ASSUME NEW g \in Threads, TypeOK, Proceed(g) PROVE TypeOK'
  OBVIOUS
<1> USE DEF Proceed, callerVars
<1>1. m_wakeUp' \in BOOLEAN
  BY Zenon DEF TypeOK
<1>2. exec' \in [Threads -> ExecStates]
  <2>1. exec' = [exec EXCEPT ![g] = "done"] \/ exec' = [exec EXCEPT ![g] = "work"]
    BY Zenon DEF ExecGoto
  <2> QED BY <2>1 DEF TypeOK, ExecStates
<1>3. waitTime' \in [Threads -> Int] /\ elapsed' \in [Threads -> Nat]
  <2>1. \/ waitTime' = [waitTime EXCEPT ![g] = 0] /\ elapsed' = [elapsed EXCEPT ![g] = 0]
        \/ waitTime' = waitTime /\ elapsed' = elapsed
    BY Zenon
  <2> QED BY <2>1 DEF TypeOK
<1> QED BY <1>1, <1>2, <1>3, Zenon DEF TypeOK, Free

(* Each kind of step preserves it; first the types. *)
LEMMA TypeStep == TypeOK /\ MutexHeld /\ Creating /\ Assigning /\ [Next]_vars => TypeOK'
<1> SUFFICES ASSUME TypeOK, MutexHeld, Creating, Assigning, [Next]_vars PROVE TypeOK'
  OBVIOUS
<1> USE ConstantsAssumption DEF TypeOK, Threads, Null, Free, CallerStates, ExecStates,
        callerVars, threadVars, Goto, ExecGoto
<1>1. ASSUME NEW c \in Callers, Call(c) PROVE TypeOK'
  BY <1>1 DEF Call, InitInterval, Wakeup, Stop, JoinBegin
<1>2. ASSUME NEW c \in Callers, Continue(c) PROVE TypeOK'
  <2>1. CASE InitAlready(c) BY <2>1 DEF InitAlready
  <2>2. CASE InitLock(c) BY <2>2 DEF InitLock
  <2>3. CASE InitCreate(c) BY <2>3 DEF InitCreate, Creating
  <2>4. CASE InitAssign(c) BY <2>4 DEF InitAssign, Assigning
  <2>5. CASE NotifyAll(c) BY <2>5 DEF NotifyAll
  <2>6. CASE JoinWait(c) BY <2>6 DEF JoinWait
  <2>7. CASE JoinReset(c) BY <2>7 DEF JoinReset
  <2> QED BY <1>2, <2>1, <2>2, <2>3, <2>4, <2>5, <2>6, <2>7 DEF Continue
<1>3. ASSUME NEW g \in Threads, Loop(g) PROVE TypeOK'
  <2>1. CASE ExecStart(g) BY <2>1 DEF ExecStart
  <2>2. CASE ReadInterval(g) BY <2>2 DEF ReadInterval
  <2>3. CASE WaitOver(g) BY <2>3, ProceedType DEF WaitOver
  <2>4. CASE WaitBlock(g) BY <2>4 DEF WaitBlock
  <2>5. CASE TimeoutOver(g) BY <2>5, ProceedType DEF TimeoutOver
  <2>6. CASE PaceWait(g) BY <2>6 DEF PaceWait
  <2> QED BY <1>3, <2>1, <2>2, <2>3, <2>4, <2>5, <2>6 DEF Loop
<1>4. ASSUME NEW g \in Threads, NEW e \in Elapsed, FinishWork(g, e) PROVE TypeOK'
  BY <1>4, SMTT(30) DEF FinishWork
<1>5. ASSUME NEW g \in Threads,
             SpuriousWakeup(g) \/ Timeout(g) \/ WorkWakeup(g) \/ WorkStop(g)
      PROVE TypeOK'
  BY <1>5 DEF SpuriousWakeup, Timeout, WorkWakeup, WorkStop
<1>6. CASE UNCHANGED vars BY <1>6 DEF vars
<1> QED BY <1>1, <1>2, <1>3, <1>4, <1>5, <1>6 DEF Next, Run

(* The calls: what the callers do changes no thread that runs, except that *)
(* init() creates one while it holds the mutex.                            *)
LEMMA CallerStep ==
    ASSUME IInv, NEW c \in Callers, Call(c) \/ Continue(c), TypeOK'
    PROVE  IInv'
<1> USE ConstantsAssumption DEF IInv, TypeOK, Threads, Null, Free, Alive, Goto, ExecGoto,
        callerVars, threadVars
<1>1. MutexHeld'
  BY SMTT(30) DEF MutexHeld, Call, Continue, InitInterval, Wakeup, Stop, JoinBegin, InitAlready,
         InitLock, InitCreate, InitAssign, NotifyAll, JoinWait, JoinReset
<1>2. Creating'
  <2> USE DEF MutexHeld, Creating, Living
  <2>1. CASE Call(c) BY <2>1 DEF Call, InitInterval, Wakeup, Stop, JoinBegin
  <2>2. CASE InitLock(c) BY <2>2 DEF InitLock
  <2>3. CASE InitCreate(c) BY <2>3 DEF InitCreate
  <2>4. CASE JoinReset(c) BY <2>4 DEF JoinReset
  <2>5. CASE InitAlready(c) \/ InitAssign(c) \/ NotifyAll(c) \/ JoinWait(c)
    BY <2>5, ZenonT(30) DEF InitAlready, InitAssign, NotifyAll, JoinWait
  <2> QED BY <2>1, <2>2, <2>3, <2>4, <2>5 DEF Continue
<1>3. Assigning'
  <2> USE DEF MutexHeld, Assigning, Creating
  <2>1. CASE Call(c) BY <2>1 DEF Call, InitInterval, Wakeup, Stop, JoinBegin
  <2>2. CASE InitLock(c) BY <2>2 DEF InitLock
  <2>3. CASE InitCreate(c) BY <2>3 DEF InitCreate
  <2>4. CASE JoinReset(c) BY <2>4 DEF JoinReset
  <2>5. CASE InitAlready(c) \/ InitAssign(c) \/ NotifyAll(c) \/ JoinWait(c)
    BY <2>5, ZenonT(30) DEF InitAlready, InitAssign, NotifyAll, JoinWait
  <2> QED BY <2>1, <2>2, <2>3, <2>4, <2>5 DEF Continue
<1>4. Living'
  <2> USE DEF MutexHeld, Assigning, Creating, Living
  <2>1. CASE Call(c) BY <2>1 DEF Call, InitInterval, Wakeup, Stop, JoinBegin
  <2>2. CASE InitLock(c) BY <2>2 DEF InitLock
  <2>3. CASE InitCreate(c) BY <2>3 DEF InitCreate
  <2>4. CASE JoinReset(c) BY <2>4 DEF JoinReset, Joining
  <2>5. CASE InitAssign(c) BY <2>5 DEF InitAssign
  <2>6. CASE InitAlready(c) \/ NotifyAll(c) \/ JoinWait(c)
    BY <2>6 DEF InitAlready, NotifyAll, JoinWait
  <2> QED BY <2>1, <2>2, <2>3, <2>4, <2>5, <2>6 DEF Continue
<1>5. Launching'
  <2> USE DEF Launching
  <2>1. CASE InitCreate(c) BY <2>1 DEF InitCreate, Creating
  <2>2. CASE NotifyAll(c) BY <2>2 DEF NotifyAll
  <2>3. CASE ~InitCreate(c) /\ ~NotifyAll(c)
    <3>1. UNCHANGED <<exec, launched>>
      BY <2>3 DEF Call, Continue, InitInterval, Wakeup, Stop, JoinBegin, InitAlready,
                  InitLock, InitAssign, JoinWait, JoinReset
    <3> QED BY <3>1
  <2> QED BY <2>1, <2>2, <2>3
<1>6. Joining'
  <2> USE DEF MutexHeld, Assigning, Creating, Joining
  <2>1. CASE Call(c) BY <2>1 DEF Call, InitInterval, Wakeup, Stop, JoinBegin
  <2>2. CASE InitLock(c) \/ InitAlready(c) BY <2>2 DEF InitLock, InitAlready
  <2>3. CASE InitCreate(c) BY <2>3 DEF InitCreate
  <2>4. CASE InitAssign(c) BY <2>4 DEF InitAssign
  <2>5. CASE JoinWait(c) \/ JoinReset(c) BY <2>5 DEF JoinWait, JoinReset
  <2>6. CASE NotifyAll(c) BY <2>6 DEF NotifyAll
  <2> QED BY <2>1, <2>2, <2>3, <2>4, <2>5, <2>6 DEF Continue
<1> QED BY <1>1, <1>2, <1>3, <1>4, <1>5, <1>6

(* A thread that runs goes on or ends; it leaves the mutex, m_thread and   *)
(* the callers as it finds them.                                           *)
ThreadMoves(g) ==
    /\ Alive(g)
    /\ \E state \in ExecStates \ {"none"} : exec' = [exec EXCEPT ![g] = state]
    /\ UNCHANGED <<m_thread, m_mutex, pc, launched>>

ThreadAction(g) ==
    \/ Run(g) \/ SpuriousWakeup(g) \/ Timeout(g) \/ WorkWakeup(g) \/ WorkStop(g)

(* Every action of exec() and of the work is such a move. *)
LEMMA ThreadActionMoves ==
    ASSUME TypeOK, NEW g \in Threads, ThreadAction(g)
    PROVE  ThreadMoves(g)
<1> USE DEF ThreadMoves, TypeOK, Alive, ExecStates, callerVars, threadVars, ExecGoto
<1>1. CASE Loop(g)
  <2>1. CASE WaitOver(g) \/ TimeoutOver(g)
    BY <2>1 DEF WaitOver, TimeoutOver, Proceed
  <2>2. CASE ExecStart(g) \/ ReadInterval(g) \/ WaitBlock(g) \/ PaceWait(g)
    BY <2>2 DEF ExecStart, ReadInterval, WaitBlock, PaceWait
  <2> QED BY <1>1, <2>1, <2>2 DEF Loop
<1>2. CASE \E e \in Elapsed : FinishWork(g, e)
  BY <1>2 DEF FinishWork
<1>3. CASE SpuriousWakeup(g) \/ Timeout(g) \/ WorkWakeup(g) \/ WorkStop(g)
  BY <1>3 DEF SpuriousWakeup, Timeout, WorkWakeup, WorkStop
<1> QED BY <1>1, <1>2, <1>3 DEF ThreadAction, Run

(* A move of a thread preserves the inductive invariant. *)
LEMMA ThreadStep ==
    ASSUME IInv, NEW g \in Threads, ThreadAction(g), TypeOK'
    PROVE  IInv'
<1>1. ThreadMoves(g) BY ThreadActionMoves DEF IInv
<1> USE ConstantsAssumption, <1>1
        DEF ThreadMoves, IInv, TypeOK, Threads, Null, Free, Alive, ExecStates
<1>2. MutexHeld' BY DEF MutexHeld
<1>3. Creating' BY DEF Creating
<1>4. Assigning' BY DEF Assigning
<1>5. Living' BY DEF Living
<1>6. Launching' BY DEF Launching
<1>7. Joining' BY DEF Joining
<1> QED BY <1>2, <1>3, <1>4, <1>5, <1>6, <1>7

(* IInv is inductive. *)
LEMMA NextIInv == IInv /\ [Next]_vars => IInv'
<1> SUFFICES ASSUME IInv, [Next]_vars PROVE IInv'
  OBVIOUS
<1>1. TypeOK' BY TypeStep DEF IInv
<1>2. ASSUME NEW c \in Callers, Call(c) \/ Continue(c) PROVE IInv'
  BY <1>1, <1>2, CallerStep
<1>3. ASSUME NEW g \in Threads, ThreadAction(g) PROVE IInv'
  BY <1>1, <1>3, ThreadStep
<1>4. CASE UNCHANGED vars
  BY <1>4 DEF vars, callerVars, threadVars, IInv, TypeOK, MutexHeld, Creating, Assigning,
              Living, Launching, Joining, Alive
<1> QED BY <1>2, <1>3, <1>4 DEF Next, ThreadAction

(* IInv holds in every reachable state. *)
THEOREM Invariance == Spec => []IInv
  BY InitIInv, NextIInv, PTL DEF Spec

-----------------------------------------------------------------------------
(* The types are those TypeOK states, in every behaviour. *)
THEOREM TypeCorrect == Spec => []TypeOK
<1>1. IInv => TypeOK BY DEF IInv
<1> QED BY <1>1, Invariance, PTL

(* exec() finds m_thread assigned when it sets its priority: the lock that *)
(* init() holds while it creates the thread is what makes it so.           *)
THEOREM ThreadAssignedHolds == Spec => []ThreadAssigned
<1>1. IInv => ThreadAssigned
  BY DEF IInv, Living, ThreadAssigned, Alive
<1> QED BY <1>1, Invariance, PTL

(* Two threads that run are the same thread. *)
LEMMA OneAlive ==
    ASSUME IInv, NEW g \in Threads, NEW h \in Threads, Alive(g), Alive(h)
    PROVE  g = h
<1>1. CASE m_mutex = Free BY <1>1 DEF IInv, Living
<1>2. CASE m_mutex # Free
  <2>1. m_mutex \in Callers /\ pc[m_mutex] \in {"create", "assign"}
    BY <1>2 DEF IInv, TypeOK, MutexHeld
  <2> QED BY <2>1 DEF IInv, Creating, Assigning
<1> QED BY <1>1, <1>2

(* At most one thread runs the work, over any number of restarts. *)
THEOREM SingleWorkerHolds == Spec => []SingleWorker
<1>1. IInv => SingleWorker
  BY OneAlive DEF SingleWorker
<1> QED BY <1>1, Invariance, PTL

(* join() never meets a null m_thread and never resets a running one. *)
THEOREM JoinTargetHolds == Spec => []JoinTarget
<1>1. IInv => JoinTarget
  BY ConstantsAssumption DEF IInv, Joining, JoinTarget, Alive
<1> QED BY <1>1, Invariance, PTL

(* m_thread is what exec(), init() and join() take it for, and no two      *)
(* threads run.                                                            *)
THEOREM ThreadExactHolds == Spec => []ThreadExact
  BY ThreadAssignedHolds, SingleWorkerHolds, JoinTargetHolds, PTL DEF ThreadExact

(* When the mutex is free and m_thread is null, no thread runs. *)
LEMMA NoneAlive ==
    ASSUME IInv, m_mutex = Free, m_thread = Null
    PROVE  \A g \in Threads : ~Alive(g)
  BY ConstantsAssumption DEF IInv, Living, Threads, Null

(* init() never takes a stop back from a thread that still runs. *)
THEOREM StopKeptHolds == Spec => StopKept
<1>1. IInv /\ [Next]_vars
        => [m_stop /\ ~m_stop' => \A g \in Threads : ~Alive(g)]_vars
  <2> SUFFICES ASSUME IInv, Next, m_stop, ~m_stop'
               PROVE  \A g \in Threads : ~Alive(g)
    OBVIOUS
  <2>1. ASSUME NEW c \in Callers, Call(c) \/ Continue(c) PROVE InitLock(c)
    BY <2>1, Zenon DEF Call, Continue, InitInterval, Wakeup, Stop, JoinBegin, InitAlready,
                InitCreate, InitAssign, NotifyAll, JoinWait, JoinReset
  <2>2. ASSUME NEW g \in Threads, ThreadAction(g) PROVE FALSE
    BY <2>2, Zenon DEF ThreadAction, Run, Loop, ExecStart, ReadInterval, WaitOver, WaitBlock,
                TimeoutOver, Proceed, PaceWait, FinishWork, SpuriousWakeup, Timeout,
                WorkWakeup, WorkStop
  <2>3. PICK c \in Callers : InitLock(c)
    BY <2>1, <2>2 DEF Next, ThreadAction
  <2> QED BY <2>3, NoneAlive DEF InitLock
<1> QED BY <1>1, Invariance, PTL DEF Spec, StopKept

(* A wakeup is used up by a run that begins after it, never by one that    *)
(* was already in progress.                                                *)
THEOREM WakeupUsedHolds == Spec => WakeupUsed
<1>1. IInv /\ [Next]_vars
        => [m_wakeUp /\ ~m_wakeUp' =>
              \/ \A g \in Threads : ~Alive(g)
              \/ \E g \in Threads : exec[g] # "work" /\ exec'[g] = "work"]_vars
  <2> SUFFICES ASSUME IInv, Next, m_wakeUp, ~m_wakeUp'
               PROVE  \/ \A g \in Threads : ~Alive(g)
                      \/ \E g \in Threads : exec[g] # "work" /\ exec'[g] = "work"
    OBVIOUS
  <2>1. ASSUME NEW c \in Callers, Call(c) \/ Continue(c) PROVE InitLock(c)
    BY <2>1, Zenon DEF Call, Continue, InitInterval, Wakeup, Stop, JoinBegin, InitAlready,
                InitCreate, InitAssign, NotifyAll, JoinWait, JoinReset
  <2>2. ASSUME NEW g \in Threads, ThreadAction(g)
        PROVE  exec[g] \in {"check", "timedout"} /\ ExecGoto(g, "work")
    BY <2>2, Zenon DEF ThreadAction, Run, Loop, ExecStart, ReadInterval, WaitOver, WaitBlock,
                TimeoutOver, Proceed, PaceWait, FinishWork, SpuriousWakeup, Timeout,
                WorkWakeup, WorkStop
  <2>3. CASE \E c \in Callers : InitLock(c)
    BY <2>3, NoneAlive DEF InitLock
  <2>4. CASE \E g \in Threads :
               exec[g] \in {"check", "timedout"} /\ ExecGoto(g, "work")
    BY <2>4 DEF ExecGoto, IInv, TypeOK
  <2> QED BY <2>1, <2>2, <2>3, <2>4 DEF Next, ThreadAction
<1> QED BY <1>1, Invariance, PTL DEF Spec, WakeupUsed

(* A stop and a wakeup stay set until they have had their effect. *)
THEOREM FlagsKeptHolds == Spec => FlagsKept
  BY StopKeptHolds, WakeupUsedHolds DEF FlagsKept
=============================================================================
