----------------------- MODULE DispatcherThreadProofs -----------------------
(***************************************************************************)
(* DispatcherThread keeps the promise of TaskQueue, for every set of       *)
(* callers and tasks and every bound.                                      *)
(*                                                                         *)
(* Without its queue the dispatcher is a WorkerThread, so the worker's     *)
(* inductive invariant holds of it.  With it only one thread is inside     *)
(* repeatableWork(), and a function that was pushed is in the queue until  *)
(* that thread pops it.                                                    *)
(***************************************************************************)
EXTENDS DispatcherThread, WorkerThreadProofs, SequenceTheorems

(* A thread is inside repeatableWork() only as the work of exec(). *)
InsideWork == \A g \in Threads : work[g] # "begin" => exec[g] = "work"

DispatcherInv == IInv /\ DispatcherTypeOK /\ InsideWork /\ QueueExact

-----------------------------------------------------------------------------
(* Popping the front moves it to what was executed. *)
LEMMA PopExact ==
    ASSUME NEW S, NEW e \in Seq(S), NEW q \in Seq(S), q # <<>>
    PROVE  /\ Append(e, Head(q)) \o Tail(q) = e \o q
           /\ (e \o q)[Len(e) + 1] = Head(q)
           /\ Len(e) < Len(e \o q)
<1>1. /\ Head(q) \in S
      /\ Tail(q) \in Seq(S)
      /\ <<Head(q)>> \in Seq(S)
      /\ Len(Tail(q)) = Len(q) - 1
      /\ Len(q) \in Nat /\ Len(q) > 0 /\ Len(e) \in Nat
  BY HeadTailProperties
<1>2. q = <<Head(q)>> \o Tail(q)
  BY <1>1
<1>3. Append(e, Head(q)) = e \o <<Head(q)>>
  BY <1>1, AppendIsConcat
<1>4. Append(e, Head(q)) \o Tail(q) = e \o q
  BY <1>1, <1>2, <1>3, ConcatAssociative
<1>5. (e \o q)[Len(e) + 1] = Head(q) /\ Len(e) < Len(e \o q)
  BY <1>1, ConcatProperties
<1> QED BY <1>4, <1>5

-----------------------------------------------------------------------------
(* Every step of the dispatcher is a step of its worker, or leaves it be. *)
LEMMA WorkerRefined == [DispatcherNext]_allVars => [Next]_vars
<1> SUFFICES ASSUME [DispatcherNext]_allVars PROVE [Next]_vars
  OBVIOUS
<1>1. ASSUME NEW c \in Callers,
             \/ WorkerCall(c)
             \/ \E t \in Tasks : Dispatch(c, t)
             \/ DispatcherContinue(c)
      PROVE  [Next]_vars
  BY <1>1, Zenon DEF WorkerCall, Dispatch, DispatcherContinue, DispatchWakeup, Next, Call
<1>2. ASSUME NEW g \in Threads,
             \/ DispatcherRun(g)
             \/ DispatcherTimeout(g)
             \/ SpuriousWakeup(g) /\ UNCHANGED dispatcherVars
             \/ \E t \in Tasks : TaskDispatch(g, t)
             \/ TaskStop(g)
      PROVE  [Next]_vars
  BY <1>2, Zenon DEF DispatcherRun, DispatcherTimeout, PopNothing, Pop, TaskWakeup, TaskReturn,
              WorkReturn, TaskDispatch, TaskStop, Next, Run
<1>3. CASE UNCHANGED allVars BY <1>3 DEF allVars
<1> QED BY <1>1, <1>2, <1>3 DEF DispatcherNext
(* Only its own return takes a thread out of its work. *)
LEMMA WorkKept ==
    ASSUME IInv, IInv',
           \/ \E c \in Callers : Call(c) \/ Continue(c)
           \/ \E g \in Threads : \/ Loop(g) \/ SpuriousWakeup(g) \/ Timeout(g)
                                 \/ WorkWakeup(g) \/ WorkStop(g)
    PROVE  \A h \in Threads : exec[h] = "work" => exec'[h] = "work"
<1> USE DEF IInv, TypeOK, Threads, callerVars, threadVars, ExecGoto
<1>1. ASSUME NEW c \in Callers, Call(c) \/ Continue(c), ~InitCreate(c), ~NotifyAll(c)
      PROVE  exec' = exec
  BY <1>1 DEF Call, Continue, InitInterval, Wakeup, Stop, JoinBegin, InitAlready,
              InitLock, InitAssign, JoinWait, JoinReset
<1>2. ASSUME NEW c \in Callers, InitCreate(c) \/ NotifyAll(c),
             NEW h \in Threads, exec[h] = "work"
      PROVE  exec'[h] = "work"
  BY <1>2 DEF InitCreate, NotifyAll, Launching
<1>3. ASSUME NEW g \in Threads, Loop(g)
      PROVE  exec[g] # "work" /\ \A h \in Threads \ {g} : exec'[h] = exec[h]
  BY <1>3 DEF Loop, ExecStart, ReadInterval, WaitOver, WaitBlock, TimeoutOver, Proceed,
              PaceWait
<1>4. ASSUME NEW g \in Threads, SpuriousWakeup(g) \/ Timeout(g)
      PROVE  exec[g] # "work" /\ \A h \in Threads \ {g} : exec'[h] = exec[h]
  BY <1>4 DEF SpuriousWakeup, Timeout
<1>5. ASSUME NEW g \in Threads, WorkWakeup(g) \/ WorkStop(g) PROVE exec' = exec
  BY <1>5 DEF WorkWakeup, WorkStop
<1> QED BY <1>1, <1>2, <1>3, <1>4, <1>5

(* The dispatcher's inductive invariant holds initially ... *)
LEMMA DispatcherInitInv == DispatcherInit => DispatcherInv
<1> SUFFICES ASSUME DispatcherInit PROVE DispatcherInv
  OBVIOUS
<1>1. IInv BY InitIInv DEF DispatcherInit
<1>2. DispatcherTypeOK BY <1>1 DEF IInv, DispatcherTypeOK, DispatcherInit, WorkStates
<1>3. InsideWork BY DEF InsideWork, DispatcherInit
<1>4. QueueExact BY DEF QueueExact, DispatcherInit
<1> QED BY <1>1, <1>2, <1>3, <1>4 DEF DispatcherInv

(* ... and after every step. *)
LEMMA DispatcherNextInv == DispatcherInv /\ [DispatcherNext]_allVars => DispatcherInv'
<1> SUFFICES ASSUME DispatcherInv, [DispatcherNext]_allVars PROVE DispatcherInv'
  OBVIOUS
<1>1. IInv' /\ TypeOK'
  BY WorkerRefined, NextIInv DEF DispatcherInv, IInv
<1> USE DEF DispatcherInv
(* Steps of the worker alone. *)
<1>2. ASSUME UNCHANGED dispatcherVars,
             \A h \in Threads : exec[h] = "work" => exec'[h] = "work"
      PROVE  DispatcherInv'
  BY <1>1, <1>2 DEF dispatcherVars, DispatcherTypeOK, InsideWork, QueueExact
(* The wakeup of dispatch(), by a caller or by a running function. *)
<1>3. ASSUME NEW c \in Callers, DispatchWakeup(c) PROVE DispatcherInv'
  BY <1>1, <1>3
  DEF DispatchWakeup, Wakeup, threadVars, DispatcherTypeOK, InsideWork, QueueExact
<1>4. ASSUME NEW g \in Threads, TaskWakeup(g) PROVE DispatcherInv'
  BY <1>1, <1>4
  DEF TaskWakeup, WorkWakeup, WorkGoto, WorkStates, threadVars, DispatcherTypeOK,
      InsideWork, QueueExact
(* The push. *)
<1>5. ASSUME NEW t \in Tasks, Push(t), UNCHANGED executed PROVE QueueExact'
  <2>1. /\ executed \in Seq(Tasks) /\ execQueue \in Seq(Tasks)
        /\ submitted = executed \o execQueue
    BY DEF QueueExact, DispatcherTypeOK
  <2>2. Append(submitted, t) = executed \o Append(execQueue, t)
    BY ONLY <2>1, t \in Tasks
  <2> QED BY <1>5, <2>2 DEF Push, QueueExact
<1>6. ASSUME NEW c \in Callers, NEW t \in Tasks, Dispatch(c, t) PROVE DispatcherInv'
  BY <1>1, <1>5, <1>6
  DEF Dispatch, Push, vars, threadVars, DispatcherTypeOK, InsideWork
<1>7. ASSUME NEW g \in Threads, NEW t \in Tasks, TaskDispatch(g, t) PROVE DispatcherInv'
  BY <1>1, <1>5, <1>7
  DEF TaskDispatch, Push, WorkGoto, WorkStates, vars, threadVars, DispatcherTypeOK, InsideWork
(* The pop. *)
<1>8. ASSUME NEW g \in Threads, Pop(g) PROVE DispatcherInv'
  <2>1. QueueExact'
    BY <1>8, PopExact DEF Pop, QueueExact, DispatcherTypeOK
  <2>2. DispatcherTypeOK' /\ InsideWork'
    BY <1>1, <1>8 DEF Pop, WorkGoto, WorkStates, vars, threadVars, DispatcherTypeOK, InsideWork
  <2> QED BY <1>1, <2>1, <2>2
<1>9. ASSUME NEW g \in Threads, PopNothing(g) \/ TaskReturn(g) PROVE DispatcherInv'
  BY <1>1, <1>9
  DEF PopNothing, TaskReturn, WorkGoto, WorkStates, vars, threadVars, DispatcherTypeOK,
      InsideWork, QueueExact
<1>10. ASSUME NEW g \in Threads, WorkReturn(g) PROVE DispatcherInv'
  BY <1>1, <1>10
  DEF WorkReturn, FinishWork, WorkGoto, WorkStates, ExecGoto, IInv, TypeOK, DispatcherTypeOK,
      InsideWork, QueueExact
<1>11. ASSUME UNCHANGED dispatcherVars,
              \/ \E c \in Callers : Call(c) \/ Continue(c)
              \/ \E g \in Threads : \/ Loop(g) \/ SpuriousWakeup(g) \/ Timeout(g)
                                    \/ WorkWakeup(g) \/ WorkStop(g)
       PROVE  DispatcherInv'
  BY <1>1, <1>2, <1>11, WorkKept
<1>12. CASE UNCHANGED allVars
  BY <1>2, <1>12 DEF allVars, vars, threadVars
<1>13. CASE \E c \in Callers : \/ WorkerCall(c)
                               \/ \E t \in Tasks : Dispatch(c, t)
                               \/ DispatcherContinue(c)
  BY <1>3, <1>6, <1>11, <1>13 DEF WorkerCall, DispatcherContinue
<1>14. CASE \E g \in Threads : \/ DispatcherRun(g)
                               \/ DispatcherTimeout(g)
                               \/ SpuriousWakeup(g) /\ UNCHANGED dispatcherVars
                               \/ \E t \in Tasks : TaskDispatch(g, t)
                               \/ TaskStop(g)
  BY <1>4, <1>7, <1>8, <1>9, <1>10, <1>11, <1>14
  DEF DispatcherRun, DispatcherTimeout, TaskStop
<1>15. CASE DispatcherNext BY <1>13, <1>14, <1>15 DEF DispatcherNext
<1> QED BY <1>12, <1>15

(* DispatcherInv holds in every reachable state. *)
THEOREM DispatcherInvariance == DispatcherSpec => []DispatcherInv
  BY DispatcherInitInv, DispatcherNextInv, PTL DEF DispatcherSpec
-----------------------------------------------------------------------------
(* The types are those DispatcherTypeOK states. *)
THEOREM DispatcherTypeCorrect == DispatcherSpec => []DispatcherTypeOK
<1>1. DispatcherInv => DispatcherTypeOK BY DEF DispatcherInv
<1> QED BY <1>1, DispatcherInvariance, PTL

(* Nothing dispatched is lost, doubled or overtaken. *)
THEOREM QueueExactHolds == DispatcherSpec => []QueueExact
<1>1. DispatcherInv => QueueExact BY DEF DispatcherInv
<1> QED BY <1>1, DispatcherInvariance, PTL

(* No dispatched function runs after join() has returned. *)
THEOREM JoinedQuietHolds == DispatcherSpec => []JoinedQuiet
<1>1. DispatcherInv => JoinedQuiet
  <2> SUFFICES ASSUME DispatcherInv, m_thread = Null, m_mutex = Free,
                      NEW g \in Threads, Running(g)
               PROVE  FALSE
    BY DEF JoinedQuiet
  <2>1. ~Alive(g) BY NoneAlive DEF DispatcherInv
  <2>2. exec[g] = "work" BY DEF DispatcherInv, InsideWork, Running
  <2> QED BY <2>1, <2>2 DEF Alive
<1> QED BY <1>1, DispatcherInvariance, PTL

-----------------------------------------------------------------------------
Busy == \E g \in Threads : Running(g)

(* A thread at the start of its work excludes a running function. *)
LEMMA BeginNotBusy ==
    ASSUME DispatcherInv, NEW g \in Threads, exec[g] = "work", work[g] = "begin"
    PROVE  ~Busy
<1> SUFFICES ASSUME NEW h \in Threads, Running(h) PROVE FALSE
  BY DEF Busy
<1>1. exec[h] = "work" BY DEF DispatcherInv, InsideWork, Running
<1>2. Alive(g) /\ Alive(h) BY <1>1 DEF Alive
<1>3. g = h BY <1>2, OneAlive DEF DispatcherInv
<1> QED BY <1>3 DEF Running

(* A step of the dispatcher is a step of the task queue, or no step of it. *)
LEMMA TaskQueueStep ==
    DispatcherInv /\ DispatcherInv' /\ [DispatcherNext]_allVars => [TQ!Next]_(TQ!taskVars)
<1> SUFFICES ASSUME DispatcherInv, DispatcherInv', [DispatcherNext]_allVars
             PROVE  [TQ!Next]_(TQ!taskVars)
  OBVIOUS
<1> USE DEF TQ!taskVars
<1>1. ASSUME UNCHANGED <<work, submitted, executed>> PROVE UNCHANGED TQ!taskVars
  BY <1>1 DEF Running
<1>2. ASSUME NEW t \in Tasks, Push(t), UNCHANGED executed,
             \A g \in Threads : Running(g)' <=> Running(g)
      PROVE  TQ!Next
  BY <1>2 DEF TQ!Next, TQ!Submit, Push
<1>3. ASSUME NEW g \in Threads, Pop(g) PROVE TQ!Next
  <2>1. ~Busy BY <1>3, BeginNotBusy DEF Pop
  <2> DEFINE t == Head(execQueue)
  <2>2. /\ submitted[Len(executed) + 1] = t
        /\ Len(executed) < Len(submitted)
    BY <1>3, PopExact DEF Pop, DispatcherInv, DispatcherTypeOK, QueueExact
  <2>3. Busy' <=> t # Empty
    <3>1. \A h \in Threads \ {g} : ~Running(h)'
      BY <1>3, <2>1 DEF Pop, WorkGoto, Running, Busy, DispatcherInv, DispatcherTypeOK
    <3>2. Running(g)' <=> t # Empty
      BY <1>3 DEF Pop, WorkGoto, Running, DispatcherInv, DispatcherTypeOK
    <3> QED BY <3>1, <3>2 DEF Busy
  <2>4. executed' = Append(executed, submitted[Len(executed) + 1]) /\ submitted' = submitted
    BY <1>3, <2>2 DEF Pop
  <2> QED BY <2>1, <2>2, <2>3, <2>4 DEF TQ!Next, TQ!Take, Busy
<1>4. ASSUME NEW g \in Threads, TaskReturn(g) PROVE TQ!Next
  <2>1. Busy BY <1>4 DEF TaskReturn, Running, Busy
  <2>2. ~Busy'
    <3> SUFFICES ASSUME NEW h \in Threads, Running(h)' PROVE FALSE
      BY DEF Busy
    <3>1. Running(h) /\ h # g
      BY <1>4 DEF TaskReturn, WorkGoto, Running, DispatcherInv, DispatcherTypeOK
    <3>2. exec[h] = "work" /\ exec[g] = "work"
      BY <1>4, <3>1 DEF TaskReturn, Running, DispatcherInv, InsideWork
    <3> QED BY <3>1, <3>2, OneAlive DEF DispatcherInv, Alive
  <2> QED BY <1>4, <2>1, <2>2 DEF TaskReturn, TQ!Next, TQ!Finish, Busy
<1>5. ASSUME NEW g \in Threads, PopNothing(g) \/ TaskWakeup(g) \/ WorkReturn(g)
      PROVE  UNCHANGED TQ!taskVars
  <2>1. \A h \in Threads : Running(h)' <=> Running(h)
    BY <1>5 DEF PopNothing, TaskWakeup, WorkReturn, WorkGoto, Running, DispatcherInv,
                DispatcherTypeOK
  <2> QED BY <1>5, <2>1 DEF PopNothing, TaskWakeup, WorkReturn
<1>6. ASSUME NEW g \in Threads, NEW t \in Tasks, TaskDispatch(g, t) PROVE TQ!Next
  <2>1. \A h \in Threads : Running(h)' <=> Running(h)
    BY <1>6 DEF TaskDispatch, WorkGoto, Running, DispatcherInv, DispatcherTypeOK
  <2> QED BY <1>2, <1>6, <2>1 DEF TaskDispatch
<1>7. ASSUME NEW c \in Callers, NEW t \in Tasks, Dispatch(c, t) PROVE TQ!Next
  BY <1>2, <1>7 DEF Dispatch, Running
<1>8. ASSUME NEW c \in Callers, DispatchWakeup(c) PROVE UNCHANGED TQ!taskVars
  BY <1>1, <1>8 DEF DispatchWakeup
<1>9. ASSUME UNCHANGED dispatcherVars PROVE UNCHANGED TQ!taskVars
  BY <1>1, <1>9 DEF dispatcherVars
<1>10. CASE \E c \in Callers : \/ WorkerCall(c)
                               \/ \E t \in Tasks : Dispatch(c, t)
                               \/ DispatcherContinue(c)
  BY <1>7, <1>8, <1>9, <1>10, Zenon DEF WorkerCall, DispatcherContinue
<1>11. CASE \E g \in Threads : \/ DispatcherRun(g)
                               \/ DispatcherTimeout(g)
                               \/ SpuriousWakeup(g) /\ UNCHANGED dispatcherVars
                               \/ \E t \in Tasks : TaskDispatch(g, t)
                               \/ TaskStop(g)
  BY <1>3, <1>4, <1>5, <1>6, <1>9, <1>11, Zenon DEF DispatcherRun, DispatcherTimeout, TaskStop
<1>12. CASE UNCHANGED allVars
  BY <1>9, <1>12 DEF allVars
<1>13. CASE DispatcherNext BY <1>10, <1>11, <1>13 DEF DispatcherNext
<1> QED BY <1>12, <1>13

(* The dispatcher implements the task queue. *)
THEOREM KeepsTaskQueueHolds == DispatcherSpec => KeepsTaskQueue
<1>1. DispatcherInit => TQ!Init
  BY DEF DispatcherInit, TQ!Init, Running
<1> QED BY <1>1, TaskQueueStep, DispatcherInvariance, PTL
        DEF DispatcherSpec, KeepsTaskQueue, TQ!Spec
=============================================================================
