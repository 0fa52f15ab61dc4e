------------------------ MODULE UvApplicationProofs ------------------------
(***************************************************************************)
(* What runs on the thread of the event loop, for every set of timers,     *)
(* posters, tasks and processes: close() leaves nothing behind,            *)
(* invokeAsync() strands no function and keeps the promise of TaskQueue,   *)
(* and a child process is reported once and truthfully.                    *)
(***************************************************************************)
EXTENDS UvCoreApplication, UvInvokeAsync, UvPosixProcess, SequenceTheorems,
        WellFoundedInduction, TLAPS

-----------------------------------------------------------------------------
(* UvCoreApplication *)

(* A wrapper that was closed waits for its own close callback. *)
AskedWait == \A w \in asked : uv[w] # "none" => uv[w] = "closing" /\ closedBy[w] = "owner"

(* The handle of a signal is never closed by the walk of the loop. *)
SignalsOwned ==
    \A s \in Signals : uv[s] # "closed" /\ (uv[s] = "closing" => closedBy[s] = "owner")

(* What the stages of close() have established. *)
CloseStages ==
    /\ where \notin {"outside", "run"} => \A s \in Signals : ~Closable(s)
    /\ where \in {"again", "iterate"} => \A h \in Handles : ~Closable(h)
    /\ where = "iterate" => ~inCallback
    /\ where = "again" /\ ~found => CanCloseLoop
    /\ where = "final" => CanCloseLoop

(* Without a loop nothing runs and no handle is open. *)
LoopGone == loopHandle = "null" => where = "outside" /\ CanCloseLoop

AppInv == AppTypeOK /\ AskedWait /\ SignalsOwned /\ CloseStages /\ LoopGone

(* The handles of the signals, of the timers and the async one differ. *)
LEMMA HandlesDiffer ==
    /\ Signals \subseteq Wrappers /\ Timers \subseteq Wrappers /\ Wrappers \subseteq Handles
    /\ Async \in Handles /\ Async \notin Wrappers
    /\ \A t \in Timers : t \notin Signals /\ t # Async
    /\ \A h \in Handles : h \in Wrappers \/ h = Async
    /\ \A w \in Wrappers : w \in Signals \/ w \in Timers
<1>1. Async \notin Signals
  BY DEF Signals, SignalOrder, Async
<1> QED BY <1>1, TimersAssumption DEF Wrappers, Handles

(* The invariant holds initially. *)
LEMMA AppInitInv == AppInit => AppInv
<1> SUFFICES ASSUME AppInit PROVE AppInv
  OBVIOUS
<1> USE DEF AppInit
<1>1. stopFlag \in BOOLEAN /\ inCallback \in BOOLEAN /\ found \in BOOLEAN /\ stopped \in BOOLEAN
  BY Zenon
<1>2. AppTypeOK
  BY <1>1, HandlesDiffer DEF AppTypeOK, Iterating
<1>3. AskedWait /\ SignalsOwned /\ CloseStages /\ LoopGone
  BY HandlesDiffer DEF AskedWait, SignalsOwned, CloseStages, LoopGone, CanCloseLoop, Open
<1> QED BY <1>2, <1>3 DEF AppInv

(* Every step preserves the invariant. *)
LEMMA AppNextInv == AppInv /\ [AppNext]_appVars => AppInv'
<1> SUFFICES ASSUME AppInv, [AppNext]_appVars PROVE AppInv'
  OBVIOUS
<1> USE HandlesDiffer DEF AppInv
<1>1. ASSUME NEW n \in 0 .. Len(SignalOrder), Initialize(n) PROVE AppInv'
  <2> DEFINE begun == Started(n) \cup {Async}
  <2> HIDE DEF begun
  <2>1. /\ \A h \in Handles : uv'[h] = IF h \in Timers THEN uv[h]
                                       ELSE IF h \in begun THEN "active" ELSE "inactive"
        /\ uv' = [h \in Handles |-> uv'[h]]
    BY <1>1 DEF Initialize, begun
  <2>2. /\ \A h \in Handles : closedBy'[h] = IF h \in Timers THEN closedBy[h] ELSE "nobody"
        /\ closedBy' = [h \in Handles |-> closedBy'[h]]
        /\ \A w \in Wrappers : m_handle'[w] = (w \in Signals \/ m_handle[w])
        /\ m_handle' = [w \in Wrappers |-> w \in Signals \/ m_handle[w]]
        /\ asked' = asked \ Signals
        /\ loopHandle = "null" /\ loopHandle' = "open" /\ stopFlag' = FALSE
        /\ where = "outside" /\ UNCHANGED <<where, inCallback, found, stopped>>
    BY <1>1 DEF Initialize, InitLoop, InitHandlers
  <2>3. stopFlag' \in BOOLEAN /\ m_handle' \in [Wrappers -> BOOLEAN]
    <3>1. \A w \in Wrappers : m_handle'[w] \in BOOLEAN
      BY <2>2, Zenon DEF AppTypeOK
    <3> QED BY <2>2, <3>1, Zenon
  <2>4. uv' \in [Handles -> Open \cup {"none", "closed"}]
    BY <2>1 DEF AppTypeOK, Open
  <2>5. closedBy' \in [Handles -> {"nobody", "owner", "loop"}]
    BY <2>2 DEF AppTypeOK
  <2>6. \A w \in Wrappers : m_handle'[w] <=> uv'[w] # "none"
    BY <2>1, <2>2 DEF AppTypeOK
  <2>7. AppTypeOK'
    BY <2>2, <2>3, <2>4, <2>5, <2>6 DEF AppTypeOK
  <2>8. AskedWait' /\ SignalsOwned'
    BY <2>1, <2>2 DEF AppTypeOK, AskedWait, SignalsOwned
  <2>9. CloseStages' /\ LoopGone'
    BY <2>2 DEF CloseStages, LoopGone
  <2> QED BY <2>7, <2>8, <2>9
<1>2. ASSUME Stop PROVE AppInv'
  <2>1. /\ \A h \in Handles : uv'[h] = IF h \in Signals /\ uv[h] = "active" THEN "inactive"
                                       ELSE IF h = Async /\ Closable(h) THEN "closing" ELSE uv[h]
        /\ uv' = [h \in Handles |-> uv'[h]]
        /\ \A h \in Handles : closedBy'[h] = IF h = Async /\ Closable(h) THEN "owner" ELSE closedBy[h]
        /\ closedBy' = [h \in Handles |-> closedBy'[h]]
    BY <1>2 DEF Stop, StopHandlers, Closed, ClosedBy
  <2>2. /\ UserActs /\ loopHandle = "open" /\ stopFlag' = TRUE
        /\ stopped' = (stopped \/ where = "run")
        /\ UNCHANGED <<loopHandle, m_handle, where, inCallback, found, asked>>
    BY <1>2 DEF Stop, StopLoop
  <2>3. stopFlag' \in BOOLEAN /\ stopped' \in BOOLEAN
    BY <2>2, Zenon DEF AppTypeOK
  <2>4. uv' \in [Handles -> Open \cup {"none", "closed"}]
    BY <2>1 DEF AppTypeOK, Open
  <2>5. closedBy' \in [Handles -> {"nobody", "owner", "loop"}]
    BY <2>1 DEF AppTypeOK
  <2>6. AppTypeOK'
    BY <2>1, <2>2, <2>3, <2>4, <2>5 DEF AppTypeOK
  <2>7. AskedWait' /\ SignalsOwned'
    BY <2>1, <2>2 DEF AppTypeOK, AskedWait, SignalsOwned
  <2>8. CloseStages' /\ LoopGone'
    BY <2>1, <2>2 DEF UserActs, AppTypeOK, Iterating, CloseStages, LoopGone, Closable
  <2> QED BY <2>6, <2>7, <2>8
<1>3. ASSUME Close PROVE AppInv'
  <2> DEFINE both == Signals \cup {Async}
  <2>1. /\ uv' = Closed(both) /\ closedBy' = ClosedBy(both, "owner")
        /\ asked' = asked \cup Signals
        /\ where = "outside" /\ loopHandle = "open"
        /\ where' \in {"first", "walk"}
        /\ stopFlag' = FALSE
        /\ UNCHANGED <<loopHandle, m_handle, inCallback, found, stopped>>
    BY <1>3 DEF Close
  <2>2. /\ \A h \in Handles :
             IF h \in both /\ Closable(h)
             THEN uv'[h] = "closing" /\ closedBy'[h] = "owner"
             ELSE uv'[h] = uv[h] /\ closedBy'[h] = closedBy[h]
        /\ uv' = [h \in Handles |-> uv'[h]] /\ closedBy' = [h \in Handles |-> closedBy'[h]]
    BY <2>1 DEF Closed, ClosedBy
  <2>3. stopFlag' \in BOOLEAN
    BY <2>1, Zenon
  <2>4. uv' \in [Handles -> Open \cup {"none", "closed"}]
    BY <2>2 DEF AppTypeOK, Open
  <2>5. closedBy' \in [Handles -> {"nobody", "owner", "loop"}]
    BY <2>2 DEF AppTypeOK
  <2>6. AppTypeOK'
    BY <2>1, <2>2, <2>3, <2>4, <2>5 DEF AppTypeOK, Closable, Iterating
  <2>7. \A s \in Signals : uv'[s] \in {"none", "closing"} /\ (uv'[s] = "closing" => closedBy'[s] = "owner")
    BY <2>2 DEF AppTypeOK, SignalsOwned, Closable, Open
  <2>8. AskedWait'
    BY <2>1, <2>2, <2>7 DEF AppTypeOK, AskedWait, Closable
  <2>9. SignalsOwned' /\ CloseStages' /\ LoopGone'
    BY <2>1, <2>7 DEF SignalsOwned, CloseStages, LoopGone, Closable
  <2> QED BY <2>6, <2>8, <2>9
<1>4. ASSUME NEW t \in Timers, CreateTimer(t) PROVE AppInv'
  <2>1. AppTypeOK'
    BY <1>4 DEF CreateTimer, InitTimer, AppTypeOK, Open
  <2>2. AskedWait' /\ SignalsOwned'
    BY <1>4 DEF CreateTimer, InitTimer, AppTypeOK, AskedWait, SignalsOwned
  <2>3. CloseStages' /\ LoopGone'
    BY <1>4 DEF CreateTimer, InitTimer, UserActs, AppTypeOK, Iterating, CloseStages, LoopGone, Closable
  <2> QED BY <2>1, <2>2, <2>3
<1>5. ASSUME NEW t \in Timers, StartTimer(t) \/ StopTimer(t) PROVE AppInv'
  <2>1. AppTypeOK'
    BY <1>5 DEF StartTimer, StopTimer, historyVars, Closable, AppTypeOK, Open
  <2>2. AskedWait' /\ SignalsOwned'
    BY <1>5 DEF StartTimer, StopTimer, historyVars, Closable, AppTypeOK, AskedWait, SignalsOwned
  <2>3. CloseStages' /\ LoopGone'
    BY <1>5 DEF StartTimer, StopTimer, historyVars, UserActs, AppTypeOK, Iterating, CloseStages, LoopGone, CanCloseLoop, Open, Closable
  <2> QED BY <2>1, <2>2, <2>3
<1>6. ASSUME NEW t \in Timers, CloseTimer(t) PROVE AppInv'
  <2>1. /\ UserActs /\ Closable(t) /\ asked' = asked \cup {t}
        /\ UNCHANGED <<loopHandle, stopFlag, m_handle, where, inCallback, found, stopped>>
        /\ uv' = [uv EXCEPT ![t] = "closing"] /\ closedBy' = [closedBy EXCEPT ![t] = "owner"]
    BY <1>6 DEF CloseTimer, Closed, ClosedBy, AppTypeOK
  <2>2. AppTypeOK'
    BY <2>1 DEF Closable, AppTypeOK, Open
  <2>3. AskedWait' /\ SignalsOwned'
    BY <2>1 DEF Closable, AppTypeOK, AskedWait, SignalsOwned
  <2>4. CloseStages' /\ LoopGone'
    BY <2>1 DEF UserActs, AppTypeOK, Iterating, CloseStages, LoopGone, CanCloseLoop, Open, Closable
  <2> QED BY <2>2, <2>3, <2>4
<1>7. ASSUME Run PROVE AppInv'
  <2>1. /\ where = "outside" /\ where' \in {"outside", "run"} /\ loopHandle = "open"
        /\ UNCHANGED <<loopHandle, uv, closedBy, m_handle, inCallback, found, asked, stopped>>
    BY <1>7 DEF Run, historyVars
  <2>2. stopFlag' \in BOOLEAN
    BY <1>7, Zenon DEF Run, AppTypeOK
  <2> QED BY <2>1, <2>2 DEF AppTypeOK, Iterating, AskedWait, SignalsOwned, CloseStages, LoopGone, Closable
<1>8. ASSUME NEW h \in Handles, CallBack(h) PROVE AppInv'
  <2>1. /\ where \in Iterating /\ uv[h] = "active" /\ inCallback' = TRUE
        /\ uv' = uv \/ (h \in Timers /\ uv' = [uv EXCEPT ![h] = "inactive"])
        /\ UNCHANGED <<loopHandle, stopFlag, closedBy, m_handle, where, found, asked, stopped>>
    BY <1>8, Zenon DEF CallBack, historyVars
  <2>2. inCallback' \in BOOLEAN
    BY <2>1, Zenon
  <2>3. AppTypeOK'
    BY <2>1, <2>2 DEF AppTypeOK, Open
  <2>4. AskedWait' /\ SignalsOwned'
    BY <2>1 DEF AppTypeOK, AskedWait, SignalsOwned
  <2>5. CloseStages' /\ LoopGone'
    BY <2>1 DEF AppTypeOK, Iterating, CloseStages, LoopGone, CanCloseLoop, Open, Closable
  <2> QED BY <2>3, <2>4, <2>5
<1>9. ASSUME CallbackReturns PROVE AppInv'
  <2>1. inCallback' \in BOOLEAN
    BY <1>9, Zenon DEF CallbackReturns
  <2> QED BY <1>9, <2>1 DEF CallbackReturns, libuvVars, historyVars, AppTypeOK, Iterating, AskedWait, SignalsOwned, CloseStages,
               LoopGone, CanCloseLoop, Closable
<1>10. ASSUME IterationEnds PROVE AppInv'
  <2>1. /\ \A h \in Handles : uv'[h] = IF Deletes(h) THEN "none"
                                       ELSE IF uv[h] = "closing" THEN "closed" ELSE uv[h]
        /\ uv' = [h \in Handles |-> uv'[h]]
        /\ \A w \in Wrappers : m_handle'[w] = (m_handle[w] /\ ~Deletes(w))
        /\ m_handle' = [w \in Wrappers |-> m_handle[w] /\ ~Deletes(w)]
    BY <1>10 DEF IterationEnds, CloseCallbacks
  <2>2. /\ where \in Iterating /\ ~inCallback
        /\ where = "run" => where' \in {"run", "outside"}
        /\ where = "first" => where' = "walk"
        /\ where = "iterate" => where' = "again"
        /\ stopped' = (stopped /\ where' = "run")
        /\ UNCHANGED <<loopHandle, closedBy, inCallback, found, asked>>
    BY <1>10 DEF IterationEnds
  <2>3. stopFlag' \in BOOLEAN /\ stopped' \in BOOLEAN
    BY <1>10, Zenon DEF IterationEnds, AppTypeOK
  <2>4. uv' \in [Handles -> Open \cup {"none", "closed"}]
    BY <2>1 DEF AppTypeOK, Open
  <2>5. m_handle' \in [Wrappers -> BOOLEAN]
    <3>1. \A w \in Wrappers : m_handle'[w] \in BOOLEAN
      BY <2>1, Zenon DEF AppTypeOK
    <3> QED BY <2>1, <3>1, Zenon
  <2>6. \A w \in Wrappers : m_handle'[w] <=> uv'[w] # "none"
    BY <2>1 DEF AppTypeOK, Deletes
  <2>7. AppTypeOK'
    BY <2>2, <2>3, <2>4, <2>5, <2>6 DEF AppTypeOK, Iterating
  <2>8. AskedWait' /\ SignalsOwned'
    BY <2>1, <2>2 DEF AppTypeOK, AskedWait, SignalsOwned, Deletes
  <2>9. CloseStages' /\ LoopGone'
    BY <2>1, <2>2 DEF AppTypeOK, Iterating, CloseStages, LoopGone, CanCloseLoop, Open, Closable, Deletes
  <2> QED BY <2>7, <2>8, <2>9
<1>11. ASSUME FirstWalk \/ WalkAgain PROVE AppInv'
  <2>1. /\ (where = "walk" /\ where' = "again") \/ (where = "again" /\ where' = "iterate")
        /\ found' = (\E h \in Handles : uv[h] \in Open)
        /\ uv' = Closed(Handles) /\ closedBy' = ClosedBy(Handles, "loop")
        /\ UNCHANGED <<loopHandle, stopFlag, m_handle, inCallback, asked, stopped>>
    BY <1>11, Zenon DEF FirstWalk, WalkAgain, Walk, historyVars
  <2>2. /\ \A h \in Handles :
             IF Closable(h)
             THEN uv'[h] = "closing" /\ closedBy'[h] = "loop"
             ELSE uv'[h] = uv[h] /\ closedBy'[h] = closedBy[h]
        /\ uv' = [h \in Handles |-> uv'[h]] /\ closedBy' = [h \in Handles |-> closedBy'[h]]
    BY <2>1 DEF Closed, ClosedBy
  <2>3. found' \in BOOLEAN
    BY <2>1, Zenon
  <2>4. uv' \in [Handles -> Open \cup {"none", "closed"}]
    BY <2>2 DEF AppTypeOK, Open
  <2>5. closedBy' \in [Handles -> {"nobody", "owner", "loop"}]
    BY <2>2 DEF AppTypeOK
  <2>6. AppTypeOK'
    BY <2>1, <2>2, <2>3, <2>4, <2>5 DEF AppTypeOK, Closable, Iterating
  <2>7. AskedWait' /\ SignalsOwned'
    BY <2>1, <2>2 DEF AppTypeOK, AskedWait, SignalsOwned, CloseStages, Closable
  <2>8. \A h \in Handles : uv'[h] \notin {"inactive", "active"}
    BY <2>2 DEF Closable
  <2>9. ~found' => \A h \in Handles : uv'[h] \notin Open
    BY <2>1, <2>2 DEF Closable, Open
  <2>10. CloseStages' /\ LoopGone'
    BY <2>1, <2>8, <2>9 DEF AppTypeOK, Iterating, CloseStages, LoopGone, CanCloseLoop, Closable
  <2> QED BY <2>6, <2>7, <2>10
<1>12. ASSUME NothingFound \/ CloseLoop PROVE AppInv'
  BY <1>12 DEF NothingFound, CloseLoop, libuvVars, historyVars, AppTypeOK, Iterating, AskedWait, SignalsOwned,
               CloseStages, LoopGone, CanCloseLoop, Closable
<1>13. CASE UNCHANGED appVars
  BY <1>13 DEF appVars, libuvVars, historyVars, AppTypeOK, AskedWait, SignalsOwned, CloseStages, LoopGone, CanCloseLoop, Closable
<1> QED
  BY <1>1, <1>2, <1>3, <1>4, <1>5, <1>6, <1>7, <1>8, <1>9, <1>10, <1>11, <1>12, <1>13
  DEF AppNext, Application, TimerMethods, EventLoop, Closing

(* AppInv holds in every reachable state: the type invariant, and what     *)
(* close() relies on.                                                      *)
THEOREM AppInvariance == AppSpec => []AppInv
  BY AppInitInv, AppNextInv, PTL DEF AppSpec

(* close() never finds the loop busy, and a wrapper whose close() was      *)
(* called has no handle left when the loop is gone, whatever the callbacks *)
(* of the first iteration of close() did.                                  *)
THEOREM CloseCompleteHolds == AppSpec => []CloseComplete
<1>1. AppInv => CloseComplete
  BY HandlesDiffer DEF AppInv, AppTypeOK, AskedWait, CloseStages, LoopGone, CanCloseLoop, Open,
     CloseComplete, CloseNeverBusy, ClosedAreReleased
<1> QED BY <1>1, AppInvariance, PTL

-----------------------------------------------------------------------------
(* UvCoreApplication::invokeAsync() *)

(* What was posted and not taken yet is in the queue, in order. *)
PostedExact == submitted = executed \o m_tasks

AsyncInv == AsyncTypeOK /\ NoStranded /\ PostedExact

(* Taking the front of the queue is taking the next of what was posted. *)
LEMMA FrontIsNext ==
    ASSUME NEW S, NEW e \in Seq(S), NEW q \in Seq(S), q # <<>>
    PROVE  /\ Append(e, Head(q)) \o Tail(q) = e \o q
           /\ (e \o q)[Len(e) + 1] = Head(q)
           /\ Len(e) < Len(e \o q)
<1>1. /\ Head(q) \in S
      /\ Tail(q) \in Seq(S)
      /\ <<Head(q)>> \in Seq(S)
      /\ Len(q) \in Nat /\ Len(q) > 0 /\ Len(e) \in Nat
  BY HeadTailProperties
<1>2. q = <<Head(q)>> \o Tail(q)
  BY <1>1
<1>3. Append(e, Head(q)) = e \o <<Head(q)>>
  BY <1>1, AppendIsConcat
<1>4. Append(e, Head(q)) \o Tail(q) = e \o q
  BY <1>1, <1>2, <1>3, ConcatAssociative
<1>5. (e \o q)[Len(e) + 1] = Head(q) /\ Len(e) < Len(e \o q)
  BY <1>1, ConcatProperties
<1> QED BY <1>4, <1>5

(* The invariant holds initially. *)
LEMMA AsyncInitInv == AsyncInit => AsyncInv
<1> SUFFICES ASSUME AsyncInit PROVE AsyncInv
  OBVIOUS
<1> USE DEF AsyncInit
<1>1. sent \in BOOLEAN /\ closing \in BOOLEAN
  BY Zenon
<1>2. AsyncTypeOK BY <1>1 DEF AsyncTypeOK, LoopStates
<1>3. NoStranded /\ PostedExact BY DEF NoStranded, PostedExact
<1> QED BY <1>2, <1>3 DEF AsyncInv

(* Every step preserves the invariant. *)
LEMMA AsyncNextInv == AsyncInv /\ [AsyncNext]_asyncVars => AsyncInv'
<1> SUFFICES ASSUME AsyncInv, [AsyncNext]_asyncVars PROVE AsyncInv'
  OBVIOUS
<1> USE DEF AsyncInv, LoopStates
<1>1. ASSUME NEW t \in Tasks, Push(t), UNCHANGED executed PROVE PostedExact'
  <2>1. /\ executed \in Seq(Tasks) /\ m_tasks \in Seq(Tasks)
        /\ submitted = executed \o m_tasks
    BY DEF PostedExact, AsyncTypeOK
  <2>2. Append(submitted, t) = executed \o Append(m_tasks, t)
    BY ONLY <2>1, t \in Tasks
  <2> QED BY <1>1, <2>2 DEF Push, PostedExact
<1>2. ASSUME NEW u \in Posters, NEW t \in Tasks, Post(u, t) PROVE AsyncInv'
  BY <1>1, <1>2 DEF Post, Push, AsyncTypeOK, NoStranded
<1>3. ASSUME NEW t \in Tasks, TaskPosts(t) PROVE AsyncInv'
  BY <1>1, <1>3 DEF TaskPosts, Push, AsyncTypeOK, NoStranded
<1>4. ASSUME NEW u \in Posters, PostSends(u) PROVE AsyncInv'
  BY <1>4 DEF PostSends, Send, AsyncTypeOK, NoStranded, PostedExact
<1>5. ASSUME TaskSends PROVE AsyncInv'
  BY <1>5 DEF TaskSends, Send, AsyncTypeOK, NoStranded, PostedExact
<1>6. ASSUME CallbackBegins \/ CallbackEnds \/ TaskReturns PROVE AsyncInv'
  BY <1>6 DEF CallbackBegins, CallbackEnds, TaskReturns, AsyncTypeOK, NoStranded, PostedExact
<1>7. ASSUME PopFront PROVE AsyncInv'
  <2>1. PostedExact'
    BY <1>7, FrontIsNext DEF PopFront, PostedExact, AsyncTypeOK
  <2>2. AsyncTypeOK' /\ NoStranded'
    BY <1>7 DEF PopFront, AsyncTypeOK, NoStranded
  <2> QED BY <2>1, <2>2
<1>8. ASSUME CloseAsync PROVE AsyncInv'
  BY <1>8 DEF CloseAsync, AsyncTypeOK, NoStranded, PostedExact
<1>9. CASE UNCHANGED asyncVars
  BY <1>9 DEF asyncVars, AsyncTypeOK, NoStranded, PostedExact
<1> QED BY <1>2, <1>3, <1>4, <1>5, <1>6, <1>7, <1>8, <1>9 DEF AsyncNext, LoopRuns

(* AsyncInv holds in every reachable state. *)
THEOREM AsyncInvariance == AsyncSpec => []AsyncInv
  BY AsyncInitInv, AsyncNextInv, PTL DEF AsyncSpec

(* A function in the queue always has something on its way that reaches    *)
(* it, however the sends are merged.                                       *)
THEOREM NoStrandedHolds == AsyncSpec => []NoStranded
<1>1. AsyncInv => NoStranded BY DEF AsyncInv
<1> QED BY <1>1, AsyncInvariance, PTL

-----------------------------------------------------------------------------
(* A step of the application is a step of the task queue, or none of it. *)
LEMMA AsyncStep == AsyncInv /\ [AsyncNext]_asyncVars => [TQ!Next]_(TQ!taskVars)
<1> SUFFICES ASSUME AsyncInv, [AsyncNext]_asyncVars PROVE [TQ!Next]_(TQ!taskVars)
  OBVIOUS
<1> USE DEF TQ!taskVars
<1>1. ASSUME NEW u \in Posters, NEW t \in Tasks, Post(u, t) PROVE TQ!Next
  BY <1>1 DEF Post, Push, TQ!Next, TQ!Submit
<1>2. ASSUME NEW t \in Tasks, TaskPosts(t) PROVE TQ!Next
  BY <1>2 DEF TaskPosts, Push, TQ!Next, TQ!Submit
<1>3. ASSUME PopFront PROVE TQ!Next
  <2>1. /\ submitted[Len(executed) + 1] = Head(m_tasks)
        /\ Len(executed) < Len(submitted)
    BY <1>3, FrontIsNext DEF PopFront, AsyncInv, AsyncTypeOK, PostedExact
  <2>2. Head(m_tasks) \in Tasks /\ Head(m_tasks) # "none"
    BY <1>3, AsyncAssumption, HeadTailProperties DEF PopFront, AsyncInv, AsyncTypeOK
  <2> QED BY <1>3, <2>1, <2>2 DEF PopFront, TQ!Next, TQ!Take
<1>4. ASSUME TaskReturns PROVE TQ!Next
  BY <1>4 DEF TaskReturns, TQ!Next, TQ!Finish
<1>5. ASSUME \/ \E u \in Posters : PostSends(u)
             \/ CallbackBegins \/ CallbackEnds \/ TaskSends \/ CloseAsync
             \/ UNCHANGED asyncVars
      PROVE  UNCHANGED TQ!taskVars
  BY <1>5 DEF PostSends, CallbackBegins, CallbackEnds, TaskSends, CloseAsync, asyncVars
<1> QED BY <1>1, <1>2, <1>3, <1>4, <1>5 DEF AsyncNext, LoopRuns

(* invokeAsync() and uvAsyncCallback() implement the task queue. *)
THEOREM AsyncKeepsTaskQueue == AsyncSpec => KeepsTaskQueue
<1>1. AsyncInit => TQ!Init
  BY DEF AsyncInit, TQ!Init
<1> QED BY <1>1, AsyncStep, AsyncInvariance, PTL DEF AsyncSpec, KeepsTaskQueue, TQ!Spec

-----------------------------------------------------------------------------
(* UvPosixProcess.  The results are for a kernel that gives out no process *)
(* id twice: status() asks for a process by its id, long after its child   *)
(* was reaped, so that with ids used again it finds another child.         *)

(* No two processes watch the same child. *)
OneOwner == \A p, q \in Processes : m_pid[p] = m_pid[q] /\ m_pid[p] # NoPid => p = q

(* How a child ended is known exactly when it has; an id that is free and  *)
(* was never used belongs to no process.                                   *)
ChildFate ==
    \A i \in Pids :
        /\ child[i] \in {"running", "stopped"} => fate[i] = "none"
        /\ child[i] = "zombie" => fate[i] # "none"
        /\ child[i] = "free" /\ fate[i] = "none" => \A p \in Processes : m_pid[p] # i

(* The process inside spawn() has its child. *)
SpawningForked == \A p \in Processes : spawning = p => m_pid[p] # NoPid

(* What each status says of the child and of the reports made so far. *)
StatusExact ==
    \A p \in Processes :
        /\ m_pid[p] = forked[p]
        /\ m_status[p] = "NotStarted" => m_pid[p] = NoPid /\ closes[p] = 0
        /\ m_status[p] \in {"Started", "Running"} => m_pid[p] # NoPid /\ child[m_pid[p]] # "free"
        /\ m_status[p] \in {"Starting", "Started", "Running", "Unknown"} => closes[p] < spawns[p]
        /\ m_status[p] \in Ended =>
              /\ m_pid[p] # NoPid /\ child[m_pid[p]] = "free" /\ fate[m_pid[p]] # "none"
              /\ m_status[p] = StatusOf(fate[m_pid[p]])
              /\ closes[p] <= spawns[p]

ProcessInv == ProcessTypeOK /\ OneOwner /\ ChildFate /\ SpawningForked /\ StatusExact

(* Every fate has its status. *)
LEMMA StatusOfFate == \A f \in Fates : StatusOf(f) \in Ended
  BY DEF Fates, Ended, StatusOf

(* A process id is never the id for none. *)
LEMMA PidsDiffer == NoPid \notin Pids
  BY ProcessAssumption DEF NoPid

(* A process is not the marker for none. *)
LEMMA NoProcessDiffers == NoProcess \notin Processes
  BY ProcessAssumption

(* A set of natural numbers that is not empty has a first one. *)
LEMMA MinFirst ==
    ASSUME NEW S, S \subseteq Nat, S # {}
    PROVE  Min(S) \in S /\ \A y \in S : Min(S) <= y
<1> DEFINE R == OpToRel(<, Nat)
<1>1. PICK x \in S : \A y \in S : <<y, x>> \notin R
  <2> HIDE DEF R
  <2>1. IsWellFoundedOn(R, Nat)
    BY NatLessThanWellFounded DEF R
  <2> QED BY <2>1, WFMin
<1>2. \A y \in S : ~(y < x)
  BY <1>1 DEF OpToRel
<1>3. \A y \in S : x <= y
  BY <1>2
<1> QED BY <1>3 DEF Min

(* erase keeps a sequence of processes one. *)
LEMMA RemoveFirstType ==
    ASSUME NEW S, NEW q \in Seq(S), NEW e
    PROVE  RemoveFirst(q, e) \in Seq(S)
<1> DEFINE I == {i \in 1 .. Len(q) : q[i] = e}
<1>1. CASE I # {}
  <2>1. RemoveFirst(q, e) = RemoveAt(q, Min(I))
    BY <1>1 DEF RemoveFirst, SelectInSeq
  <2>2. I \subseteq 1 .. Len(q) /\ Len(q) \in Nat
    OBVIOUS
  <2> HIDE DEF I
  <2>3. Min(I) \in 1 .. Len(q)
    <3>1. I \subseteq Nat
      BY <2>2
    <3> QED BY <1>1, <2>2, <3>1, MinFirst
  <2>4. ASSUME NEW k \in 1 .. Len(q) PROVE RemoveAt(q, k) \in Seq(S)
    <3>1. SubSeq(q, 1, k - 1) \in Seq(S) /\ SubSeq(q, k + 1, Len(q)) \in Seq(S)
      BY <2>2, SubSeqProperties
    <3> QED BY <3>1 DEF RemoveAt
  <2> QED BY <2>1, <2>3, <2>4
<1>2. CASE I = {}
  BY <1>2 DEF RemoveFirst
<1> QED BY <1>1, <1>2

(* The invariant holds initially. *)
LEMMA ProcessInitInv == ProcessInit => ProcessInv
<1> SUFFICES ASSUME ProcessInit PROVE ProcessInv
  OBVIOUS
<1> USE DEF ProcessInit
<1>1. sigchld \in BOOLEAN /\ polled \in [Processes -> BOOLEAN]
  BY Zenon
<1>2. ProcessTypeOK
  BY <1>1, ProcessAssumption DEF ProcessTypeOK, Status
<1>3. OneOwner /\ ChildFate /\ SpawningForked /\ StatusExact
  BY PidsDiffer, NoProcessDiffers DEF OneOwner, ChildFate, SpawningForked, StatusExact, Ended
<1> QED BY <1>2, <1>3 DEF ProcessInv

(* What waitpid finds for a process that has an id: it reaps no child but  *)
(* its own, and an ended process stays as it is.                           *)
LEMMA StatusUpdated ==
    ASSUME ProcessInv, NEW p \in Processes, m_pid[p] # NoPid,
           UpdateStatus(p), UNCHANGED <<fate, m_pid>>
    PROVE  /\ child' \in [Pids -> {"free", "running", "stopped", "zombie"}]
           /\ m_status' \in [Processes -> Status]
           /\ ChildFate'
           /\ \A q \in Processes \ {p} :
                 /\ m_status'[q] = m_status[q]
                 /\ m_pid[q] # NoPid => child'[m_pid[q]] = child[m_pid[q]]
           /\ m_status[p] \in Ended => m_status'[p] = m_status[p] /\ child' = child
           /\ m_status'[p] \in Ended \cup {"Running", "Unknown"}
           /\ m_status'[p] = "Running" => child'[m_pid[p]] # "free"
           /\ m_status'[p] = "Unknown" => m_status[p] \notin {"Started", "Running"}
           /\ m_status'[p] \in Ended =>
                 /\ child'[m_pid[p]] = "free" /\ fate[m_pid[p]] # "none"
                 /\ m_status'[p] = StatusOf(fate[m_pid[p]])
<1> DEFINE i == m_pid[p]
<1> USE DEF ProcessInv
<1>1. /\ i \in Pids
      /\ child[i] \in {"free", "running", "stopped", "zombie"}
      /\ child[i] = "zombie" => fate[i] \in Fates
      /\ m_status[p] \in Status /\ m_status[p] # "NotStarted"
      /\ \A q \in Processes \ {p} : m_pid[q] # i
      /\ \A f \in Fates : StatusOf(f) \in Ended
  BY StatusOfFate DEF ProcessTypeOK, OneOwner, ChildFate, StatusExact
<1>2. \/ /\ child[i] = "free" /\ child' = child
         /\ m_status' = [m_status EXCEPT ![p] = IF @ \in {"Starting", "Started", "Running"}
                                               THEN "Unknown" ELSE @]
      \/ /\ child[i] \in {"running", "stopped"} /\ child' = child
         /\ m_status' = [m_status EXCEPT ![p] = "Running"]
      \/ /\ child[i] = "zombie" /\ child' = [child EXCEPT ![i] = "free"]
         /\ m_status' = [m_status EXCEPT ![p] = StatusOf(fate[i])]
  BY DEF UpdateStatus
<1>3. /\ child' \in [Pids -> {"free", "running", "stopped", "zombie"}]
      /\ m_status' \in [Processes -> Status]
  <2>1. /\ child \in [Pids -> {"free", "running", "stopped", "zombie"}]
        /\ m_status \in [Processes -> Status]
    BY DEF ProcessTypeOK
  <2>2. child' \in [Pids -> {"free", "running", "stopped", "zombie"}]
    BY ONLY <1>1, <1>2, <2>1
  <2>3. \E v \in Ended \cup {"Running", "Unknown"} : m_status' = [m_status EXCEPT ![p] = v]
    BY ONLY <1>1, <1>2, <2>1 DEF Status
  <2>4. Ended \cup {"Running", "Unknown"} \subseteq Status
    BY DEF Status
  <2> QED BY ONLY <2>1, <2>2, <2>3, <2>4
<1>4. ChildFate'
  BY <1>1, <1>2 DEF ProcessTypeOK, ChildFate
<1>5. \A q \in Processes \ {p} :
         /\ m_status'[q] = m_status[q]
         /\ m_pid[q] # NoPid => child'[m_pid[q]] = child[m_pid[q]]
  BY <1>1, <1>2 DEF ProcessTypeOK
<1>6. m_status[p] \in Ended => m_status'[p] = m_status[p] /\ child' = child
  BY <1>1, <1>2 DEF ProcessTypeOK, StatusExact, Ended
<1>7. /\ m_status'[p] \in Ended \cup {"Running", "Unknown"}
      /\ m_status'[p] = "Running" => child'[i] # "free"
      /\ m_status'[p] = "Unknown" => m_status[p] \notin {"Started", "Running"}
  BY <1>1, <1>2, ZenonT(40) DEF ProcessTypeOK, StatusExact, Ended, Status
<1>8. m_status'[p] \in Ended =>
         child'[i] = "free" /\ fate[i] # "none" /\ m_status'[p] = StatusOf(fate[i])
  BY <1>1, <1>2 DEF ProcessTypeOK, StatusExact, ChildFate, Ended
<1> QED BY <1>3, <1>4, <1>5, <1>6, <1>7, <1>8

(* A call of status() keeps what the statuses say, if it reports nothing   *)
(* or reports that a process watched until then has ended.                 *)
LEMMA StatusCall ==
    ASSUME ProcessInv, NEW p \in Processes, m_pid[p] # NoPid, UpdateStatus(p),
           UNCHANGED <<app, fate, sigchld, m_pid, onChild, destroyed, spawns, forked>>,
           \/ UNCHANGED closes
           \/ /\ m_status[p] \in {"Started", "Running"}
              /\ m_status'[p] \notin {"Started", "Running"}
              /\ closes' = [closes EXCEPT ![p] = @ + 1]
    PROVE  /\ child' \in [Pids -> {"free", "running", "stopped", "zombie"}]
           /\ m_status' \in [Processes -> Status]
           /\ closes' \in [Processes -> Nat]
           /\ OneOwner' /\ ChildFate' /\ StatusExact'
<1> DEFINE Facts(q) ==
             /\ m_status'[q] \in Status
             /\ m_status'[q] \in {"Started", "Running"} => m_pid[q] # NoPid /\ child'[m_pid[q]] # "free"
             /\ m_status'[q] = "NotStarted" => m_pid[q] = NoPid /\ closes'[q] = 0
             /\ m_status'[q] \in {"Starting", "Started", "Running", "Unknown"} => closes'[q] < spawns[q]
             /\ m_status'[q] \in Ended =>
                   /\ m_pid[q] # NoPid /\ child'[m_pid[q]] = "free" /\ fate[m_pid[q]] # "none"
                   /\ m_status'[q] = StatusOf(fate[m_pid[q]])
                   /\ closes'[q] <= spawns[q]
<1>1. UNCHANGED <<fate, m_pid>>
  OBVIOUS
<1>2. /\ child' \in [Pids -> {"free", "running", "stopped", "zombie"}]
      /\ m_status' \in [Processes -> Status]
      /\ ChildFate'
      /\ \A q \in Processes \ {p} :
            /\ m_status'[q] = m_status[q]
            /\ m_pid[q] # NoPid => child'[m_pid[q]] = child[m_pid[q]]
      /\ m_status[p] \in Ended => m_status'[p] = m_status[p] /\ child' = child
      /\ m_status'[p] \in Ended \cup {"Running", "Unknown"}
      /\ m_status'[p] = "Running" => child'[m_pid[p]] # "free"
      /\ m_status'[p] = "Unknown" => m_status[p] \notin {"Started", "Running"}
      /\ m_status'[p] \in Ended =>
            /\ child'[m_pid[p]] = "free" /\ fate[m_pid[p]] # "none"
            /\ m_status'[p] = StatusOf(fate[m_pid[p]])
  BY <1>1, StatusUpdated
<1>3. /\ closes \in [Processes -> Nat] /\ spawns \in [Processes -> Nat]
      /\ closes' \in [Processes -> Nat]
      /\ \A q \in Processes \ {p} : closes'[q] = closes[q]
      /\ \/ closes'[p] = closes[p]
         \/ closes'[p] = closes[p] + 1 /\ m_status[p] \in {"Started", "Running"} /\ m_status'[p] \in Ended
  <2>1. closes \in [Processes -> Nat] /\ spawns \in [Processes -> Nat]
    BY DEF ProcessInv, ProcessTypeOK
  <2>2. CASE UNCHANGED closes
    BY <2>1, <2>2
  <2>3. CASE /\ m_status[p] \in {"Started", "Running"}
             /\ m_status'[p] \notin {"Started", "Running"}
             /\ closes' = [closes EXCEPT ![p] = @ + 1]
    BY <1>2, <2>1, <2>3
  <2> QED BY <2>2, <2>3
<1>4. ASSUME NEW q \in Processes \ {p} PROVE Facts(q)
  BY <1>2, <1>3 DEF ProcessInv, StatusExact
<1>5. Facts(p)
  <2>1. m_status[p] \in Status /\ m_status[p] # "NotStarted"
    BY DEF ProcessInv, ProcessTypeOK, StatusExact
  <2>2. /\ m_status[p] \in {"Starting", "Started", "Running", "Unknown"} => closes[p] < spawns[p]
        /\ m_status[p] \in Ended => closes[p] <= spawns[p]
    BY DEF ProcessInv, StatusExact
  <2>3. closes[p] \in Nat /\ closes'[p] \in Nat /\ spawns[p] \in Nat
    BY <1>3
  <2>4. /\ m_status'[p] \in {"Starting", "Started", "Running", "Unknown"} => closes'[p] < spawns[p]
        /\ m_status'[p] \in Ended => closes'[p] <= spawns[p]
    BY <1>2, <1>3, <2>1, <2>2, <2>3 DEF Ended, Status
  <2> QED BY <1>2, <2>4 DEF Ended, Status
<1>6. \A q \in Processes : Facts(q)
  BY <1>4, <1>5
<1>7. StatusExact'
  BY <1>6 DEF ProcessInv, StatusExact
<1>8. OneOwner'
  BY DEF ProcessInv, OneOwner
<1> QED BY <1>2, <1>3, <1>7, <1>8

(* The invariant bounds the reports by the spawns. *)
LEMMA ClosesBounded ==
    ASSUME ProcessInv, NEW p \in Processes
    PROVE  closes[p] \in Nat /\ spawns[p] \in Nat /\ spawns[p] <= MaxSpawns /\ closes[p] <= spawns[p]
<1>1. closes[p] \in Nat /\ spawns[p] \in 0 .. MaxSpawns /\ m_status[p] \in Status
  BY DEF ProcessInv, ProcessTypeOK
<1>2. MaxSpawns \in Nat
  BY ProcessAssumption
<1>3. /\ m_status[p] = "NotStarted" => closes[p] = 0
      /\ m_status[p] \in {"Starting", "Started", "Running", "Unknown"} => closes[p] < spawns[p]
      /\ m_status[p] \in Ended => closes[p] <= spawns[p]
  BY DEF ProcessInv, StatusExact
<1> QED BY ONLY <1>1, <1>2, <1>3 DEF Status

(* Every step preserves the invariant, when no process id is used again. *)
LEMMA ProcessNextInv ==
    ASSUME PidReuse = FALSE
    PROVE  ProcessInv /\ [ProcessNext]_processVars => ProcessInv'
<1> SUFFICES ASSUME ProcessInv, [ProcessNext]_processVars PROVE ProcessInv'
  OBVIOUS
<1> USE PidsDiffer, NoProcessDiffers DEF ProcessInv
<1>1. ASSUME NEW i \in Pids, NEW f \in Fates, child[i] \in {"running", "stopped"},
             child' = [child EXCEPT ![i] = "zombie"], fate' = [fate EXCEPT ![i] = f], RaiseSigchld,
             Misses(IF Watching THEN {} ELSE {i}),
             UNCHANGED <<app, m_pid, m_status, onChild, callbackVars, spawning,
                         destroyed, spawns, forked, polled, closes>>
      PROVE  ProcessInv'
  <2>1. sigchld' \in BOOLEAN /\ missed' \subseteq Pids
    <3>1. Watching \in BOOLEAN
      BY DEF Watching
    <3>2. sigchld' \in BOOLEAN
      BY <1>1, <3>1, Zenon DEF RaiseSigchld
    <3> QED BY <1>1, <3>2 DEF Misses, ProcessTypeOK
  <2>2. ProcessTypeOK'
    BY <1>1, <2>1 DEF ProcessTypeOK, callbackVars
  <2>3. f # "none"
    BY DEF Fates
  <2>4. OneOwner' /\ ChildFate' /\ SpawningForked'
    BY <1>1, <2>3 DEF ProcessTypeOK, OneOwner, SpawningForked, ChildFate
  <2>5. StatusExact'
    BY <1>1 DEF ProcessTypeOK, StatusExact
  <2> QED BY <2>2, <2>4, <2>5
<1>2. ASSUME NEW i \in Pids, NEW f \in Fates, ChildEnds(i, f) PROVE ProcessInv'
  BY <1>1, <1>2 DEF ChildEnds
<1>3. ASSUME NEW p \in Processes, KillChild(p) PROVE ProcessInv'
  <2>1. m_pid[p] \in Pids /\ "killed" \in Fates
    BY <1>3 DEF KillChild, ProcessTypeOK, Fates
  <2> QED BY <1>1, <1>3, <2>1 DEF KillChild
<1>4. ASSUME NEW p \in Processes, StopChild(p) PROVE ProcessInv'
  <2>1. sigchld' \in BOOLEAN
    <3>1. Watching \in BOOLEAN
      BY DEF Watching
    <3> QED BY <1>4, <3>1, Zenon DEF StopChild, RaiseSigchld
  <2>2. m_pid[p] \in Pids
    BY <1>4 DEF StopChild, ProcessTypeOK
  <2>3. ProcessTypeOK'
    BY <1>4, <2>1, <2>2 DEF StopChild, ProcessTypeOK, callbackVars, processHistory
  <2>4. OneOwner' /\ ChildFate' /\ SpawningForked'
    BY <1>4, <2>2 DEF StopChild, ProcessTypeOK, OneOwner, SpawningForked, ChildFate
  <2>5. StatusExact'
    BY <1>4, <2>2 DEF StopChild, ProcessTypeOK, StatusExact, processHistory
  <2> QED BY <2>3, <2>4, <2>5
<1>5. ASSUME NEW p \in Processes, SpawnFails(p) PROVE ProcessInv'
  <2>1. /\ spawns' = [spawns EXCEPT ![p] = @ + 1] /\ spawns[p] < MaxSpawns
        /\ m_status' = [m_status EXCEPT ![p] = "Starting"]
        /\ onChild' = onChild \/ onChild' = Append(onChild, p)
        /\ UNCHANGED <<app, kernelVars, m_pid, callbackVars, spawning, destroyed, processHistory>>
    BY <1>5 DEF SpawnFails, SpawnBegins, Subscribes
  <2>2. spawns' \in [Processes -> 0 .. MaxSpawns]
    BY <2>1, ProcessAssumption DEF ProcessTypeOK
  <2>3. onChild' \in Seq(Processes)
    <3>1. onChild \in Seq(Processes) /\ Append(onChild, p) \in Seq(Processes)
      BY AppendProperties DEF ProcessTypeOK
    <3>2. onChild' = onChild \/ onChild' = Append(onChild, p)
      BY <2>1
    <3> QED BY ONLY <3>1, <3>2
  <2>4. ProcessTypeOK'
    BY <2>1, <2>2, <2>3 DEF ProcessTypeOK, Status, kernelVars, callbackVars, processHistory
  <2>5. OneOwner' /\ ChildFate' /\ SpawningForked'
    BY <2>1 DEF OneOwner, SpawningForked, ChildFate, kernelVars
  <2>6. closes[p] <= spawns[p]
    BY ClosesBounded
  <2>7. StatusExact'
    BY <2>1, <2>6, ProcessAssumption DEF ProcessTypeOK, StatusExact, Ended, kernelVars, processHistory
  <2> QED BY <2>4, <2>5, <2>7
<1>6. ASSUME NEW p \in Processes, NEW i \in Pids, SpawnForks(p, i) PROVE ProcessInv'
  <2>1. /\ spawns' = [spawns EXCEPT ![p] = @ + 1] /\ spawns[p] < MaxSpawns
        /\ onChild' = onChild \/ onChild' = Append(onChild, p)
        /\ child[i] = "free" /\ fate[i] = "none"
        /\ child' = [child EXCEPT ![i] = "running"] /\ fate' = [fate EXCEPT ![i] = "none"]
        /\ m_pid' = [m_pid EXCEPT ![p] = i] /\ m_status' = [m_status EXCEPT ![p] = "Started"]
        /\ spawning' = p /\ forked' = [forked EXCEPT ![p] = i]
        /\ polled' = [polled EXCEPT ![p] = FALSE]
        /\ missed' = missed \ {i}
        /\ UNCHANGED <<app, sigchld, callbackVars, destroyed, closes>>
    BY <1>6 DEF SpawnForks, SpawnBegins, Subscribes
  <2>2. polled' \in [Processes -> BOOLEAN]
    BY <2>1 DEF ProcessTypeOK
  <2>3. spawns' \in [Processes -> 0 .. MaxSpawns]
    BY <2>1, ProcessAssumption DEF ProcessTypeOK
  <2>4. onChild' \in Seq(Processes)
    <3>1. onChild \in Seq(Processes) /\ Append(onChild, p) \in Seq(Processes)
      BY AppendProperties DEF ProcessTypeOK
    <3>2. onChild' = onChild \/ onChild' = Append(onChild, p)
      BY <2>1
    <3> QED BY ONLY <3>1, <3>2
  <2>5. ProcessTypeOK'
    BY <2>1, <2>2, <2>3, <2>4 DEF ProcessTypeOK, Status, callbackVars
  <2>6. \A q \in Processes : m_pid[q] # i
    BY <2>1 DEF ChildFate
  <2>7. OneOwner' /\ ChildFate' /\ SpawningForked'
    BY <2>1, <2>6 DEF ProcessTypeOK, OneOwner, SpawningForked, ChildFate
  <2>8. closes[p] <= spawns[p]
    BY ClosesBounded
  <2>9. StatusExact'
    BY <2>1, <2>6, <2>8, ProcessAssumption DEF ProcessTypeOK, StatusExact, Ended
  <2> QED BY <2>5, <2>7, <2>9
<1>7. ASSUME NEW p \in Processes, CallStatus(p) PROVE ProcessInv'
  <2>1. /\ m_pid[p] # NoPid /\ UpdateStatus(p) /\ polled' = [polled EXCEPT ![p] = @ \/ child[m_pid[p]] = "zombie"]
        /\ UNCHANGED <<app, fate, sigchld, m_pid, onChild, callbackVars, spawning,
                       destroyed, spawns, forked, closes, missed>>
    BY <1>7 DEF CallStatus
  <2>2. polled' \in [Processes -> BOOLEAN]
    <3>1. polled \in [Processes -> BOOLEAN]
      BY DEF ProcessTypeOK
    <3>2. (polled[p] \/ child[m_pid[p]] = "zombie") \in BOOLEAN
      BY Zenon
    <3> QED BY ONLY <2>1, <3>1, <3>2, Zenon
  <2>3. /\ child' \in [Pids -> {"free", "running", "stopped", "zombie"}]
        /\ m_status' \in [Processes -> Status]
        /\ OneOwner' /\ ChildFate' /\ StatusExact'
    BY <2>1, StatusCall
  <2> QED BY <2>1, <2>2, <2>3 DEF ProcessTypeOK, callbackVars, SpawningForked
<1>8. ASSUME NEW p \in Processes, SpawnReturns(p) PROVE ProcessInv'
  <2>1. /\ UpdateStatus(p) /\ spawning' = NoProcess
        /\ UNCHANGED <<app, fate, sigchld, m_pid, onChild, callbackVars, destroyed,
                       spawns, forked, polled, closes, missed>>
    BY <1>8 DEF SpawnReturns, processHistory
  <2>2. m_pid[p] # NoPid
    BY <1>8 DEF SpawnReturns, SpawningForked
  <2>3. /\ child' \in [Pids -> {"free", "running", "stopped", "zombie"}]
        /\ m_status' \in [Processes -> Status]
        /\ OneOwner' /\ ChildFate' /\ StatusExact'
    BY <2>1, <2>2, StatusCall
  <2> QED BY <2>1, <2>3 DEF ProcessTypeOK, callbackVars, SpawningForked
<1>9. ASSUME DeliverSignal PROVE ProcessInv'
  <2>1. sigchld' \in BOOLEAN
    BY <1>9, Zenon DEF DeliverSignal
  <2> QED BY <1>9, <2>1 DEF DeliverSignal, processHistory, ProcessTypeOK, OneOwner, SpawningForked, ChildFate, StatusExact
<1>10. ASSUME NEW p \in Processes, HandleNothing(p) PROVE ProcessInv'
  <2>1. toCall' \in Seq(Processes)
    BY <1>10, HeadTailProperties DEF HandleNothing, NextObserver, ProcessTypeOK
  <2> QED BY <1>10, <2>1 DEF HandleNothing, kernelVars, processHistory, ProcessTypeOK, OneOwner, SpawningForked, ChildFate, StatusExact
<1>11. ASSUME NEW p \in Processes, HandleChildSignal(p) PROVE ProcessInv'
  <2>1. toCall' \in Seq(Processes)
    BY <1>11, HeadTailProperties DEF HandleChildSignal, NextObserver, ProcessTypeOK
  <2>2. /\ m_pid[p] # NoPid /\ m_status[p] \in {"Started", "Running"} /\ UpdateStatus(p)
        /\ UNCHANGED <<app, fate, sigchld, m_pid, onChild, spawning, destroyed,
                       spawns, forked, polled, missed>>
        /\ \/ UNCHANGED <<inClose, closes>>
           \/ /\ m_status'[p] \notin {"Started", "Running"}
              /\ inClose' = p
              /\ closes' = [closes EXCEPT ![p] = @ + 1]
    BY <1>11 DEF HandleChildSignal, Watched
  <2>3. /\ child' \in [Pids -> {"free", "running", "stopped", "zombie"}]
        /\ m_status' \in [Processes -> Status]
        /\ closes' \in [Processes -> Nat]
        /\ OneOwner' /\ ChildFate' /\ StatusExact'
    BY <2>2, StatusCall
  <2> QED BY <2>1, <2>2, <2>3 DEF ProcessTypeOK, SpawningForked
<1>12. ASSUME OnCloseReturns PROVE ProcessInv'
  BY <1>12 DEF OnCloseReturns, kernelVars, processHistory, ProcessTypeOK, OneOwner, SpawningForked, ChildFate, StatusExact
<1>13. ASSUME Instance \/ InitApplication \/ RunApplication \/ StopApplication PROVE ProcessInv'
  <2>1. /\ app' \in {"instance", "initialised", "running"}
        /\ sigchld' \in BOOLEAN /\ missed' \subseteq Pids
        /\ UNCHANGED <<child, fate, m_pid, m_status, onChild, callbackVars, spawning,
                       destroyed, spawns, forked, polled, closes>>
    BY <1>13, Zenon DEF Instance, InitApplication, RunApplication, StopApplication, ApplicationCall,
                        Misses, ProcessTypeOK
  <2> QED BY <2>1 DEF callbackVars, ProcessTypeOK, OneOwner, SpawningForked, ChildFate, StatusExact
<1>14. ASSUME NEW p \in Processes, Destroy(p) PROVE ProcessInv'
  <2>1. onChild' \in Seq(Processes)
    BY <1>14, RemoveFirstType DEF Destroy, ProcessTypeOK
  <2> QED BY <1>14, <2>1 DEF Destroy, kernelVars, callbackVars, processHistory, ProcessTypeOK, OneOwner, SpawningForked,
                ChildFate, StatusExact
<1>15. CASE UNCHANGED processVars
  BY <1>15 DEF processVars, kernelVars, callbackVars, processHistory, ProcessTypeOK, OneOwner, SpawningForked, ChildFate, StatusExact
<1> QED
  BY <1>2, <1>3, <1>4, <1>5, <1>6, <1>7, <1>8, <1>9, <1>10, <1>11, <1>12, <1>13, <1>14, <1>15
  DEF ProcessNext, UserCode, Callback

(* ProcessInv holds in every reachable state. *)
THEOREM ProcessInvariance ==
    ASSUME PidReuse = FALSE
    PROVE  ProcessSpec => []ProcessInv
  BY ProcessInitInv, ProcessNextInv, PTL DEF ProcessSpec

(* However many SIGCHLD callbacks look at a process, and however often its *)
(* object is used to spawn, onClose is raised at most once for each spawn. *)
THEOREM OnCloseOnceHolds ==
    ASSUME PidReuse = FALSE
    PROVE  ProcessSpec => []OnCloseOnce
<1>1. ProcessInv => OnCloseOnce
  BY ClosesBounded DEF OnCloseOnce
<1> QED BY <1>1, ProcessInvariance, PTL

(* A final status is how the process's own child ended, and onClose is     *)
(* raised only with such a status.                                         *)
THEOREM StatusTruthfulHolds ==
    ASSUME PidReuse = FALSE
    PROVE  ProcessSpec => []StatusTruthful
<1>1. ASSUME ProcessInv, NEW p \in Processes
      PROVE  /\ m_status[p] \in Ended => HasEnded(p) /\ m_status[p] = StatusOf(fate[forked[p]])
             /\ closes[p] > 0 /\ closes[p] = spawns[p] => m_status[p] \in Ended
  <2>1. closes[p] \in Nat /\ spawns[p] \in Nat /\ m_status[p] \in Status
    BY <1>1, ClosesBounded DEF ProcessInv, ProcessTypeOK
  <2>2. m_status[p] \in Ended => HasEnded(p) /\ m_status[p] = StatusOf(fate[forked[p]])
    BY <1>1 DEF ProcessInv, StatusExact, HasEnded
  <2>3. /\ m_status[p] = "NotStarted" => closes[p] = 0
        /\ m_status[p] \in {"Starting", "Started", "Running", "Unknown"} => closes[p] < spawns[p]
    BY <1>1 DEF ProcessInv, StatusExact
  <2>4. closes[p] > 0 /\ closes[p] = spawns[p] => m_status[p] \in Ended
    BY ONLY <2>1, <2>3 DEF Status
  <2> QED BY <2>2, <2>4
<1>2. ProcessInv => StatusTruthful
  BY <1>1 DEF StatusTruthful
<1> QED BY <1>2, ProcessInvariance, PTL
=============================================================================
