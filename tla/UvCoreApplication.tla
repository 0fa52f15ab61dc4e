------------------------- MODULE UvCoreApplication -------------------------
(***************************************************************************)
(* katla::UvCoreApplication with its UvEventLoop, its four                 *)
(* UvSignalHandlers, its async handle and the UvTimers the user creates:   *)
(* who owns which libuv handle, from init() to close() and init() again.   *)
(*                                                                         *)
(* One thread does everything: user code outside the loop, libuv inside    *)
(* run() and close(), and user code again in the callbacks libuv makes.    *)
(* libuv itself is external: a handle is closed in two steps, uv_close now *)
(* and its close callback at the end of an iteration, and a loop can be    *)
(* closed only when no handle is open.                                     *)
(*                                                                         *)
(* The calls libuv would abort on are left out: stop() or close() before a *)
(* first init(), createTimer() without a loop, and run() or close() from a *)
(* callback.  The calls of uv_..._init are taken to succeed.               *)
(***************************************************************************)
EXTENDS Naturals, Sequences

CONSTANTS Timers  \* UvTimer objects

(* In the order in which init() starts them. *)
SignalOrder == <<"Interrupt", "Terminate", "Hangup", "Child">>
Signals == {SignalOrder[i] : i \in 1 .. Len(SignalOrder)}
Async == "Async"
Wrappers == Signals \cup Timers
Handles == Wrappers \cup {Async}

ASSUME TimersAssumption == Timers \cap (Signals \cup {Async}) = {}

VARIABLES
    loopHandle,        \* m_eventLoop.m_handle: "null" or "open"
    stopFlag,    \* libuv: uv_stop() was called
    uv,          \* libuv: state of each handle
    m_handle,    \* whether m_handle of each wrapper is not null
    closedBy,    \* which close callback uv_close() was given
    where,       \* what the thread is doing
    inCallback,  \* libuv is inside a callback: user code runs
    found,       \* m_handlesToClose is not empty
    asked,       \* history: wrappers whose close() was called since their init()
    stopped      \* history: stop() was called during this run()

libuvVars == <<stopFlag, uv, closedBy>>
historyVars == <<asked, stopped>>
appVars == <<loopHandle, libuvVars, m_handle, where, inCallback, found, historyVars>>

Open == {"inactive", "active", "closing"}
Iterating == {"run", "first", "iterate"}

(***************************************************************************)
(* The single type invariant of the module; a wrapper points to a handle   *)
(* exactly while there is one, and callbacks are made inside uv_run only.  *)
(***************************************************************************)
AppTypeOK ==
    /\ loopHandle \in {"null", "open"}
    /\ stopFlag \in BOOLEAN
    /\ uv \in [Handles -> Open \cup {"none", "closed"}]
    /\ m_handle \in [Wrappers -> BOOLEAN]
    /\ closedBy \in [Handles -> {"nobody", "owner", "loop"}]
    /\ where \in Iterating \cup {"outside", "walk", "again", "final"}
    /\ inCallback \in BOOLEAN
    /\ found \in BOOLEAN
    /\ asked \subseteq Wrappers
    /\ stopped \in BOOLEAN
    /\ inCallback => where \in Iterating
    /\ \A w \in Wrappers : m_handle[w] <=> uv[w] # "none"

AppInit ==
    /\ loopHandle = "null"
    /\ stopFlag = FALSE
    /\ uv = [h \in Handles |-> "none"]
    /\ m_handle = [w \in Wrappers |-> FALSE]
    /\ closedBy = [h \in Handles |-> "nobody"]
    /\ where = "outside"
    /\ inCallback = FALSE
    /\ found = FALSE
    /\ asked = {}
    /\ stopped = FALSE

UserActs == where = "outside" \/ inCallback

(* uv_loop_alive: an active or a closing handle *)
LoopAlive(state) == \E h \in Handles : state[h] \in {"active", "closing"}

(* uv_is_closing is false: uv_close is called, with the given callback. *)
Closable(h) == uv[h] \in {"inactive", "active"}
Closed(hs) == [h \in Handles |-> IF h \in hs /\ Closable(h) THEN "closing" ELSE uv[h]]
ClosedBy(hs, who) ==
    [h \in Handles |-> IF h \in hs /\ Closable(h) THEN who ELSE closedBy[h]]

-----------------------------------------------------------------------------
(* UvEventLoop::init(): refused when there is a loop. *)
InitLoop ==
    /\ loopHandle = "null"
    /\ loopHandle' = "open"
    /\ stopFlag' = FALSE

(* UvSignalHandler::init() of the four handlers allocates their handles; a *)
(* handler that has one refuses.                                           *)
InitHandlers ==
    /\ \A s \in Signals : ~m_handle[s]
    /\ m_handle' = [w \in Wrappers |-> w \in Signals \/ m_handle[w]]
    /\ closedBy' = [h \in Handles |-> IF h \in Timers THEN closedBy[h] ELSE "nobody"]
    /\ asked' = asked \ Signals

(* UvSignalHandler::start(), with success for the first n handlers. *)
Started(n) == {SignalOrder[i] : i \in 1 .. n}

(* init(): the loop, the handlers, the async handle, then the starts; when *)
(* one fails init() returns an error and leaves the rest as it is.         *)
Initialize(n) ==
    /\ where = "outside"
    /\ InitLoop
    /\ InitHandlers
    /\ uv' = [h \in Handles |-> IF h \in Timers THEN uv[h]
                                ELSE IF h \in Started(n) \cup {Async} THEN "active"
                                ELSE "inactive"]
    /\ UNCHANGED <<where, inCallback, found, stopped>>

(* UvSignalHandler::stop() of the four handlers, and uv_close for the      *)
(* async handle unless it is closing                                       *)
StopHandlers ==
    /\ uv' = [h \in Handles |->
                IF h \in Signals /\ uv[h] = "active" THEN "inactive" ELSE Closed({Async})[h]]
    /\ closedBy' = ClosedBy({Async}, "owner")

(* UvEventLoop::stop() *)
StopLoop ==
    /\ loopHandle = "open"
    /\ stopFlag' = TRUE

(* Mutant of Stop: the signal handlers and the async handle are stopped,   *)
(* and the loop is left to end by itself.                                  *)
Stop_NoUvStop ==
    /\ UserActs
    /\ loopHandle = "open"
    /\ StopHandlers
    /\ stopped' = (stopped \/ where = "run")
    /\ UNCHANGED <<loopHandle, stopFlag, m_handle, where, inCallback, found, asked>>

(* stop(): the signal handlers are stopped, the async handle is closed and *)
(* the loop is told to stop.                                               *)
Stop ==
    /\ UserActs
    /\ StopHandlers
    /\ StopLoop
    /\ stopped' = (stopped \/ where = "run")
    /\ UNCHANGED <<loopHandle, m_handle, where, inCallback, found, asked>>

-----------------------------------------------------------------------------
(* UvTimer *)

(* UvTimer::init(): refused when there is a handle *)
InitTimer(t) ==
    /\ ~m_handle[t]
    /\ uv' = [uv EXCEPT ![t] = "inactive"]
    /\ m_handle' = [m_handle EXCEPT ![t] = TRUE]
    /\ closedBy' = [closedBy EXCEPT ![t] = "nobody"]
    /\ asked' = asked \ {t}

(* createTimer(), or init() of a timer that was closed *)
CreateTimer(t) ==
    /\ UserActs
    /\ loopHandle = "open"
    /\ InitTimer(t)
    /\ UNCHANGED <<loopHandle, stopFlag, where, inCallback, found, stopped>>

(* uv_timer_start refuses a handle that is closing. *)
StartTimer(t) ==
    /\ UserActs
    /\ m_handle[t]
    /\ Closable(t)
    /\ uv' = [uv EXCEPT ![t] = "active"]
    /\ UNCHANGED <<loopHandle, stopFlag, closedBy, m_handle, where, inCallback, found, historyVars>>

StopTimer(t) ==
    /\ UserActs
    /\ m_handle[t]
    /\ uv[t] = "active"
    /\ uv' = [uv EXCEPT ![t] = "inactive"]
    /\ UNCHANGED <<loopHandle, stopFlag, closedBy, m_handle, where, inCallback, found, historyVars>>

CloseTimer(t) ==
    /\ UserActs
    /\ m_handle[t]
    /\ Closable(t)
    /\ uv' = Closed({t})
    /\ closedBy' = ClosedBy({t}, "owner")
    /\ asked' = asked \cup {t}
    /\ UNCHANGED <<loopHandle, stopFlag, m_handle, where, inCallback, found, stopped>>

-----------------------------------------------------------------------------
(* run(): uv_run enters its loop if there is something to do and no stop   *)
(* is pending; leaving it, it forgets the stop.                            *)
Run ==
    /\ where = "outside"
    /\ loopHandle = "open"
    /\ IF LoopAlive(uv) /\ ~stopFlag
       THEN where' = "run" /\ UNCHANGED stopFlag
       ELSE stopFlag' = FALSE /\ UNCHANGED where
    /\ UNCHANGED <<loopHandle, uv, closedBy, m_handle, inCallback, found, historyVars>>

(* A signal, a timer or the async handle calls back into user code; a      *)
(* timer with a zero interval is inactive from then on.                    *)
CallBack(h) ==
    /\ where \in Iterating
    /\ ~inCallback
    /\ uv[h] = "active"
    /\ inCallback' = TRUE
    /\ \/ UNCHANGED uv
       \/ h \in Timers /\ uv' = [uv EXCEPT ![h] = "inactive"]
    /\ UNCHANGED <<loopHandle, stopFlag, closedBy, m_handle, where, found, historyVars>>

CallbackReturns ==
    /\ inCallback
    /\ inCallback' = FALSE
    /\ UNCHANGED <<loopHandle, libuvVars, m_handle, where, found, historyVars>>

(* The end of an iteration: the close callbacks.  The wrapper's own one    *)
(* deletes the handle and clears m_handle; onCloseHandleCallback of the    *)
(* loop only prints, and that of the async handle only asserts.            *)
Deletes(h) == uv[h] = "closing" /\ h \in Wrappers /\ closedBy[h] = "owner"

CloseCallbacks ==
    /\ uv' = [h \in Handles |-> IF Deletes(h) THEN "none"
                                ELSE IF uv[h] = "closing" THEN "closed" ELSE uv[h]]
    /\ m_handle' = [w \in Wrappers |-> m_handle[w] /\ ~Deletes(w)]

(* run() goes on while something is alive and nobody has stopped it; the   *)
(* iterations of close() end after one turn.                               *)
IterationEnds ==
    /\ where \in Iterating
    /\ ~inCallback
    /\ CloseCallbacks
    /\ \/ /\ where = "run" /\ LoopAlive(uv') /\ ~stopFlag
          /\ UNCHANGED <<where, stopFlag>>
       \/ /\ where = "run" /\ ~(LoopAlive(uv') /\ ~stopFlag)
          /\ where' = "outside" /\ stopFlag' = FALSE
       \/ where = "first" /\ where' = "walk" /\ stopFlag' = FALSE
       \/ where = "iterate" /\ where' = "again" /\ stopFlag' = FALSE
    /\ stopped' = (stopped /\ where' = "run")
    /\ UNCHANGED <<loopHandle, closedBy, inCallback, found, asked>>

-----------------------------------------------------------------------------
(* close(): the signal handlers and the async handle are closed, then a    *)
(* first iteration runs, unless a stop was pending, which it consumes.     *)
Close ==
    /\ where = "outside"
    /\ loopHandle = "open"
    /\ uv' = Closed(Signals \cup {Async})
    /\ closedBy' = ClosedBy(Signals \cup {Async}, "owner")
    /\ asked' = asked \cup Signals
    /\ where' = IF LoopAlive(uv') /\ ~stopFlag THEN "first" ELSE "walk"
    /\ stopFlag' = FALSE
    /\ UNCHANGED <<loopHandle, m_handle, inCallback, found, stopped>>

(* Mutant of Walk: m_handlesToClose is not cleared before it. *)
Walk_NoClear ==
    /\ found' = (found \/ \E h \in Handles : uv[h] \in Open)
    /\ uv' = Closed(Handles)
    /\ closedBy' = ClosedBy(Handles, "loop")

(* Mutant of Walk: uv_close is called for closing handles too, and the     *)
(* later callback counts.                                                  *)
Walk_ClosesAgain ==
    /\ found' = (\E h \in Handles : uv[h] \in Open)
    /\ uv' = Closed(Handles)
    /\ closedBy' = [h \in Handles |-> IF uv[h] \in Open THEN "loop" ELSE closedBy[h]]

(* uv_walk with closeOpenHandlesUvWalkCallback: every open handle is       *)
(* counted, and closed unless it is closing already.                       *)
Walk ==
    /\ found' = (\E h \in Handles : uv[h] \in Open)
    /\ uv' = Closed(Handles)
    /\ closedBy' = ClosedBy(Handles, "loop")

(* closeOpenHandles(): a first walk, *)
FirstWalk ==
    /\ where = "walk"
    /\ Walk
    /\ where' = "again"
    /\ UNCHANGED <<loopHandle, stopFlag, m_handle, inCallback, historyVars>>

(* then a walk and an iteration again until a walk finds nothing. *)
WalkAgain ==
    /\ where = "again"
    /\ found
    /\ Walk
    /\ where' = "iterate"
    /\ UNCHANGED <<loopHandle, stopFlag, m_handle, inCallback, historyVars>>

NothingFound ==
    /\ where = "again"
    /\ ~found
    /\ where' = "final"
    /\ UNCHANGED <<loopHandle, libuvVars, m_handle, inCallback, found, historyVars>>

(* UvEventLoop::close(): an error while something is alive or open, else   *)
(* the loop is deleted.                                                    *)
CanCloseLoop == \A h \in Handles : uv[h] \notin Open

CloseLoop ==
    /\ where = "final"
    /\ IF CanCloseLoop THEN loopHandle' = "null" ELSE UNCHANGED loopHandle
    /\ where' = "outside"
    /\ UNCHANGED <<libuvVars, m_handle, inCallback, found, historyVars>>

-----------------------------------------------------------------------------
Closing == FirstWalk \/ WalkAgain \/ NothingFound \/ CloseLoop

(* UvEventLoop *)
EventLoop == Run \/ IterationEnds \/ Closing

(* UvTimer *)
TimerMethods(t) == CreateTimer(t) \/ StartTimer(t) \/ StopTimer(t) \/ CloseTimer(t)

(* CoreApplication, but for run() and createTimer() *)
Application == (\E n \in 0 .. Len(SignalOrder) : Initialize(n)) \/ Stop \/ Close

AppNext ==
    \/ Application
    \/ \E t \in Timers : TimerMethods(t)
    \/ EventLoop
    \/ \E h \in Handles : CallBack(h)
    \/ CallbackReturns

(***************************************************************************)
(* Fairness: callbacks return, close() goes on, and an iteration ends.     *)
(* The last is strong: in one iteration libuv makes the callbacks that are *)
(* due when it begins, so that callbacks do not keep it from ending.       *)
(***************************************************************************)
AppFairness ==
    /\ WF_appVars(CallbackReturns)
    /\ WF_appVars(Closing)
    /\ SF_appVars(IterationEnds)

AppSpec == AppInit /\ [][AppNext]_appVars /\ AppFairness

-----------------------------------------------------------------------------
(* close() finds every handle closed when it closes the loop, whatever was *)
(* open before and whatever the callbacks of its first iteration did: it   *)
(* never fails because the loop is busy.                                   *)
CloseNeverBusy == where = "final" => CanCloseLoop

(* A wrapper whose close() was called, by the user or by the application,  *)
(* has given up its handle when the loop is gone, so that the assert of    *)
(* its destructor holds and init() works again.                            *)
ClosedAreReleased == loopHandle = "null" => \A w \in asked : ~m_handle[w]

(* close() leaves nothing behind: neither an open handle nor a wrapper that *)
(* keeps a handle it gave up.                                               *)
CloseComplete == CloseNeverBusy /\ ClosedAreReleased

(* A stop() called while run() runs makes it return, also with timers      *)
(* running on, "so we can call the close() method outside the eventloop".  *)
StopEndsRun == stopped ~> (where = "outside")

(* close() returns. *)
CloseReturns == (where = "walk") ~> (where = "outside")

(* "assert(!m_handle); // should be destroyed before destruction because   *)
(* it needs event-loop": once the application is closed, with every handle *)
(* of the loop closed, a timer can be destroyed.                           *)
TimersReleased == loopHandle = "null" => \A t \in Timers : ~m_handle[t]
=============================================================================
