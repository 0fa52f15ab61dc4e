--------------------------- MODULE UvInvokeAsync ---------------------------
(***************************************************************************)
(* UvCoreApplication::invokeAsync() and uvAsyncCallback(): any thread      *)
(* hands a function to the thread of the event loop.                       *)
(*                                                                         *)
(* m_futureMutex covers the push and each pop.  The wakeup is              *)
(* uv_async_send, which libuv does not queue: the sends made before the    *)
(* loop gets to its callback arrive as one.                                *)
(***************************************************************************)
EXTENDS Naturals, Sequences

CONSTANTS
    Posters,   \* the threads, other than the loop's, that call invokeAsync()
    Tasks,     \* the functions; each has a target
    MaxPosts   \* bound: calls of invokeAsync() in a behaviour

ASSUME AsyncAssumption == "none" \notin Tasks

VARIABLES
    m_tasks,
    sent,       \* libuv: a send that has not reached the callback yet
    closing,    \* uv_close() was called for m_asyncHandle, by stop() or close()
    posting,    \* posters between the push and uv_async_send
    loop,       \* where the thread of the event loop is
    submitted,  \* history: the functions pushed, in order
    executed    \* history: the functions popped, in order

asyncVars == <<m_tasks, sent, closing, posting, loop, submitted, executed>>

(* Waiting for events; in uvAsyncCallback at the head of its loop; inside  *)
(* a function; inside a function that is inside invokeAsync().             *)
LoopStates == {"poll", "drain", "run", "pushed"}

(***************************************************************************)
(* The single type invariant of the module.                                *)
(***************************************************************************)
AsyncTypeOK ==
    /\ m_tasks \in Seq(Tasks)
    /\ sent \in BOOLEAN
    /\ closing \in BOOLEAN
    /\ posting \subseteq Posters
    /\ loop \in LoopStates
    /\ submitted \in Seq(Tasks)
    /\ executed \in Seq(Tasks)

(* After init(), which initializes m_asyncHandle. *)
AsyncInit ==
    /\ m_tasks = <<>>
    /\ sent = FALSE
    /\ closing = FALSE
    /\ posting = {}
    /\ loop = "poll"
    /\ submitted = <<>>
    /\ executed = <<>>

-----------------------------------------------------------------------------
(* invokeAsync() *)

Push(t) ==
    /\ Len(submitted) < MaxPosts
    /\ m_tasks' = Append(m_tasks, t)
    /\ submitted' = Append(submitted, t)

Post(u, t) ==
    /\ u \notin posting
    /\ Push(t)
    /\ posting' = posting \cup {u}
    /\ UNCHANGED <<sent, closing, loop, executed>>

(* Mutant of Send: only the push to an empty queue sends. *)
Send_Sparse == sent' = (sent \/ Len(m_tasks) = 1)

(* uv_async_send *)
Send == sent' = TRUE

PostSends(u) ==
    /\ u \in posting
    /\ Send
    /\ posting' = posting \ {u}
    /\ UNCHANGED <<m_tasks, closing, loop, submitted, executed>>

-----------------------------------------------------------------------------
(* The thread of the event loop *)

(* libuv takes the send and calls uvAsyncCallback; a handle that is        *)
(* closing gets no callback.                                               *)
CallbackBegins ==
    /\ loop = "poll"
    /\ sent
    /\ ~closing
    /\ sent' = FALSE
    /\ loop' = "drain"
    /\ UNCHANGED <<m_tasks, closing, posting, submitted, executed>>

(* Mutant of PopFront: the function is taken from the back. *)
PopFront_Back ==
    /\ loop = "drain"
    /\ m_tasks # <<>>
    /\ executed' = Append(executed, m_tasks[Len(m_tasks)])
    /\ m_tasks' = SubSeq(m_tasks, 1, Len(m_tasks) - 1)
    /\ loop' = "run"
    /\ UNCHANGED <<sent, closing, posting, submitted>>

PopFront ==
    /\ loop = "drain"
    /\ m_tasks # <<>>
    /\ executed' = Append(executed, Head(m_tasks))
    /\ m_tasks' = Tail(m_tasks)
    /\ loop' = "run"
    /\ UNCHANGED <<sent, closing, posting, submitted>>

CallbackEnds ==
    /\ loop = "drain"
    /\ m_tasks = <<>>
    /\ loop' = "poll"
    /\ UNCHANGED <<m_tasks, sent, closing, posting, submitted, executed>>

(* Mutant of TaskReturns: one function in each callback. *)
TaskReturns_Single ==
    /\ loop = "run"
    /\ loop' = "poll"
    /\ UNCHANGED <<m_tasks, sent, closing, posting, submitted, executed>>

TaskReturns ==
    /\ loop = "run"
    /\ loop' = "drain"
    /\ UNCHANGED <<m_tasks, sent, closing, posting, submitted, executed>>

(* A running function may call invokeAsync() itself: no mutex is held. *)
TaskPosts(t) ==
    /\ loop = "run"
    /\ Push(t)
    /\ loop' = "pushed"
    /\ UNCHANGED <<sent, closing, posting, executed>>

TaskSends ==
    /\ loop = "pushed"
    /\ Send
    /\ loop' = "run"
    /\ UNCHANGED <<m_tasks, closing, posting, submitted, executed>>

(* stop() or close(), in another callback of the loop or in a function.    *)
(* The callback in progress still empties the queue.                       *)
CloseAsync ==
    /\ loop \in {"poll", "run"}
    /\ ~closing
    /\ closing' = TRUE
    /\ UNCHANGED <<m_tasks, sent, posting, loop, submitted, executed>>

LoopRuns ==
    \/ CallbackBegins \/ PopFront \/ CallbackEnds
    \/ TaskReturns \/ TaskSends

AsyncNext ==
    \/ \E u \in Posters : PostSends(u) \/ \E t \in Tasks : Post(u, t)
    \/ LoopRuns
    \/ \E t \in Tasks : TaskPosts(t)
    \/ CloseAsync

(* A thread inside invokeAsync() sends; the loop runs; functions return. *)
AsyncFairness ==
    /\ \A u \in Posters : WF_asyncVars(PostSends(u))
    /\ WF_asyncVars(LoopRuns)

AsyncSpec == AsyncInit /\ [][AsyncNext]_asyncVars /\ AsyncFairness

-----------------------------------------------------------------------------
(* A function in the queue has a wakeup on its way, a send to come or a    *)
(* callback that will reach it: a send that is merged with an earlier one  *)
(* strands nothing, since the callback empties the queue.                  *)
NoStranded ==
    m_tasks # <<>> => sent \/ posting # {} \/ loop # "poll"

(* invokeAsync() keeps the promise of a task queue: in order, once, one at *)
(* a time.                                                                 *)
TQ == INSTANCE TaskQueue WITH Empty <- "none", busy <- loop \in {"run", "pushed"}
KeepsTaskQueue == TQ!Spec

(* The n-th function posted is run, unless the application is stopped. *)
PostedRuns ==
    \A n \in 1 .. MaxPosts :
        (Len(submitted) >= n) ~> (Len(executed) >= n \/ closing)
=============================================================================
