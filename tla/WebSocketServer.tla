-------------------------- MODULE WebSocketServer --------------------------
(***************************************************************************)
(* katla::WebSocketServerLws: a libwebsockets context that is served by    *)
(* the work() of a WorkerThread.  One thread, Owner, owns the server and   *)
(* calls its methods.  Nothing protects d, d->context or the vectors of    *)
(* handlers: every access that changes them is an action of its own, and   *)
(* what lws_service does with a context that is gone is not defined.       *)
(***************************************************************************)
EXTENDS WorkerThread

CONSTANTS
    MaxContexts,  \* bound: how many contexts are created in a behaviour
    MaxHandlers   \* bound: how many handlers are registered

ASSUME ServerAssumption == {MaxContexts, MaxHandlers} \subseteq Nat /\ 0 \in Intervals

Contexts == 1 .. MaxContexts

VARIABLES
    at,          \* where the owner is inside a method of the server
    ending,      \* the owner is inside the destructor
    context,     \* d->context, or Null
    created,     \* number of contexts created
    live,        \* the contexts that are not destroyed
    handlers,    \* entries in d->httpHandlers and d->webSocketHandlers
    serve,       \* where each thread is inside work()
    serves,      \* the context each thread gave to lws_service
    overwritten, \* history: contexts whose pointer init() has overwritten
    destroys     \* history: how often each context was destroyed

serverVars == <<at, ending, context, created, live, handlers, serve, serves,
                overwritten, destroys>>
everything == <<vars, serverVars>>

ServerInit ==
    /\ Init
    /\ at = "idle"
    /\ ending = FALSE
    /\ context = Null
    /\ created = 0
    /\ live = {}
    /\ handlers = 0
    /\ serve = [g \in Threads |-> "begin"]
    /\ serves = [g \in Threads |-> Null]
    /\ overwritten = {}
    /\ destroys = [x \in Contexts |-> 0]

(* The owner is in no method of the server, nor of the worker. *)
Idle == at = "idle" /\ pc[Owner] = "idle"

(* lws_context_destroy(d->context) *)
Destroys ==
    /\ live' = live \ {context}
    /\ destroys' = [x \in Contexts |->
                      IF x = context THEN destroys[x] + 1 ELSE destroys[x]]

-----------------------------------------------------------------------------
(* The methods of the server *)

(* init() overwrites d->context with what lws_create_context returns. *)
CreateContext ==
    /\ Idle
    /\ created < MaxContexts
    /\ m_thread # Null \/ launched < MaxInits
    /\ overwritten' = overwritten \cup ({context} \ {Null})
    /\ \/ /\ created' = created + 1
          /\ context' = created'
          /\ live' = live \cup {created'}
          /\ at' = "start"
       \/ /\ context' = Null
          /\ UNCHANGED <<created, live, at>>
    /\ UNCHANGED <<vars, ending, handlers, serve, serves, destroys>>

(* It starts the worker with an interval of 0 ms; a failure is printed. *)
StartWorker ==
    /\ at = "start"
    /\ InitInterval(Owner, 0)
    /\ at' = "idle"
    /\ UNCHANGED <<ending, context, created, live, handlers, serve, serves, overwritten, destroys>>

(* handle() and handleWebSocket() push to vectors that lws_service reads. *)
Register ==
    /\ Idle
    /\ handlers < MaxHandlers
    /\ handlers' = handlers + 1
    /\ UNCHANGED <<vars, at, ending, context, created, live, serve, serves, overwritten, destroys>>

(* Mutant of StopServer: the worker is not stopped. *)
StopServer_OnlyContext ==
    /\ Idle
    /\ at' = "stop"
    /\ ending' \in BOOLEAN
    /\ UNCHANGED <<vars, context, created, live, handlers, serve, serves, overwritten, destroys>>

(* stop(), and the destructor, which begins with it: the worker is told. *)
StopServer ==
    /\ Idle
    /\ Stop(Owner)
    /\ at' = "stop"
    /\ ending' \in BOOLEAN
    /\ UNCHANGED <<context, created, live, handlers, serve, serves, overwritten, destroys>>

(* The rest of the destructor, or the return of stop(). *)
AfterStop == IF ending THEN "delete" ELSE "idle"

(* wakeup() ends a poll of lws_service; stop() goes on if there is a       *)
(* context.                                                                *)
CancelService ==
    /\ at = "stop"
    /\ pc[Owner] = "idle"
    /\ at' = IF context # Null THEN "destroy" ELSE AfterStop
    /\ UNCHANGED <<vars, ending, context, created, live, handlers, serve, serves, overwritten, destroys>>

DestroyContext ==
    /\ at = "destroy"
    /\ Destroys
    /\ at' = "forget"
    /\ UNCHANGED <<vars, ending, context, created, handlers, serve, serves, overwritten>>

ForgetContext ==
    /\ at = "forget"
    /\ context' = Null
    /\ at' = AfterStop
    /\ UNCHANGED <<vars, ending, created, live, handlers, serve, serves, overwritten, destroys>>

(* The destructor destroys a context that is left and deletes d ... *)
Delete ==
    /\ at = "delete"
    /\ IF context # Null THEN Destroys ELSE UNCHANGED <<live, destroys>>
    /\ at' = "deleted"
    /\ UNCHANGED <<vars, ending, context, created, handlers, serve, serves, overwritten>>

(* ... and only then the destructor of m_workerThread joins the thread. *)
Destroyed ==
    /\ at = "deleted"
    /\ pc[Owner] = "idle"
    /\ \/ JoinBegin(Owner) /\ UNCHANGED at
       \/ m_thread = Null /\ at' = "gone" /\ UNCHANGED vars
    /\ UNCHANGED <<ending, context, created, live, handlers, serve, serves, overwritten, destroys>>

JoinServer == Idle /\ JoinBegin(Owner) /\ UNCHANGED serverVars

-----------------------------------------------------------------------------
(* work(), run by the worker *)

(* The maps of clients are scanned for data to send. *)
Scan(g) ==
    /\ exec[g] = "work"
    /\ serve[g] = "begin"
    /\ serve' = [serve EXCEPT ![g] = "scanned"]
    /\ UNCHANGED <<vars, at, ending, context, created, live, handlers, serves, overwritten, destroys>>

(* lws_service(d->context, 100) is entered with the pointer as it is now. *)
EnterService(g) ==
    /\ serve[g] = "scanned"
    /\ serve' = [serve EXCEPT ![g] = "service"]
    /\ serves' = [serves EXCEPT ![g] = context]
    /\ UNCHANGED <<vars, at, ending, context, created, live, handlers, overwritten, destroys>>

(* It returns after an event, a cancel or 100 ms. *)
LeaveService(g) ==
    /\ serve[g] = "service"
    /\ serve' = [serve EXCEPT ![g] = "end"]
    /\ serves' = [serves EXCEPT ![g] = Null]
    /\ UNCHANGED <<vars, at, ending, context, created, live, handlers, overwritten, destroys>>

WorkReturns(g) ==
    /\ serve[g] = "end"
    /\ \E e \in Elapsed : FinishWork(g, e)
    /\ serve' = [serve EXCEPT ![g] = "begin"]
    /\ UNCHANGED <<at, ending, context, created, live, handlers, serves, overwritten, destroys>>

-----------------------------------------------------------------------------
Methods ==
    \/ CreateContext \/ StartWorker \/ Register
    \/ StopServer \/ CancelService \/ DestroyContext \/ ForgetContext
    \/ Delete \/ Destroyed \/ JoinServer

Work(g) == Scan(g) \/ EnterService(g) \/ LeaveService(g) \/ WorkReturns(g)

(* When the server is gone the program goes on without it. *)
Gone == at = "gone" /\ UNCHANGED everything

ServerNext ==
    \/ Methods
    \/ Continue(Owner) /\ UNCHANGED serverVars
    \/ \E g \in Threads :
          \/ Work(g)
          \/ Loop(g) /\ UNCHANGED serverVars
          \/ SpuriousWakeup(g) /\ UNCHANGED serverVars
          \/ Timeout(g) /\ UNCHANGED serverVars
    \/ Gone

ServerSpec == ServerInit /\ [][ServerNext]_everything

-----------------------------------------------------------------------------
(* The service thread uses a destroyed context or the deleted d only after *)
(* stop() was called: nothing else, neither a second init() nor a join()   *)
(* and restart, takes a context away from it.  It uses no context at all   *)
(* only after a stop() or an init() on a server that had a context.        *)
ServesLive ==
    \A g \in Threads :
        /\ serve[g] = "service" /\ serves[g] # Null => serves[g] \in live \/ m_stop
        /\ serve[g] = "service" /\ serves[g] = Null => m_stop \/ overwritten # {}
        /\ at \in {"deleted", "gone"} /\ Alive(g) => m_stop

(* Every context is destroyed once: stop(), its repetition and the         *)
(* destructor never destroy one twice.  Those that are not destroyed are   *)
(* the one of d->context and those over which an init() without stop() has *)
(* written another one, which are never destroyed.                         *)
ContextsOwned ==
    /\ \A x \in Contexts : destroys[x] <= 1
    /\ context \notin overwritten
    /\ live = overwritten \cup
          (IF at \in {"forget", "deleted", "gone"} THEN {} ELSE {context} \ {Null})
    /\ at = "gone" => \A g \in Threads : ~Alive(g)
=============================================================================
