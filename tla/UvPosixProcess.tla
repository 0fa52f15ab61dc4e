--------------------------- MODULE UvPosixProcess ---------------------------
(***************************************************************************)
(* katla::UvPosixProcess: child processes of a program that runs one       *)
(* event loop, and of UvCoreApplication what decides whether a SIGCHLD     *)
(* reaches them: instance(), init(), run(), stop() and close().            *)
(*                                                                         *)
(* The program has one thread: it runs user code, or UvCoreApplication's   *)
(* SIGCHLD callback, which calls the handler of every process object       *)
(* subscribed when it began.  The children are the other actors: they end  *)
(* at any moment, also between two statements of spawn().  SIGCHLD is not  *)
(* queued: the signals of several children may arrive as one.              *)
(*                                                                         *)
(* User code runs outside the callback or inside an onClose callback of    *)
(* it.  A process object is destroyed outside the callback only.           *)
(***************************************************************************)
EXTENDS Integers, SequencesExt

CONSTANTS
    Processes,  \* objects of class UvPosixProcess
    Pids,       \* process ids the kernel gives to children
    PidReuse,   \* whether it gives out an id again after the child is reaped
    MaxSpawns   \* bound: calls of spawn() of one object

NoProcess == "no process"
NoPid == 0

ASSUME ProcessAssumption ==
    /\ NoProcess \notin Processes
    /\ Pids \subseteq Nat \ {NoPid}
    /\ PidReuse \in BOOLEAN
    /\ MaxSpawns \in Nat

VARIABLES
    app,          \* UvCoreApplication: "none", "instance", "initialised"
                  \* or "running"
    child,        \* kernel: state of the child with each id
    fate,         \* kernel: how the last child with each id ended
    sigchld,      \* SIGCHLD is pending
    m_pid, m_status,
    onChild,      \* observers of UvCoreApplication's m_onChildSubject
    toCall,       \* the observers the SIGCHLD callback has still to call
    inClose,      \* the process whose onClose observers are being called
    spawning,     \* the process inside spawn(), after fork()
    destroyed,    \* processes whose destructor has run
    spawns,       \* how often spawn() was called
    forked,       \* history: the child of each process, by id
    polled,       \* history: user code's call of status() found the end
    missed,       \* history: children whose SIGCHLD nobody was to be told of
    closes        \* history: how often onClose was raised

kernelVars == <<child, fate, sigchld>>
callbackVars == <<toCall, inClose>>
processHistory == <<forked, polled, closes, missed>>
processVars == <<app, kernelVars, m_pid, m_status, onChild, callbackVars,
                 spawning, destroyed, spawns, processHistory>>

Fates == {"exited", "signalled", "segv", "killed"}
Ended == {"Exitted", "Signalled", "Crashed", "Killed"}
Status == Ended \cup {"Unknown", "NotStarted", "Starting", "Started", "Running"}

(***************************************************************************)
(* The single type invariant of the module.                                *)
(***************************************************************************)
ProcessTypeOK ==
    /\ app \in {"none", "instance", "initialised", "running"}
    /\ child \in [Pids -> {"free", "running", "stopped", "zombie"}]
    /\ fate \in [Pids -> Fates \cup {"none"}]
    /\ sigchld \in BOOLEAN
    /\ m_pid \in [Processes -> Pids \cup {NoPid}]
    /\ m_status \in [Processes -> Status]
    /\ onChild \in Seq(Processes)
    /\ toCall \in Seq(Processes)
    /\ inClose \in Processes \cup {NoProcess}
    /\ spawning \in Processes \cup {NoProcess}
    /\ destroyed \subseteq Processes
    /\ spawns \in [Processes -> 0 .. MaxSpawns]
    /\ forked \in [Processes -> Pids \cup {NoPid}]
    /\ polled \in [Processes -> BOOLEAN]
    /\ closes \in [Processes -> Nat]
    /\ missed \subseteq Pids

ProcessInit ==
    /\ app = "none"
    /\ child = [i \in Pids |-> "free"]
    /\ fate = [i \in Pids |-> "none"]
    /\ sigchld = FALSE
    /\ m_pid = [p \in Processes |-> NoPid]
    /\ m_status = [p \in Processes |-> "NotStarted"]
    /\ onChild = <<>>
    /\ toCall = <<>>
    /\ inClose = NoProcess
    /\ spawning = NoProcess
    /\ destroyed = {}
    /\ spawns = [p \in Processes |-> 0]
    /\ forked = [p \in Processes |-> NoPid]
    /\ polled = [p \in Processes |-> FALSE]
    /\ closes = [p \in Processes |-> 0]
    /\ missed = {}

InCallback == toCall # <<>> \/ inClose # NoProcess
UserCalls == spawning = NoProcess /\ (InCallback => inClose # NoProcess)

-----------------------------------------------------------------------------
(* The children, from outside the program. *)

HasInstance == app # "none"

(* m_childSignalHandler is started: libuv catches SIGCHLD, and keeps it    *)
(* until the loop runs.  Otherwise the signal has no effect.               *)
Watching == app \in {"initialised", "running"}

RaiseSigchld == sigchld' = Watching

(* Nobody is to be told of the children that ended. *)
Misses(pids) == missed' = missed \cup pids

ChildEnds(i, f) ==
    /\ child[i] = "running"
    /\ child' = [child EXCEPT ![i] = "zombie"]
    /\ fate' = [fate EXCEPT ![i] = f]
    /\ RaiseSigchld
    /\ Misses(IF Watching THEN {} ELSE {i})
    /\ UNCHANGED <<app, m_pid, m_status, onChild, callbackVars, spawning,
                   destroyed, spawns, forked, polled, closes>>

-----------------------------------------------------------------------------
(* status() *)

(* WIFEXITED, WIFSIGNALED, WTERMSIG *)
StatusOf(f) ==
    CASE f = "exited" -> "Exitted"
      [] f = "signalled" -> "Signalled"
      [] f = "segv" -> "Crashed"
      [] f = "killed" -> "Killed"

(* Mutant of UpdateStatus: the result 0 of waitpid is not looked at, so    *)
(* that the zero wait status reads as an exit.                             *)
UpdateStatus_ZeroIsExit(p) ==
    LET i == m_pid[p]
    IN  \/ /\ child[i] = "free"
           /\ m_status' = [m_status EXCEPT ![p] = IF @ \in Ended THEN @ ELSE "Unknown"]
           /\ UNCHANGED child
        \/ /\ child[i] \in {"running", "stopped"}
           /\ m_status' = [m_status EXCEPT ![p] = "Exitted"]
           /\ UNCHANGED child
        \/ /\ child[i] = "zombie"
           /\ m_status' = [m_status EXCEPT ![p] = StatusOf(fate[i])]
           /\ child' = [child EXCEPT ![i] = "free"]

(* waitpid(m_pid, WNOHANG) with its three outcomes: no such child (ECHILD, *)
(* which keeps the status of a process known to have ended, or Unknown),   *)
(* the child has not ended (0), or it has and is reaped.  Other errors     *)
(* need an interrupted or an invalid call, which WNOHANG excludes.         *)
UpdateStatus(p) ==
    LET i == m_pid[p]
    IN  \/ /\ child[i] = "free"
           /\ m_status' = [m_status EXCEPT ![p] =
                              IF @ \in {"Starting", "Started", "Running"}
                              THEN "Unknown" ELSE @]
           /\ UNCHANGED child
        \/ /\ child[i] \in {"running", "stopped"}
           /\ m_status' = [m_status EXCEPT ![p] = "Running"]
           /\ UNCHANGED child
        \/ /\ child[i] = "zombie"
           /\ m_status' = [m_status EXCEPT ![p] = StatusOf(fate[i])]
           /\ child' = [child EXCEPT ![i] = "free"]

(* status() called by user code; without a pid it only returns an error. *)
CallStatus(p) ==
    /\ UserCalls
    /\ p \notin destroyed
    /\ m_pid[p] # NoPid
    /\ UpdateStatus(p)
    /\ polled' = [polled EXCEPT ![p] = @ \/ child[m_pid[p]] = "zombie"]
    /\ UNCHANGED <<app, fate, sigchld, m_pid, onChild, callbackVars, spawning,
                   destroyed, spawns, forked, closes, missed>>

-----------------------------------------------------------------------------
(* The application.  Processes may be spawned in each of its states.       *)

ApplicationCall(from, to) ==
    /\ UserCalls
    /\ app \in from
    /\ app' = to
    /\ UNCHANGED <<child, fate, m_pid, m_status, onChild, callbackVars, spawning,
                   destroyed, spawns, forked, polled, closes>>

(* instance(): the first call publishes the application. *)
Instance == ApplicationCall({"none"}, "instance") /\ UNCHANGED <<sigchld, missed>>

(* init() starts m_childSignalHandler. *)
InitApplication ==
    /\ ~InCallback
    /\ ApplicationCall({"instance"}, "initialised")
    /\ UNCHANGED <<sigchld, missed>>

RunApplication ==
    /\ ~InCallback
    /\ ApplicationCall({"initialised"}, "running")
    /\ UNCHANGED <<sigchld, missed>>

(* stop(), or close() without it, stops m_childSignalHandler: a signal     *)
(* that libuv has caught and not delivered is dropped with it.             *)
StopApplication ==
    /\ ApplicationCall({"initialised", "running"}, "instance")
    /\ sigchld' = FALSE
    /\ Misses(IF sigchld THEN {i \in Pids : child[i] = "zombie"} ELSE {})

-----------------------------------------------------------------------------
(* spawn() *)

(* handleChildSignal is subscribed to the application's child signal. *)
Subscribes(p) == onChild' = IF HasInstance THEN Append(onChild, p) ELSE onChild

SpawnBegins(p) ==
    /\ UserCalls
    /\ p \notin destroyed
    /\ spawns[p] < MaxSpawns
    /\ spawns' = [spawns EXCEPT ![p] = @ + 1]
    /\ Subscribes(p)

(* The pipe cannot be opened, or fork() fails: an error is returned. *)
SpawnFails(p) ==
    /\ SpawnBegins(p)
    /\ m_status' = [m_status EXCEPT ![p] = "Starting"]
    /\ UNCHANGED <<app, kernelVars, m_pid, callbackVars, spawning, destroyed,
                   processHistory>>

(* fork() succeeds.  In the child a failing redirect, chdir or execv ends  *)
(* with exit(): that is a ChildEnds with fate exited.                      *)
SpawnForks(p, i) ==
    /\ SpawnBegins(p)
    /\ child[i] = "free"
    /\ PidReuse \/ fate[i] = "none"
    /\ child' = [child EXCEPT ![i] = "running"]
    /\ fate' = [fate EXCEPT ![i] = "none"]
    /\ m_pid' = [m_pid EXCEPT ![p] = i]
    /\ m_status' = [m_status EXCEPT ![p] = "Started"]
    /\ spawning' = p
    /\ forked' = [forked EXCEPT ![p] = i]
    /\ polled' = [polled EXCEPT ![p] = FALSE]
    /\ missed' = missed \ {i}
    /\ UNCHANGED <<app, sigchld, callbackVars, destroyed, closes>>

(* spawn() calls status() before it returns. *)
SpawnReturns(p) ==
    /\ spawning = p
    /\ UpdateStatus(p)
    /\ spawning' = NoProcess
    /\ UNCHANGED <<app, fate, sigchld, m_pid, onChild, callbackVars, destroyed,
                   spawns, processHistory>>

-----------------------------------------------------------------------------
(* kill(): what each signal does to the child.  Interrupt, Hangup and      *)
(* Terminate leave it to the child whether it ends: a ChildEnds.           *)

KillChild(p) ==
    /\ UserCalls
    /\ p \notin destroyed
    /\ m_pid[p] # NoPid
    /\ child[m_pid[p]] \in {"running", "stopped"}
    /\ child' = [child EXCEPT ![m_pid[p]] = "zombie"]
    /\ fate' = [fate EXCEPT ![m_pid[p]] = "killed"]
    /\ RaiseSigchld
    /\ Misses(IF Watching THEN {} ELSE {m_pid[p]})
    /\ UNCHANGED <<app, m_pid, m_status, onChild, callbackVars, spawning,
                   destroyed, spawns, forked, polled, closes>>

StopChild(p) ==
    /\ UserCalls
    /\ p \notin destroyed
    /\ m_pid[p] # NoPid
    /\ child[m_pid[p]] = "running"
    /\ child' = [child EXCEPT ![m_pid[p]] = "stopped"]
    /\ RaiseSigchld
    /\ UNCHANGED <<app, fate, m_pid, m_status, onChild, callbackVars, spawning,
                   destroyed, spawns, processHistory>>

-----------------------------------------------------------------------------
(* The SIGCHLD callback of the event loop *)

(* Mutant of DeliverSignal: one signal, one observer. *)
DeliverSignal_One ==
    /\ sigchld
    /\ app = "running"
    /\ ~InCallback
    /\ spawning = NoProcess
    /\ sigchld' = FALSE
    /\ toCall' = IF onChild = <<>> THEN <<>> ELSE <<Head(onChild)>>
    /\ UNCHANGED <<app, child, fate, m_pid, m_status, onChild, inClose, spawning,
                   destroyed, spawns, processHistory>>

(* m_onChildSubject.next(): the observers are copied, then called. *)
DeliverSignal ==
    /\ sigchld
    /\ app = "running"
    /\ ~InCallback
    /\ spawning = NoProcess
    /\ sigchld' = FALSE
    /\ toCall' = onChild
    /\ UNCHANGED <<app, child, fate, m_pid, m_status, onChild, inClose, spawning,
                   destroyed, spawns, processHistory>>

(* Mutant of Watched: the status is not looked at. *)
Watched_Always(p) == m_pid[p] # NoPid

(* handleChildSignal() looks at processes not known to have ended only. *)
Watched(p) == m_pid[p] # NoPid /\ m_status[p] \in {"Started", "Running"}

NextObserver(p) ==
    /\ spawning = NoProcess
    /\ inClose = NoProcess
    /\ toCall # <<>>
    /\ p = Head(toCall)
    /\ toCall' = Tail(toCall)

HandleNothing(p) ==
    /\ NextObserver(p)
    /\ ~Watched(p)
    /\ UNCHANGED <<app, kernelVars, m_pid, m_status, onChild, inClose, spawning,
                   destroyed, spawns, processHistory>>

(* It calls status() and raises onClose when that finds the process ended. *)
HandleChildSignal(p) ==
    /\ NextObserver(p)
    /\ Watched(p)
    /\ UpdateStatus(p)
    /\ \/ /\ m_status'[p] \in {"Started", "Running"}
          /\ UNCHANGED <<inClose, closes>>
       \/ /\ m_status'[p] \notin {"Started", "Running"}
          /\ inClose' = p
          /\ closes' = [closes EXCEPT ![p] = @ + 1]
    /\ UNCHANGED <<app, fate, sigchld, m_pid, onChild, spawning, destroyed,
                   spawns, forked, polled, missed>>

OnCloseReturns ==
    /\ spawning = NoProcess
    /\ inClose # NoProcess
    /\ inClose' = NoProcess
    /\ UNCHANGED <<app, kernelVars, m_pid, m_status, onChild, toCall, spawning,
                   destroyed, spawns, processHistory>>

(* The destructor unsubscribes from the child signal. *)
Destroy(p) ==
    /\ UserCalls
    /\ ~InCallback
    /\ p \notin destroyed
    /\ onChild' = RemoveFirst(onChild, p)
    /\ destroyed' = destroyed \cup {p}
    /\ UNCHANGED <<app, kernelVars, m_pid, m_status, callbackVars, spawning,
                   spawns, processHistory>>

-----------------------------------------------------------------------------
UserCode ==
    \/ Instance \/ InitApplication \/ RunApplication \/ StopApplication
    \/ \E p \in Processes :
          \/ SpawnFails(p)
          \/ \E i \in Pids : SpawnForks(p, i)
          \/ CallStatus(p)
          \/ KillChild(p) \/ StopChild(p)
          \/ Destroy(p)

Callback == \E p \in Processes : HandleNothing(p) \/ HandleChildSignal(p)

ProcessNext ==
    \/ \E i \in Pids, f \in Fates : ChildEnds(i, f)
    \/ UserCode
    \/ \E p \in Processes : SpawnReturns(p)
    \/ DeliverSignal \/ Callback \/ OnCloseReturns

(***************************************************************************)
(* Fairness: the event loop handles a pending signal, its callback goes on *)
(* (the onClose callbacks return) and a call of spawn() returns.  Nothing  *)
(* is asked of the children or of the user.                                *)
(***************************************************************************)
ProcessFairness ==
    /\ WF_processVars(DeliverSignal)
    /\ WF_processVars(Callback)
    /\ WF_processVars(OnCloseReturns)
    /\ WF_processVars(\E p \in Processes : SpawnReturns(p))

ProcessSpec == ProcessInit /\ [][ProcessNext]_processVars /\ ProcessFairness

-----------------------------------------------------------------------------
HasEnded(p) ==
    forked[p] # NoPid /\ fate[forked[p]] # "none"

(* onClose is raised at most once for a spawned process, whatever number   *)
(* of SIGCHLD callbacks see it ended.                                      *)
OnCloseOnce == \A p \in Processes : closes[p] <= spawns[p]

(* A final status is the way the process's own child ended, so onClose is  *)
(* never raised for a child that runs: neither for a stopped one nor for   *)
(* the SIGCHLD of another child.                                           *)
StatusTruthful ==
    \A p \in Processes :
        /\ m_status[p] \in Ended => HasEnded(p) /\ m_status[p] = StatusOf(fate[forked[p]])
        /\ closes[p] > 0 /\ closes[p] = spawns[p] => m_status[p] \in Ended

(* While the loop runs, a child that ends after spawn() has returned is    *)
(* reaped and reported by onClose, also when its SIGCHLD arrives together  *)
(* with another one or in the middle of a callback, unless user code finds *)
(* the end with status() first.  It is promised to a spawn() that found an *)
(* instance, for a child that ends when init() has been called, also       *)
(* before run(): one that ends earlier, or whose signal stop() drops, is   *)
(* left to status().                                                       *)
CloseReported ==
    \A p \in Processes :
        (/\ p \in Range(onChild) /\ spawning # p
         /\ m_status[p] = "Running" /\ HasEnded(p) /\ forked[p] \notin missed
         /\ app = "running")
            ~> (closes[p] > 0 \/ polled[p] \/ p \in destroyed \/ app # "running")

(* "m_status should already be set": when waitpid knows no child with the  *)
(* pid, the status is a final one.                                         *)
EchildStatusSet ==
    \A p \in Processes :
        m_pid[p] # NoPid /\ child[m_pid[p]] = "free" =>
            m_status[p] \notin {"Starting", "Started", "Running"}
=============================================================================
