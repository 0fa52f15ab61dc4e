------------------------------- MODULE Thread -------------------------------
(***************************************************************************)
(* katla::Thread::setPriority() on the platforms it is built for: threads  *)
(* set the priority of one another, and the system may refuse.  A thread   *)
(* of WorkerThread sets its own, and goes on when that fails.              *)
(***************************************************************************)
EXTENDS Errors

CONSTANT PriorityThreads  \* the threads of the program

Priority == {"Realtime", "Normal", "Idle"}

VARIABLES
    platform,   \* the build: "posix" or "win32"
    scheduling, \* system: how each thread is scheduled
    answer,     \* what the last setPriority() returned: an error code
    refusal,    \* history: the errno of that call, or "none"
    granted     \* history: the last priority set for each thread without error

priorityVars == <<platform, scheduling, answer, refusal, granted>>

(* The scheduling class and priority of each Priority *)
Policy(priority) ==
    CASE priority = "Realtime" -> <<"SCHED_RR", 10>>
      [] priority = "Normal" -> <<"SCHED_OTHER", 0>>
      [] priority = "Idle" -> <<"SCHED_IDLE", 0>>

WinPriority(priority) ==
    CASE priority = "Realtime" -> <<"THREAD_PRIORITY_TIME_CRITICAL">>
      [] priority = "Normal" -> <<"THREAD_PRIORITY_NORMAL">>
      [] priority = "Idle" -> <<"THREAD_PRIORITY_IDLE">>

Scheduled(priority) == IF platform = "posix" THEN Policy(priority) ELSE WinPriority(priority)

PriorityInit ==
    /\ platform \in {"posix", "win32"}
    /\ scheduling = [t \in PriorityThreads |-> Scheduled("Normal")]
    /\ answer = NoErrorCode
    /\ refusal = "none"
    /\ granted = [t \in PriorityThreads |-> "Normal"]

(* The error for what pthread_setschedparam returned *)
PriorityError(errno) ==
    MakeErrorCode("posix", CASE errno = "ESRCH" -> "NotFound"
                             [] errno = "EINVAL" -> "Invalid"
                             [] errno = "EPERM" -> "PermissionDenied"
                             [] OTHER -> "OperationNotSupported")

Granted(target, thread, priority) ==
    /\ scheduling' = [scheduling EXCEPT ![target] = Scheduled(priority)]
    /\ granted' = [granted EXCEPT ![thread] = priority]
    /\ answer' = NoErrorCode
    /\ refusal' = "none"
    /\ UNCHANGED platform

Refused(errno, code) ==
    /\ answer' = code
    /\ refusal' = errno
    /\ UNCHANGED <<platform, scheduling, granted>>

(* PosixThread::setPriority() *)
PosixSetPriority(thread, priority) ==
    /\ platform = "posix"
    /\ \/ Granted(thread, thread, priority)
       \/ \E errno \in {"ESRCH", "EINVAL", "EPERM", "ENOTSUP"} :
             Refused(errno, PriorityError(errno))

(* Win32Thread::setPriority() takes the current thread, not the one given. *)
Win32SetPriority(caller, thread, priority) ==
    /\ platform = "win32"
    /\ \/ Granted(caller, thread, priority)
       \/ Refused("EACCES", MakeErrorCode("win32", "OperationFailed"))

SetPriority(caller, thread, priority) ==
    \/ PosixSetPriority(thread, priority)
    \/ Win32SetPriority(caller, thread, priority)

PriorityNext ==
    \E caller, thread \in PriorityThreads, priority \in Priority :
        SetPriority(caller, thread, priority)

-----------------------------------------------------------------------------
(* Of the posix build: every thread is scheduled as the last call for it   *)
(* that returned no error asked, whoever called; a call that the system    *)
(* refused returns a code that tests as an error, whose condition is that  *)
(* of the errno unless this was EPERM or ESRCH.  Of the Windows build      *)
(* nothing is promised: it does neither.                                   *)
PriorityExact ==
    platform = "posix" =>
        /\ \A t \in PriorityThreads : scheduling[t] = Policy(granted[t])
        /\ IsSet(answer) <=> refusal # "none"
        /\ refusal \in {"EINVAL", "ENOTSUP"} =>
              DefaultErrorCondition(answer) = LastSystemError(refusal)
=============================================================================
