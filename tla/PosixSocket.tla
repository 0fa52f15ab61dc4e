---------------------------- MODULE PosixSocket ----------------------------
(***************************************************************************)
(* katla::PosixSocket: who owns which file descriptor, and how wakeup()    *)
(* ends a poll().                                                          *)
(*                                                                         *)
(* A socket object holds two descriptors, _fd and the eventfd _wakeupFd.   *)
(* It is used by one thread, except for wakeup(), which any thread calls.  *)
(* The other sockets, and other code of the program, open and close        *)
(* descriptors at any moment, and the kernel gives a number out again as   *)
(* soon as it is free.  ::close is taken to succeed.                       *)
(***************************************************************************)
EXTENDS Naturals, Sequences

CONSTANTS
    Sockets,      \* objects of class PosixSocket
    Descriptors,  \* the numbers the kernel gives out
    MaxWakeups    \* bound: value of an eventfd's counter

NoFd == 0  \* -1 in the code

ASSUME SocketAssumption == NoFd \notin Descriptors /\ MaxWakeups \in Nat

VARIABLES
    kind,         \* kernel: what each descriptor refers to
    counter,      \* kernel: the counter of each eventfd
    alive,        \* the sockets that are constructed
    fd, wakeupFd, \* _fd and _wakeupFd of each socket
    call,         \* what the thread of each socket is inside of
    accepted,     \* accept()'s local acceptResult
    pair,         \* createUnnamedPair()'s locals: sd, then wakeupFd
    lostFds,      \* history: descriptors that create() assigned over
    wakeupDue     \* history: wakeup() was called since the last one was reported

kernelVars == <<kind, counter>>
memberVars == <<alive, fd, wakeupFd>>
localVars == <<call, accepted, pair>>
historyVars == <<lostFds, wakeupDue>>
socketVars == <<kernelVars, memberVars, localVars, historyVars>>

SocketKinds == {"socket", "bound", "listening", "connected"}
Kinds == SocketKinds \cup {"free", "event", "foreign"}
Calls == {"idle", "creating", "created", "accepting", "polling", "woken"}

(***************************************************************************)
(* The single type invariant of the module.                                *)
(***************************************************************************)
SocketTypeOK ==
    /\ kind \in [Descriptors -> Kinds]
    /\ counter \in [Descriptors -> 0 .. MaxWakeups]
    /\ alive \subseteq Sockets
    /\ fd \in [Sockets -> Descriptors \cup {NoFd}]
    /\ wakeupFd \in [Sockets -> Descriptors \cup {NoFd}]
    /\ call \in [Sockets -> Calls]
    /\ accepted \in [Sockets -> Descriptors \cup {NoFd}]
    /\ pair \in Seq(Descriptors) /\ Len(pair) <= 3
    /\ lostFds \subseteq Descriptors
    /\ wakeupDue \in [Sockets -> BOOLEAN]

SocketInit ==
    /\ kind = [d \in Descriptors |-> "free"]
    /\ counter = [d \in Descriptors |-> 0]
    /\ alive = {}
    /\ fd = [s \in Sockets |-> NoFd]
    /\ wakeupFd = [s \in Sockets |-> NoFd]
    /\ call = [s \in Sockets |-> "idle"]
    /\ accepted = [s \in Sockets |-> NoFd]
    /\ pair = <<>>
    /\ lostFds = {}
    /\ wakeupDue = [s \in Sockets |-> FALSE]

(* The kernel opens a descriptor that is free, and closes descriptors.     *)
Opens(d, k) ==
    /\ kind[d] = "free"
    /\ kind' = [kind EXCEPT ![d] = k]
    /\ UNCHANGED counter

Closes(ds) ==
    /\ kind' = [d \in Descriptors |-> IF d \in ds THEN "free" ELSE kind[d]]
    /\ counter' = [d \in Descriptors |-> IF d \in ds THEN 0 ELSE counter[d]]

SocketIdle(s) == s \in alive /\ call[s] = "idle"
SocketGoto(s, state) == call' = [call EXCEPT ![s] = state]
Overwrites(d) == lostFds' = lostFds \cup ({d} \ {NoFd})

(* The private constructor: each new socket n takes the two descriptors    *)
(* fds[n].                                                                 *)
Adopts(fds) ==
    /\ alive' = alive \cup DOMAIN fds
    /\ fd' = [s \in Sockets |-> IF s \in DOMAIN fds THEN fds[s][1] ELSE fd[s]]
    /\ wakeupFd' = [s \in Sockets |-> IF s \in DOMAIN fds THEN fds[s][2] ELSE wakeupFd[s]]

-----------------------------------------------------------------------------
(* Other code of the program *)

ForeignOpen(d) ==
    /\ Opens(d, "foreign")
    /\ UNCHANGED <<memberVars, localVars, historyVars>>

ForeignClose(d) ==
    /\ kind[d] = "foreign"
    /\ Closes({d})
    /\ UNCHANGED <<memberVars, localVars, historyVars>>

-----------------------------------------------------------------------------
(* The public constructors; bind(), bindIPv4(), connect() and connectIPv4() *)
(* begin with create(), which opens both descriptors.                       *)

Construct(s) ==
    /\ s \notin alive
    /\ alive' = alive \cup {s}
    /\ UNCHANGED <<kernelVars, fd, wakeupFd, localVars, historyVars>>

CreateSocket(s, d) ==
    /\ SocketIdle(s)
    /\ Opens(d, "socket")
    /\ Overwrites(fd[s])
    /\ fd' = [fd EXCEPT ![s] = d]
    /\ SocketGoto(s, "creating")
    /\ UNCHANGED <<alive, wakeupFd, accepted, pair, wakeupDue>>

CreateSocketFails(s) ==
    /\ SocketIdle(s)
    /\ Overwrites(fd[s])
    /\ fd' = [fd EXCEPT ![s] = NoFd]
    /\ UNCHANGED <<kernelVars, alive, wakeupFd, localVars, wakeupDue>>

CreateEvent(s, d) ==
    /\ call[s] = "creating"
    /\ Opens(d, "event")
    /\ Overwrites(wakeupFd[s])
    /\ wakeupFd' = [wakeupFd EXCEPT ![s] = d]
    /\ wakeupDue' = [wakeupDue EXCEPT ![s] = FALSE]
    /\ SocketGoto(s, "created")
    /\ UNCHANGED <<alive, fd, accepted, pair>>

CreateEventFails(s) ==
    /\ call[s] = "creating"
    /\ Overwrites(wakeupFd[s])
    /\ wakeupFd' = [wakeupFd EXCEPT ![s] = NoFd]
    /\ wakeupDue' = [wakeupDue EXCEPT ![s] = FALSE]
    /\ SocketGoto(s, "idle")
    /\ UNCHANGED <<kernelVars, alive, fd, accepted, pair>>

(* The kernel changes what the socket is. *)
Becomes(s, k) ==
    /\ kind' = [kind EXCEPT ![fd[s]] = k]
    /\ UNCHANGED <<counter, memberVars, accepted, pair, historyVars>>

Bind(s) == call[s] = "created" /\ SocketGoto(s, "idle") /\ Becomes(s, "bound")

Connect(s) == call[s] = "created" /\ SocketGoto(s, "idle") /\ Becomes(s, "connected")

(* The address is wrong, the peer is not there, an option is refused: an   *)
(* error is returned and both descriptors are kept.                        *)
AddressFails(s) ==
    /\ call[s] = "created"
    /\ SocketGoto(s, "idle")
    /\ UNCHANGED <<kernelVars, memberVars, accepted, pair, historyVars>>

Listen(s) ==
    /\ SocketIdle(s)
    /\ fd[s] # NoFd
    /\ kind[fd[s]] \in {"socket", "bound"}
    /\ Becomes(s, "listening")
    /\ UNCHANGED call

-----------------------------------------------------------------------------
(* accept(): the new socket object takes both descriptors, or neither.     *)

AcceptClient(s, d) ==
    /\ SocketIdle(s)
    /\ fd[s] # NoFd
    /\ kind[fd[s]] = "listening"
    /\ Opens(d, "connected")
    /\ accepted' = [accepted EXCEPT ![s] = d]
    /\ SocketGoto(s, "accepting")
    /\ UNCHANGED <<memberVars, pair, historyVars>>

AcceptReturns(s, d, n) ==
    /\ call[s] = "accepting"
    /\ n \notin alive
    /\ Opens(d, "event")
    /\ Adopts([m \in {n} |-> <<accepted[s], d>>])
    /\ accepted' = [accepted EXCEPT ![s] = NoFd]
    /\ SocketGoto(s, "idle")
    /\ UNCHANGED <<pair, historyVars>>

(* Mutant of AcceptFails: the accepted descriptor is kept open. *)
AcceptFails_Leaks(s) ==
    /\ call[s] = "accepting"
    /\ accepted' = [accepted EXCEPT ![s] = NoFd]
    /\ SocketGoto(s, "idle")
    /\ UNCHANGED <<kernelVars, memberVars, pair, historyVars>>

AcceptFails(s) ==
    /\ call[s] = "accepting"
    /\ Closes({accepted[s]})
    /\ accepted' = [accepted EXCEPT ![s] = NoFd]
    /\ SocketGoto(s, "idle")
    /\ UNCHANGED <<memberVars, pair, historyVars>>

-----------------------------------------------------------------------------
(* createUnnamedPair(): two sockets, then an eventfd for each. *)

PairSockets(d, e) ==
    /\ pair = <<>>
    /\ d # e /\ kind[d] = "free" /\ kind[e] = "free"
    /\ kind' = [kind EXCEPT ![d] = "connected", ![e] = "connected"]
    /\ pair' = <<d, e>>
    /\ UNCHANGED <<counter, memberVars, call, accepted, historyVars>>

PairEvent(d) ==
    /\ Len(pair) = 2
    /\ Opens(d, "event")
    /\ pair' = Append(pair, d)
    /\ UNCHANGED <<memberVars, call, accepted, historyVars>>

PairReturns(d, s, t) ==
    /\ Len(pair) = 3
    /\ s # t /\ s \notin alive /\ t \notin alive
    /\ Opens(d, "event")
    /\ Adopts([m \in {s, t} |-> IF m = s THEN <<pair[1], pair[3]>> ELSE <<pair[2], d>>])
    /\ pair' = <<>>
    /\ UNCHANGED <<call, accepted, historyVars>>

(* The first or the second eventfd cannot be created: all that was opened  *)
(* is closed.                                                              *)
PairFails ==
    /\ Len(pair) \in {2, 3}
    /\ Closes({pair[i] : i \in 1 .. Len(pair)})
    /\ pair' = <<>>
    /\ UNCHANGED <<memberVars, call, accepted, historyVars>>

-----------------------------------------------------------------------------
(* close() leaves the eventfd open for the threads that call wakeup(). *)
Close(s) ==
    /\ SocketIdle(s)
    /\ fd[s] # NoFd
    /\ Closes({fd[s]})
    /\ fd' = [fd EXCEPT ![s] = NoFd]
    /\ UNCHANGED <<alive, wakeupFd, localVars, historyVars>>

Destroy(s) ==
    /\ SocketIdle(s)
    /\ Closes({fd[s], wakeupFd[s]})
    /\ alive' = alive \ {s}
    /\ fd' = [fd EXCEPT ![s] = NoFd]
    /\ wakeupFd' = [wakeupFd EXCEPT ![s] = NoFd]
    /\ wakeupDue' = [wakeupDue EXCEPT ![s] = FALSE]
    /\ UNCHANGED <<localVars, lostFds>>

-----------------------------------------------------------------------------
(* wakeup() by any thread; without an eventfd it returns an error. *)
WakeupSocket(s) ==
    /\ wakeupFd[s] # NoFd
    /\ counter[wakeupFd[s]] < MaxWakeups
    /\ counter' = [counter EXCEPT ![wakeupFd[s]] = @ + 1]
    /\ wakeupDue' = [wakeupDue EXCEPT ![s] = TRUE]
    /\ UNCHANGED <<kind, memberVars, localVars, lostFds>>

(* POLLIN of the eventfd *)
Signalled(s) == wakeupFd[s] # NoFd /\ counter[wakeupFd[s]] > 0

PollBegins(s) ==
    /\ SocketIdle(s)
    /\ SocketGoto(s, "polling")
    /\ UNCHANGED <<kernelVars, memberVars, accepted, pair, historyVars>>

(* ::poll returns because of the socket or the timeout. *)
PollReturns(s) ==
    /\ call[s] = "polling"
    /\ ~Signalled(s)
    /\ SocketGoto(s, "idle")
    /\ UNCHANGED <<kernelVars, memberVars, accepted, pair, historyVars>>

(* ::poll is interrupted by a signal and an error is returned. *)
PollInterrupted(s) ==
    /\ call[s] = "polling"
    /\ SocketGoto(s, "idle")
    /\ UNCHANGED <<kernelVars, memberVars, accepted, pair, historyVars>>

(* Mutant of PollWoken: only the socket is polled. *)
PollWoken_NotPolled(s) ==
    /\ call[s] = "polling"
    /\ Signalled(s)
    /\ counter[wakeupFd[s]] > MaxWakeups
    /\ SocketGoto(s, "woken")
    /\ UNCHANGED <<kernelVars, memberVars, accepted, pair, historyVars>>

(* ::poll returns with the eventfd signalled, whatever the socket does ... *)
PollWoken(s) ==
    /\ call[s] = "polling"
    /\ Signalled(s)
    /\ SocketGoto(s, "woken")
    /\ UNCHANGED <<kernelVars, memberVars, accepted, pair, historyVars>>

(* Mutant of PollConsumes: the eventfd is not read. *)
PollConsumes_Unread(s) ==
    /\ call[s] = "woken"
    /\ wakeupDue' = [wakeupDue EXCEPT ![s] = FALSE]
    /\ SocketGoto(s, "idle")
    /\ UNCHANGED <<kernelVars, memberVars, accepted, pair, lostFds>>

(* ... and the read takes all the wakeups there are by then; poll() then   *)
(* returns with wakeup set.                                                *)
PollConsumes(s) ==
    /\ call[s] = "woken"
    /\ counter' = [counter EXCEPT ![wakeupFd[s]] = 0]
    /\ wakeupDue' = [wakeupDue EXCEPT ![s] = FALSE]
    /\ SocketGoto(s, "idle")
    /\ UNCHANGED <<kind, memberVars, accepted, pair, lostFds>>

-----------------------------------------------------------------------------
Opening ==
    \E d \in Descriptors :
        \/ ForeignOpen(d)
        \/ \E s \in Sockets :
              \/ CreateSocket(s, d) \/ CreateEvent(s, d)
              \/ AcceptClient(s, d)
              \/ \E n \in Sockets : AcceptReturns(s, d, n) \/ PairReturns(d, s, n)
        \/ PairEvent(d)
        \/ \E e \in Descriptors : PairSockets(d, e)

Closing ==
    \/ \E d \in Descriptors : ForeignClose(d)
    \/ \E s \in Sockets :
          \/ CreateSocketFails(s) \/ CreateEventFails(s) \/ AddressFails(s)
          \/ AcceptFails(s) \/ Close(s) \/ Destroy(s)
    \/ PairFails

Poll(s) == PollWoken(s) \/ PollConsumes(s)

SocketNext ==
    \/ Opening
    \/ Closing
    \/ \E s \in Sockets :
          \/ Construct(s) \/ Bind(s) \/ Connect(s) \/ Listen(s)
          \/ WakeupSocket(s) \/ Poll(s)
          \/ PollBegins(s) \/ PollReturns(s) \/ PollInterrupted(s)

(* A poll that is signalled returns; nothing is asked of the socket or of  *)
(* the timeout.                                                            *)
SocketFairness == \A s \in Sockets : WF_socketVars(Poll(s))

SocketSpec == SocketInit /\ [][SocketNext]_socketVars /\ SocketFairness

-----------------------------------------------------------------------------
Held(s) == {fd[s], wakeupFd[s], accepted[s]} \ {NoFd}
PairHeld == {pair[i] : i \in 1 .. Len(pair)}
HeldByAny == (UNION {Held(s) : s \in Sockets}) \cup PairHeld

(* What a socket object holds is open, is what it takes it for and is its  *)
(* own: neither close() nor the destructor closes a descriptor that the    *)
(* kernel has given to somebody else, and wakeup() writes to its eventfd.  *)
HeldAreOwn ==
    \A s \in Sockets :
        /\ fd[s] # NoFd => kind[fd[s]] \in SocketKinds
        /\ wakeupFd[s] # NoFd => kind[wakeupFd[s]] = "event"
        /\ Held(s) \cap (lostFds \cup PairHeld) = {}
        /\ \A t \in Sockets \ {s} : Held(s) \cap Held(t) = {}

(* No error path and no destructor leaves a descriptor open that nobody    *)
(* holds, except those over which create() assigned.                       *)
NoneLeaked ==
    {d \in Descriptors : kind[d] \in SocketKinds \cup {"event"}} \subseteq HeldByAny \cup lostFds

(* A member holds a descriptor that is open and nobody else's, and every    *)
(* open descriptor is held.                                                 *)
DescriptorsOwned == HeldAreOwn /\ NoneLeaked

(* The eventfd is signalled exactly while a wakeup() was not reported yet: *)
(* it is reported once, by the poll in progress or by the next one, and    *)
(* there are no "subsequent wakeups without request".                      *)
WakeupsExact == \A s \in Sockets : Signalled(s) <=> wakeupDue[s]

(* A poll() in progress, with any timeout, returns after a wakeup(). *)
WakeupEndsPoll ==
    \A s \in Sockets : (call[s] = "polling" /\ wakeupDue[s]) ~> (call[s] = "idle")
=============================================================================
