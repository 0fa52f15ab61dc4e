------------------------- MODULE PosixSocketProofs -------------------------
(***************************************************************************)
(* Safety of PosixSocket for every set of socket objects and descriptors   *)
(* and any number of wakeups.                                              *)
(*                                                                         *)
(* DescriptorsOwned is not inductive: that nobody closes a descriptor of   *)
(* somebody else depends on what is held between two steps of accept() and *)
(* createUnnamedPair(), on what each call has opened by then, and on a     *)
(* socket that is not constructed holding nothing.  SocketInv adds this.   *)
(***************************************************************************)
EXTENDS PosixSocket, SequenceTheorems, TLAPS

(* What is held is open and of the kind the holder takes it for. *)
MembersOpen ==
    \A s \in Sockets :
        /\ fd[s] # NoFd => kind[fd[s]] \in SocketKinds
        /\ wakeupFd[s] # NoFd => kind[wakeupFd[s]] = "event"
        /\ accepted[s] # NoFd => kind[accepted[s]] = "connected"

PairOpen ==
    /\ Len(pair) \in {0, 2, 3}
    /\ \A i \in 1 .. Len(pair) :
          /\ kind[pair[i]] = IF i = 3 THEN "event" ELSE "connected"
          /\ counter[pair[i]] = 0
          /\ pair[i] \notin lostFds
          /\ \A j \in 1 .. Len(pair) : i # j => pair[i] # pair[j]

LostOpen == \A d \in lostFds : kind[d] \in SocketKinds \cup {"event"}

(* Nothing is held twice. *)
Apart ==
    \A s \in Sockets :
        /\ fd[s] \notin lostFds /\ wakeupFd[s] \notin lostFds /\ accepted[s] \notin lostFds
        /\ \A i \in 1 .. Len(pair) :
              pair[i] # fd[s] /\ pair[i] # wakeupFd[s] /\ pair[i] # accepted[s]
        /\ \A t \in Sockets :
              /\ fd[s] # NoFd => fd[s] # wakeupFd[t] /\ fd[s] # accepted[t]
              /\ wakeupFd[s] # NoFd => wakeupFd[s] # accepted[t]
              /\ s # t /\ fd[s] # NoFd => fd[s] # fd[t]
              /\ s # t /\ wakeupFd[s] # NoFd => wakeupFd[s] # wakeupFd[t]
              /\ s # t /\ accepted[s] # NoFd => accepted[s] # accepted[t]

(* What a socket holds by the point its call has reached; one that is not  *)
(* constructed holds nothing.                                              *)
CallsExact ==
    \A s \in Sockets :
        /\ call[s] = "accepting" <=> accepted[s] # NoFd
        /\ call[s] = "creating" => fd[s] # NoFd
        /\ call[s] = "created" => fd[s] # NoFd
        /\ call[s] = "woken" => wakeupFd[s] # NoFd
        /\ s \notin alive =>
              call[s] = "idle" /\ fd[s] = NoFd /\ wakeupFd[s] = NoFd /\ ~wakeupDue[s]

CountersExact == \A d \in Descriptors : counter[d] > 0 => kind[d] = "event"

(* Every descriptor that a socket opened is held or was assigned over. *)
AllHeld ==
    \A d \in Descriptors :
        kind[d] \in SocketKinds \cup {"event"} =>
            \/ \E s \in Sockets : d \in {fd[s], wakeupFd[s], accepted[s]}
            \/ \E i \in 1 .. Len(pair) : d = pair[i]
            \/ d \in lostFds

SocketInv ==
    /\ SocketTypeOK /\ MembersOpen /\ PairOpen /\ LostOpen /\ Apart
    /\ CallsExact /\ CountersExact /\ AllHeld /\ WakeupsExact

-----------------------------------------------------------------------------
(* The initial state satisfies the inductive invariant. *)
LEMMA InitSocketInv == SocketInit => SocketInv
<1> SUFFICES ASSUME SocketInit PROVE SocketInv
  OBVIOUS
<1> USE SocketAssumption DEF SocketInit, SocketKinds
<1>1. SocketTypeOK BY DEF SocketTypeOK, Kinds, Calls
<1>2. MembersOpen /\ PairOpen /\ LostOpen /\ Apart
  BY DEF MembersOpen, PairOpen, LostOpen, Apart
<1>3. CallsExact /\ CountersExact /\ AllHeld
  BY DEF CallsExact, CountersExact, AllHeld
<1>4. WakeupsExact BY DEF WakeupsExact, Signalled
<1> QED BY <1>1, <1>2, <1>3, <1>4 DEF SocketInv

(* A descriptor that the kernel may give out, and one of other code, is    *)
(* held by no socket.                                                      *)
LEMMA Fresh ==
    ASSUME SocketInv, NEW d \in Descriptors, kind[d] \in {"free", "foreign"}
    PROVE  /\ d # NoFd /\ d \notin lostFds /\ counter[d] = 0
           /\ \A s \in Sockets : d # fd[s] /\ d # wakeupFd[s] /\ d # accepted[s]
           /\ \A i \in 1 .. Len(pair) : d # pair[i]
<1> USE SocketAssumption DEF SocketInv, SocketTypeOK, SocketKinds
<1>1. d # NoFd /\ d \notin lostFds BY DEF LostOpen
<1>2. counter[d] = 0 BY DEF CountersExact
<1>3. \A s \in Sockets : d # fd[s] /\ d # wakeupFd[s] /\ d # accepted[s]
  BY DEF MembersOpen
<1>4. \A i \in 1 .. Len(pair) : d # pair[i] BY DEF PairOpen
<1> QED BY <1>1, <1>2, <1>3, <1>4

(* What Append leaves where it was, and adds *)
LEMMA Appended ==
    ASSUME NEW S, NEW p \in Seq(S), NEW d \in S
    PROVE  /\ Append(p, d) \in Seq(S) /\ Len(Append(p, d)) = Len(p) + 1
           /\ Append(p, d)[Len(p) + 1] = d
           /\ \A i \in 1 .. Len(p) : Append(p, d)[i] = p[i]
  OBVIOUS

(* What createUnnamedPair() holds once it has the first eventfd. *)
LEMMA AppendThird ==
    ASSUME NEW S, NEW p \in Seq(S), Len(p) = 2, NEW d \in S
    PROVE  LET q == Append(p, d)
           IN  /\ Len(q) = 3 /\ q \in Seq(S)
               /\ q[1] = p[1] /\ q[2] = p[2] /\ q[3] = d
               /\ \A i \in 1 .. 2 : q[i] = p[i]
<1> DEFINE q == Append(p, d)
<1>1. /\ q \in Seq(S) /\ Len(q) = Len(p) + 1 /\ q[Len(p) + 1] = d
      /\ \A i \in 1 .. Len(p) : q[i] = p[i]
  BY ONLY p \in Seq(S), d \in S, Appended
<1> HIDE DEF q
<1>2. Len(q) = 3 /\ q[3] = d /\ \A i \in 1 .. 2 : q[i] = p[i]
  BY <1>1
<1>3. q[1] = p[1] /\ q[2] = p[2]
  BY <1>2
<1> QED BY <1>1, <1>2, <1>3 DEF q

-----------------------------------------------------------------------------
(* Other code opens a descriptor: it gets none that a socket holds. *)
LEMMA ForeignOpenStep ==
    ASSUME SocketInv, NEW d \in Descriptors, ForeignOpen(d)
    PROVE  SocketInv'
<1> USE SocketAssumption DEF SocketInv, SocketTypeOK, SocketKinds, kernelVars, memberVars,
        localVars, historyVars, ForeignOpen, Opens
<1>1. SocketTypeOK'
  BY Fresh DEF Kinds, Calls, CallsExact
<1>2. MembersOpen' /\ PairOpen' /\ LostOpen'
  BY Fresh DEF MembersOpen, PairOpen, LostOpen, Apart, CallsExact
<1>3. Apart'
  BY DEF Apart
<1>4. CallsExact' /\ CountersExact'
  BY Fresh DEF CallsExact, CountersExact, MembersOpen
<1>5. AllHeld'
  BY Fresh, SMTT(30) DEF AllHeld, CallsExact
<1>6. WakeupsExact'
  BY Fresh DEF WakeupsExact, Signalled, Apart, MembersOpen, CallsExact
<1> QED BY <1>1, <1>2, <1>3, <1>4, <1>5, <1>6

(* Other code closes only descriptors of its own. *)
LEMMA ForeignCloseStep ==
    ASSUME SocketInv, NEW d \in Descriptors, ForeignClose(d)
    PROVE  SocketInv'
<1> USE SocketAssumption DEF SocketInv, SocketTypeOK, SocketKinds, kernelVars, memberVars,
        localVars, historyVars, ForeignClose, Closes
<1>1. SocketTypeOK'
  BY Fresh DEF Kinds, Calls, CallsExact
<1>2. MembersOpen' /\ PairOpen' /\ LostOpen'
  BY Fresh DEF MembersOpen, PairOpen, LostOpen, Apart, CallsExact
<1>3. Apart'
  BY DEF Apart
<1>4. CallsExact' /\ CountersExact'
  BY Fresh DEF CallsExact, CountersExact, MembersOpen
<1>5. AllHeld'
  BY Fresh DEF AllHeld, CallsExact
<1>6. WakeupsExact'
  BY Fresh DEF WakeupsExact, Signalled, Apart, MembersOpen, CallsExact
<1> QED BY <1>1, <1>2, <1>3, <1>4, <1>5, <1>6

(* create() opens a socket over the one it has ... *)
LEMMA CreateSocketStep ==
    ASSUME SocketInv, NEW s \in Sockets, NEW d \in Descriptors, CreateSocket(s, d)
    PROVE  SocketInv'
<1> USE SocketAssumption DEF SocketInv, SocketTypeOK, SocketKinds, kernelVars, memberVars,
        localVars, historyVars, CreateSocket, Opens, Overwrites, SocketGoto, SocketIdle
<1>1. SocketTypeOK'
  BY Fresh DEF Kinds, Calls, CallsExact
<1>2. MembersOpen' /\ PairOpen' /\ LostOpen'
  BY Fresh DEF MembersOpen, PairOpen, LostOpen, Apart, CallsExact
<1>3. Apart'
  BY Fresh DEF Apart, CallsExact
<1>4. CallsExact' /\ CountersExact'
  BY Fresh DEF CallsExact, CountersExact, MembersOpen
<1>5. AllHeld'
  BY Fresh DEF AllHeld, CallsExact
<1>6. WakeupsExact'
  BY Fresh DEF WakeupsExact, Signalled, Apart, MembersOpen, CallsExact
<1> QED BY <1>1, <1>2, <1>3, <1>4, <1>5, <1>6

(* ... and an eventfd. *)
LEMMA CreateEventStep ==
    ASSUME SocketInv, NEW s \in Sockets, NEW d \in Descriptors, CreateEvent(s, d)
    PROVE  SocketInv'
<1> USE SocketAssumption DEF SocketInv, SocketTypeOK, SocketKinds, kernelVars, memberVars,
        localVars, historyVars, CreateEvent, Opens, Overwrites, SocketGoto
<1>1. SocketTypeOK'
  BY Fresh DEF Kinds, Calls, CallsExact
<1>2. MembersOpen' /\ PairOpen' /\ LostOpen'
  BY Fresh DEF MembersOpen, PairOpen, LostOpen, Apart, CallsExact
<1>3. Apart'
  BY Fresh DEF Apart, CallsExact
<1>4. CallsExact' /\ CountersExact'
  BY Fresh DEF CallsExact, CountersExact, MembersOpen
<1>5. AllHeld'
  BY Fresh DEF AllHeld, CallsExact
<1>6. WakeupsExact'
  BY Fresh DEF WakeupsExact, Signalled, Apart, MembersOpen, CallsExact
<1> QED BY <1>1, <1>2, <1>3, <1>4, <1>5, <1>6

(* create() fails before the socket: the old one is lost ... *)
LEMMA CreateSocketFailsStep ==
    ASSUME SocketInv, NEW s \in Sockets, CreateSocketFails(s)
    PROVE  SocketInv'
<1> USE SocketAssumption DEF SocketInv, SocketTypeOK, SocketKinds, kernelVars, memberVars,
        localVars, historyVars, CreateSocketFails, Overwrites, SocketIdle
<1>1. SocketTypeOK'
  BY DEF Kinds, Calls, CallsExact
<1>2. MembersOpen' /\ PairOpen' /\ LostOpen'
  BY DEF MembersOpen, PairOpen, LostOpen, Apart, CallsExact
<1>3. Apart'
  BY ZenonT(30) DEF Apart, CallsExact
<1>4. CallsExact' /\ CountersExact'
  BY DEF CallsExact, CountersExact, MembersOpen
<1>5. AllHeld'
  BY DEF AllHeld, CallsExact
<1>6. WakeupsExact'
  BY DEF WakeupsExact, Signalled, Apart, MembersOpen, CallsExact
<1> QED BY <1>1, <1>2, <1>3, <1>4, <1>5, <1>6

(* ... or before the eventfd: the socket is kept. *)
LEMMA CreateEventFailsStep ==
    ASSUME SocketInv, NEW s \in Sockets, CreateEventFails(s)
    PROVE  SocketInv'
<1> USE SocketAssumption DEF SocketInv, SocketTypeOK, SocketKinds, kernelVars, memberVars,
        localVars, historyVars, CreateEventFails, Overwrites, SocketGoto
<1>1. SocketTypeOK'
  BY DEF Kinds, Calls, CallsExact
<1>2. MembersOpen' /\ PairOpen' /\ LostOpen'
  BY DEF MembersOpen, PairOpen, LostOpen, Apart, CallsExact
<1>3. Apart'
  BY ZenonT(30) DEF Apart, CallsExact
<1>4. CallsExact' /\ CountersExact'
  BY DEF CallsExact, CountersExact, MembersOpen
<1>5. AllHeld'
  BY DEF AllHeld, CallsExact
<1>6. WakeupsExact'
  BY DEF WakeupsExact, Signalled, Apart, MembersOpen, CallsExact
<1> QED BY <1>1, <1>2, <1>3, <1>4, <1>5, <1>6

(* bind(), connect() and listen() change only what the own socket is. *)
LEMMA BecomesStep ==
    ASSUME SocketInv, NEW s \in Sockets, Bind(s) \/ Connect(s) \/ Listen(s)
    PROVE  SocketInv'
<1> USE SocketAssumption DEF SocketInv, SocketTypeOK, SocketKinds, kernelVars, memberVars,
        localVars, historyVars, Bind, Connect, Listen, Becomes, SocketGoto, SocketIdle
<1>0. fd[s] \in Descriptors /\ \E k \in SocketKinds : kind' = [kind EXCEPT ![fd[s]] = k]
  BY DEF CallsExact
<1>1. SocketTypeOK'
  BY <1>0, ZenonT(30) DEF Kinds, Calls, CallsExact
<1>2. MembersOpen' /\ PairOpen' /\ LostOpen'
  BY <1>0 DEF MembersOpen, PairOpen, LostOpen, Apart, CallsExact
<1>3. Apart'
  BY <1>0, SMTT(30) DEF Apart, CallsExact
<1>4. CallsExact' /\ CountersExact'
  <2>1. CallsExact' BY DEF CallsExact
  <2>2. CountersExact' BY <1>0 DEF CountersExact, MembersOpen
  <2> QED BY <2>1, <2>2
<1>5. AllHeld'
  BY <1>0, SMTT(30) DEF AllHeld, CallsExact
<1>6. WakeupsExact'
  BY <1>0 DEF WakeupsExact, Signalled, Apart, MembersOpen, CallsExact
<1> QED BY <1>1, <1>2, <1>3, <1>4, <1>5, <1>6

(* accept(): the descriptor of the client is held by the call ... *)
LEMMA AcceptClientStep ==
    ASSUME SocketInv, NEW s \in Sockets, NEW d \in Descriptors, AcceptClient(s, d)
    PROVE  SocketInv'
<1> USE SocketAssumption DEF SocketInv, SocketTypeOK, SocketKinds, kernelVars, memberVars,
        localVars, historyVars, AcceptClient, Opens, SocketGoto, SocketIdle
<1>1. SocketTypeOK'
  BY Fresh DEF Kinds, Calls, CallsExact
<1>2. MembersOpen' /\ PairOpen' /\ LostOpen'
  BY Fresh DEF MembersOpen, PairOpen, LostOpen, Apart, CallsExact
<1>3. Apart'
  BY Fresh DEF Apart, CallsExact
<1>4. CallsExact' /\ CountersExact'
  BY Fresh DEF CallsExact, CountersExact, MembersOpen
<1>5. AllHeld'
  BY Fresh DEF AllHeld, CallsExact
<1>6. WakeupsExact'
  BY Fresh DEF WakeupsExact, Signalled, Apart, MembersOpen, CallsExact
<1> QED BY <1>1, <1>2, <1>3, <1>4, <1>5, <1>6

(* ... and handed to the new object with a new eventfd ... *)
LEMMA AcceptReturnsStep ==
    ASSUME SocketInv, NEW s \in Sockets, NEW d \in Descriptors, NEW n \in Sockets,
           AcceptReturns(s, d, n)
    PROVE  SocketInv'
<1> USE SocketAssumption DEF SocketInv, SocketTypeOK, SocketKinds, kernelVars, memberVars,
        localVars, historyVars, AcceptReturns, Opens, SocketGoto
<1>0. /\ alive' = alive \cup {n}
      /\ fd' = [r \in Sockets |-> IF r = n THEN accepted[s] ELSE fd[r]]
      /\ wakeupFd' = [r \in Sockets |-> IF r = n THEN d ELSE wakeupFd[r]]
      /\ accepted[s] \in Descriptors
  BY DEF Adopts, CallsExact
<1>1. SocketTypeOK'
  BY <1>0, Fresh DEF Kinds, Calls, CallsExact
<1>2. MembersOpen' /\ PairOpen' /\ LostOpen'
  BY <1>0, Fresh DEF MembersOpen, PairOpen, LostOpen, Apart, CallsExact
<1>3. Apart'
  BY <1>0, Fresh DEF Apart, CallsExact
<1>4. CallsExact' /\ CountersExact'
  BY <1>0, Fresh DEF CallsExact, CountersExact, MembersOpen
<1>5. AllHeld'
  <2> SUFFICES ASSUME NEW x \in Descriptors, kind'[x] \in SocketKinds \cup {"event"}
               PROVE  \/ \E r \in Sockets : x \in {fd'[r], wakeupFd'[r], accepted'[r]}
                      \/ \E i \in 1 .. Len(pair) : x = pair[i]
                      \/ x \in lostFds
    BY DEF AllHeld
  <2>1. CASE x = d \/ x = accepted[s] BY <1>0, <2>1
  <2>2. CASE x # d /\ x # accepted[s]
    BY <1>0, <2>2, ZenonT(30) DEF AllHeld, CallsExact
  <2> QED BY <2>1, <2>2
<1>6. WakeupsExact'
  BY <1>0, Fresh DEF WakeupsExact, Signalled, Apart, MembersOpen, CallsExact
<1> QED BY <1>1, <1>2, <1>3, <1>4, <1>5, <1>6

(* ... or closed when there is no eventfd. *)
LEMMA AcceptFailsStep ==
    ASSUME SocketInv, NEW s \in Sockets, AcceptFails(s)
    PROVE  SocketInv'
<1> USE SocketAssumption DEF SocketInv, SocketTypeOK, SocketKinds, kernelVars, memberVars,
        localVars, historyVars, AcceptFails, Closes, SocketGoto
<1>1. SocketTypeOK'
  BY DEF Kinds, Calls, CallsExact
<1>2. MembersOpen' /\ PairOpen' /\ LostOpen'
  BY DEF MembersOpen, PairOpen, LostOpen, Apart, CallsExact
<1>3. Apart'
  BY DEF Apart, CallsExact
<1>4. CallsExact' /\ CountersExact'
  BY DEF CallsExact, CountersExact, MembersOpen
<1>5. AllHeld'
  BY DEF AllHeld, CallsExact
<1>6. WakeupsExact'
  BY DEF WakeupsExact, Signalled, Apart, MembersOpen, CallsExact
<1> QED BY <1>1, <1>2, <1>3, <1>4, <1>5, <1>6

(* createUnnamedPair(): two sockets ... *)
LEMMA PairSocketsStep ==
    ASSUME SocketInv, NEW d \in Descriptors, NEW e \in Descriptors, PairSockets(d, e)
    PROVE  SocketInv'
<1> USE SocketAssumption DEF SocketInv, SocketTypeOK, SocketKinds, kernelVars, memberVars,
        localVars, historyVars, PairSockets
<1>1. SocketTypeOK'
  BY Fresh DEF Kinds, Calls, CallsExact
<1>2. MembersOpen' /\ PairOpen' /\ LostOpen'
  BY Fresh DEF MembersOpen, PairOpen, LostOpen, Apart, CallsExact
<1>3. Apart'
  BY Fresh DEF Apart, CallsExact
<1>4. CallsExact' /\ CountersExact'
  BY Fresh DEF CallsExact, CountersExact, MembersOpen
<1>5. AllHeld'
  BY Fresh DEF AllHeld, CallsExact
<1>6. WakeupsExact'
  BY Fresh DEF WakeupsExact, Signalled, Apart, MembersOpen, CallsExact
<1> QED BY <1>1, <1>2, <1>3, <1>4, <1>5, <1>6

(* ... and the first eventfd are held by the call, ... *)
LEMMA PairEventStep ==
    ASSUME SocketInv, NEW d \in Descriptors, PairEvent(d)
    PROVE  SocketInv'
<1> USE SocketAssumption DEF SocketInv, SocketTypeOK, SocketKinds, kernelVars, memberVars,
        localVars, historyVars, PairEvent, Opens
<1>0. /\ Len(pair) = 2 /\ Len(pair') = 3 /\ pair' \in Seq(Descriptors)
      /\ pair'[1] = pair[1] /\ pair'[2] = pair[2] /\ pair'[3] = d
      /\ \A i \in 1 .. 2 : pair'[i] = pair[i]
  <2>1. pair' = Append(pair, d) /\ Len(pair) = 2 /\ pair \in Seq(Descriptors)
    OBVIOUS
  <2> QED BY ONLY <2>1, d \in Descriptors, AppendThird
<1>1. SocketTypeOK'
  BY <1>0, Fresh DEF Kinds, Calls, CallsExact
<1>2. MembersOpen' /\ PairOpen' /\ LostOpen'
  BY <1>0, Fresh DEF MembersOpen, PairOpen, LostOpen, Apart, CallsExact
<1>3. Apart'
  BY <1>0, Fresh DEF Apart, CallsExact
<1>4. CallsExact' /\ CountersExact'
  BY <1>0, Fresh DEF CallsExact, CountersExact, MembersOpen
<1>5. AllHeld'
  BY <1>0, Fresh DEF AllHeld, CallsExact
<1>6. WakeupsExact'
  BY <1>0, Fresh DEF WakeupsExact, Signalled, Apart, MembersOpen, CallsExact
<1> QED BY <1>1, <1>2, <1>3, <1>4, <1>5, <1>6

(* ... and the two objects take all of them with the second eventfd, ... *)
LEMMA PairReturnsStep ==
    ASSUME SocketInv, NEW d \in Descriptors, NEW s \in Sockets, NEW t \in Sockets,
           PairReturns(d, s, t)
    PROVE  SocketInv'
<1> USE SocketAssumption DEF SocketInv, SocketTypeOK, SocketKinds, kernelVars, memberVars,
        localVars, historyVars, PairReturns, Opens
<1>a. /\ Len(pair) = 3 /\ pair' = <<>> /\ Len(pair') = 0
      /\ 1 \in 1 .. Len(pair) /\ 2 \in 1 .. Len(pair) /\ 3 \in 1 .. Len(pair)
  OBVIOUS
<1>b. pair[1] \in Descriptors /\ pair[2] \in Descriptors /\ pair[3] \in Descriptors
  BY <1>a, ElementOfSeq
<1>c. /\ alive' = alive \cup {s, t}
      /\ fd' = [r \in Sockets |->
                  IF r = s THEN pair[1] ELSE IF r = t THEN pair[2] ELSE fd[r]]
      /\ wakeupFd' = [r \in Sockets |->
                  IF r = s THEN pair[3] ELSE IF r = t THEN d ELSE wakeupFd[r]]
  BY DEF Adopts
<1>1. SocketTypeOK'
  BY <1>a, <1>b, <1>c, Fresh DEF Kinds, Calls, CallsExact
<1>2. MembersOpen' /\ PairOpen' /\ LostOpen'
  BY <1>a, <1>b, <1>c, Fresh DEF MembersOpen, PairOpen, LostOpen, Apart, CallsExact
<1>3. Apart'
  BY <1>a, <1>b, <1>c, Fresh DEF Apart, CallsExact, PairOpen
<1>4. CallsExact' /\ CountersExact'
  BY <1>a, <1>b, <1>c, Fresh DEF CallsExact, CountersExact, MembersOpen
<1>5. AllHeld'
  <2> SUFFICES ASSUME NEW x \in Descriptors, kind'[x] \in SocketKinds \cup {"event"}
               PROVE  \/ \E r \in Sockets : x \in {fd'[r], wakeupFd'[r], accepted'[r]}
                      \/ x \in lostFds
    BY DEF AllHeld
  <2>1. CASE x \in {d, pair[1], pair[2], pair[3]} BY <1>c, <2>1
  <2>2. CASE x \notin {d, pair[1], pair[2], pair[3]}
    BY <1>a, <1>c, <2>2, SMTT(30) DEF AllHeld, CallsExact
  <2> QED BY <2>1, <2>2
<1>6. WakeupsExact'
  BY <1>a, <1>b, <1>c, Fresh DEF WakeupsExact, Signalled, PairOpen, CallsExact
<1> QED BY <1>1, <1>2, <1>3, <1>4, <1>5, <1>6

(* ... or everything opened so far is closed. *)
LEMMA PairFailsStep ==
    ASSUME SocketInv, PairFails
    PROVE  SocketInv'
<1> USE SocketAssumption DEF SocketInv, SocketTypeOK, SocketKinds, kernelVars, memberVars,
        localVars, historyVars, PairFails, Closes
<1>1. SocketTypeOK'
  BY DEF Kinds, Calls, CallsExact
<1>2. MembersOpen' /\ PairOpen' /\ LostOpen'
  <2>1. MembersOpen' BY DEF MembersOpen, Apart
  <2>2. PairOpen' BY DEF PairOpen
  <2>3. LostOpen' BY DEF LostOpen, PairOpen
  <2> QED BY <2>1, <2>2, <2>3
<1>3. Apart'
  BY DEF Apart, CallsExact
<1>4. CallsExact' /\ CountersExact'
  BY DEF CallsExact, CountersExact, MembersOpen
<1>5. AllHeld'
  BY DEF AllHeld, CallsExact
<1>6. WakeupsExact'
  BY DEF WakeupsExact, Signalled, Apart, MembersOpen, CallsExact
<1> QED BY <1>1, <1>2, <1>3, <1>4, <1>5, <1>6

(* close() frees the socket and keeps the eventfd. *)
LEMMA CloseStep ==
    ASSUME SocketInv, NEW s \in Sockets, Close(s)
    PROVE  SocketInv'
<1> USE SocketAssumption DEF SocketInv, SocketTypeOK, SocketKinds, kernelVars, memberVars,
        localVars, historyVars, Close, Closes, SocketIdle
<1>1. SocketTypeOK'
  BY DEF Kinds, Calls, CallsExact
<1>2. MembersOpen' /\ PairOpen' /\ LostOpen'
  BY DEF MembersOpen, PairOpen, LostOpen, Apart, CallsExact
<1>3. Apart'
  BY DEF Apart, CallsExact
<1>4. CallsExact' /\ CountersExact'
  BY DEF CallsExact, CountersExact, MembersOpen
<1>5. AllHeld'
  BY DEF AllHeld, CallsExact
<1>6. WakeupsExact'
  BY DEF WakeupsExact, Signalled, Apart, MembersOpen, CallsExact
<1> QED BY <1>1, <1>2, <1>3, <1>4, <1>5, <1>6

(* The destructor frees both. *)
LEMMA DestroyStep ==
    ASSUME SocketInv, NEW s \in Sockets, Destroy(s)
    PROVE  SocketInv'
<1> USE SocketAssumption DEF SocketInv, SocketTypeOK, SocketKinds, kernelVars, memberVars,
        localVars, historyVars, Destroy, Closes, SocketIdle
<1>1. SocketTypeOK'
  BY DEF Kinds, Calls, CallsExact
<1>2. MembersOpen' /\ PairOpen' /\ LostOpen'
  BY DEF MembersOpen, PairOpen, LostOpen, Apart, CallsExact
<1>3. Apart'
  BY DEF Apart, CallsExact
<1>4. CallsExact' /\ CountersExact'
  BY DEF CallsExact, CountersExact, MembersOpen
<1>5. AllHeld'
  BY DEF AllHeld, CallsExact
<1>6. WakeupsExact'
  BY DEF WakeupsExact, Signalled, Apart, MembersOpen, CallsExact
<1> QED BY <1>1, <1>2, <1>3, <1>4, <1>5, <1>6

(* wakeup() counts up an eventfd that is the own one of the socket. *)
LEMMA WakeupStep ==
    ASSUME SocketInv, NEW s \in Sockets, WakeupSocket(s)
    PROVE  SocketInv'
<1> USE SocketAssumption DEF SocketInv, SocketTypeOK, SocketKinds, kernelVars, memberVars,
        localVars, historyVars, WakeupSocket
<1>1. SocketTypeOK'
  BY DEF Kinds, Calls, CallsExact
<1>2. MembersOpen' /\ PairOpen' /\ LostOpen'
  BY DEF MembersOpen, PairOpen, LostOpen, Apart, CallsExact
<1>3. Apart'
  BY DEF Apart, CallsExact
<1>4. CallsExact' /\ CountersExact'
  BY DEF CallsExact, CountersExact, MembersOpen
<1>5. AllHeld'
  BY DEF AllHeld, CallsExact
<1>6. WakeupsExact'
  BY DEF WakeupsExact, Signalled, Apart, MembersOpen, CallsExact
<1> QED BY <1>1, <1>2, <1>3, <1>4, <1>5, <1>6

(* poll() takes the wakeups of its own eventfd only. *)
LEMMA PollConsumesStep ==
    ASSUME SocketInv, NEW s \in Sockets, PollConsumes(s)
    PROVE  SocketInv'
<1> USE SocketAssumption DEF SocketInv, SocketTypeOK, SocketKinds, kernelVars, memberVars,
        localVars, historyVars, PollConsumes, SocketGoto
<1>1. SocketTypeOK'
  BY DEF Kinds, Calls, CallsExact
<1>2. MembersOpen' /\ PairOpen' /\ LostOpen'
  BY DEF MembersOpen, PairOpen, LostOpen, Apart, CallsExact
<1>3. Apart'
  BY DEF Apart, CallsExact
<1>4. CallsExact' /\ CountersExact'
  BY DEF CallsExact, CountersExact, MembersOpen
<1>5. AllHeld'
  BY DEF AllHeld, CallsExact
<1>6. WakeupsExact'
  BY DEF WakeupsExact, Signalled, Apart, MembersOpen, CallsExact
<1> QED BY <1>1, <1>2, <1>3, <1>4, <1>5, <1>6

(* The steps that open, close and count nothing. *)
LEMMA CallStep ==
    ASSUME SocketInv, NEW s \in Sockets,
           \/ Construct(s) \/ AddressFails(s) \/ PollBegins(s)
           \/ PollReturns(s) \/ PollInterrupted(s) \/ PollWoken(s)
    PROVE  SocketInv'
<1> USE SocketAssumption DEF SocketInv, SocketTypeOK, SocketKinds, kernelVars, memberVars,
        localVars, historyVars, Construct, AddressFails, PollBegins, PollReturns, PollInterrupted,
        PollWoken, SocketGoto, SocketIdle
<1>1. SocketTypeOK'
  BY DEF Kinds, Calls, CallsExact
<1>2. MembersOpen' /\ PairOpen' /\ LostOpen'
  BY DEF MembersOpen, PairOpen, LostOpen, Apart, CallsExact
<1>3. Apart'
  BY DEF Apart, CallsExact
<1>4. CallsExact' /\ CountersExact'
  <2>1. CallsExact' BY DEF CallsExact, Signalled
  <2>2. CountersExact' BY DEF CountersExact
  <2> QED BY <2>1, <2>2
<1>5. AllHeld'
  BY DEF AllHeld, CallsExact
<1>6. WakeupsExact'
  BY DEF WakeupsExact, Signalled, Apart, MembersOpen, CallsExact
<1> QED BY <1>1, <1>2, <1>3, <1>4, <1>5, <1>6

(* Every step keeps the inductive invariant. *)
LEMMA NextSocketInv == SocketInv /\ [SocketNext]_socketVars => SocketInv'
<1> SUFFICES ASSUME SocketInv, [SocketNext]_socketVars PROVE SocketInv'
  OBVIOUS
<1>1. CASE Opening
  <2> PICK d \in Descriptors :
        \/ ForeignOpen(d) \/ PairEvent(d)
        \/ \E s \in Sockets :
              \/ CreateSocket(s, d) \/ CreateEvent(s, d) \/ AcceptClient(s, d)
              \/ \E n \in Sockets : AcceptReturns(s, d, n) \/ PairReturns(d, s, n)
        \/ \E e \in Descriptors : PairSockets(d, e)
    BY <1>1 DEF Opening
  <2> QED BY ForeignOpenStep, PairEventStep, CreateSocketStep, CreateEventStep,
             AcceptClientStep, AcceptReturnsStep, PairReturnsStep, PairSocketsStep
<1>2. CASE Closing
  BY <1>2, ForeignCloseStep, CreateSocketFailsStep, CreateEventFailsStep, CallStep,
     AcceptFailsStep, CloseStep, DestroyStep, PairFailsStep DEF Closing
<1>3. ASSUME NEW s \in Sockets,
             \/ Construct(s) \/ Bind(s) \/ Connect(s) \/ Listen(s)
             \/ WakeupSocket(s) \/ Poll(s)
             \/ PollBegins(s) \/ PollReturns(s) \/ PollInterrupted(s)
      PROVE  SocketInv'
  BY <1>3, CallStep, BecomesStep, WakeupStep, PollConsumesStep DEF Poll
<1>4. CASE UNCHANGED socketVars
  <2> USE <1>4 DEF SocketInv, socketVars, kernelVars, memberVars, localVars, historyVars
  <2>1. SocketTypeOK' BY DEF SocketTypeOK
  <2>2. MembersOpen' /\ PairOpen' /\ LostOpen' BY DEF MembersOpen, PairOpen, LostOpen
  <2>3. Apart' BY DEF Apart
  <2>4. CallsExact' /\ CountersExact' BY DEF CallsExact, CountersExact
  <2>5. AllHeld' BY DEF AllHeld
  <2>6. WakeupsExact' BY DEF WakeupsExact, Signalled
  <2> QED BY <2>1, <2>2, <2>3, <2>4, <2>5, <2>6
<1> QED BY <1>1, <1>2, <1>3, <1>4 DEF SocketNext

(* The inductive invariant holds in every reachable state. *)
THEOREM SocketInvariance == SocketSpec => []SocketInv
  BY InitSocketInv, NextSocketInv, PTL DEF SocketSpec

(* The members and locals of every socket stay in their types. *)
THEOREM SocketTypeCorrect == SocketSpec => []SocketTypeOK
<1>1. SocketInv => SocketTypeOK BY DEF SocketInv
<1> QED BY <1>1, SocketInvariance, PTL

(* The invariant says of the sets of held descriptors what DescriptorsOwned *)
(* asks.                                                                    *)
LEMMA InvDescriptorsOwned == SocketInv => DescriptorsOwned
<1> SUFFICES ASSUME SocketInv PROVE DescriptorsOwned
  OBVIOUS
<1>1. HeldAreOwn
  <2> SUFFICES ASSUME NEW s \in Sockets
               PROVE  /\ fd[s] # NoFd => kind[fd[s]] \in SocketKinds
                      /\ wakeupFd[s] # NoFd => kind[wakeupFd[s]] = "event"
                      /\ Held(s) \cap (lostFds \cup PairHeld) = {}
                      /\ \A t \in Sockets \ {s} : Held(s) \cap Held(t) = {}
    BY DEF HeldAreOwn
  <2>1. /\ fd[s] # NoFd => kind[fd[s]] \in SocketKinds
        /\ wakeupFd[s] # NoFd => kind[wakeupFd[s]] = "event"
    BY DEF SocketInv, MembersOpen
  <2>2. Held(s) \cap (lostFds \cup PairHeld) = {}
    BY DEF SocketInv, Apart, Held, PairHeld
  <2>3. \A t \in Sockets \ {s} : Held(s) \cap Held(t) = {}
    BY DEF SocketInv, Apart, Held
  <2> QED BY <2>1, <2>2, <2>3
<1>2. NoneLeaked
  <2> SUFFICES ASSUME NEW d \in Descriptors, kind[d] \in SocketKinds \cup {"event"}
               PROVE  d \in HeldByAny \cup lostFds
    BY DEF NoneLeaked
  <2>1. d # NoFd BY SocketAssumption
  <2>2. ASSUME NEW s \in Sockets, d \in {fd[s], wakeupFd[s], accepted[s]}
        PROVE  d \in HeldByAny
    <3>1. d \in Held(s) BY <2>1, <2>2 DEF Held
    <3> QED BY <3>1 DEF HeldByAny
  <2>3. ASSUME NEW i \in 1 .. Len(pair), d = pair[i]
        PROVE  d \in HeldByAny
    <3>1. d \in PairHeld BY <2>3 DEF PairHeld
    <3> QED BY <3>1 DEF HeldByAny
  <2> QED BY <2>2, <2>3 DEF SocketInv, AllHeld
<1> QED BY <1>1, <1>2 DEF DescriptorsOwned

(* For any number of sockets that create, accept, pair, fail and are       *)
(* destroyed while the kernel gives freed numbers out again, a socket      *)
(* object holds only descriptors that are open and its own, and none is    *)
(* left open that nobody holds.                                            *)
THEOREM DescriptorsOwnedHolds == SocketSpec => []DescriptorsOwned
  BY SocketInvariance, InvDescriptorsOwned, PTL

(* poll() reports a wakeup() exactly once, whichever thread calls it and   *)
(* at whatever moment.                                                     *)
THEOREM WakeupsExactHolds == SocketSpec => []WakeupsExact
<1>1. SocketInv => WakeupsExact BY DEF SocketInv
<1> QED BY <1>1, SocketInvariance, PTL
=============================================================================
