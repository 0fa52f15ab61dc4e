----------------------- MODULE WebSocketClientProofs -----------------------
(***************************************************************************)
(* Safety of one WebSocket connection for every set of sending threads and *)
(* any number of messages, packets and fragments.                          *)
(*                                                                         *)
(* PacketsExact is inductive once the lists are known to be sequences.     *)
(* ReceivedWhole is not: what the next fragment completes depends on what  *)
(* is buffered and on the fragments that are still in the network.  They   *)
(* follow one another (FragmentsFollow) from the one that the buffer waits *)
(* for (BufferExact), and "receive" is an event of a connection that has   *)
(* some (ReadyExact).                                                      *)
(***************************************************************************)
EXTENDS WebSocketClient, SequenceTheorems, TLAPS

(* A thread that pushes has begun a message and not pushed all of it. *)
PushingExact ==
    \A t \in WebSocketThreads : call[t] = "pushing" => current[t] >= 1 /\ next[t] <= size[t]

ReadyExact == "receive" \in ready => inbox # <<>>

TypeInv == WebSocketTypeOK /\ PushingExact /\ ReadyExact

(* The first j fragments of message m *)
Whole(m, j) == [i \in 1 .. j |-> <<m, i>>]

(* The fragment after x *)
After(x) == IF x[2] < sizes[x[1]] THEN <<x[1], x[2] + 1>> ELSE <<x[1] + 1, 1>>

(* A fragment of a message that was sent *)
IsFragment(x) == x[1] \in 1 .. Len(sizes) /\ x[2] \in 1 .. sizes[x[1]]

(* The buffer holds the beginning of the first message that is not yet     *)
(* delivered; the network has the next fragment first.                     *)
BufferExact ==
    LET d == Len(delivered)
        b == Len(m_receiveBuffer)
    IN  /\ m_receiveBuffer = Whole(d + 1, b)
        /\ inbox # <<>> => inbox[1] = <<d + 1, b + 1>>
        /\ inbox = <<>> => d = Len(sizes) /\ b = 0

FragmentsFollow ==
    /\ \A i \in 1 .. Len(inbox) : IsFragment(inbox[i])
    /\ \A i \in 1 .. Len(inbox) - 1 : inbox[i + 1] = After(inbox[i])
    /\ inbox # <<>> => inbox[Len(inbox)] = <<Len(sizes), sizes[Len(sizes)]>>

DeliveredWhole ==
    /\ Len(delivered) <= Len(sizes)
    /\ \A i \in 1 .. Len(delivered) : delivered[i] = Whole(i, sizes[i])

ReceiveInv == BufferExact /\ FragmentsFollow /\ DeliveredWhole

-----------------------------------------------------------------------------
(* Types *)

(* The initial state has its types. *)
LEMMA InitTypeInv == WebSocketInit => TypeInv
<1> SUFFICES ASSUME WebSocketInit PROVE TypeInv
  OBVIOUS
<1>1. WebSocketTypeOK
  <2>1. /\ m_sendList \in Seq(Packet) /\ packet \in Seq(Packet) /\ Len(packet) <= 1
        /\ pushed \in Seq(Packet) /\ written \in Seq(Packet)
    BY DEF WebSocketInit
  <2>2. /\ inbox \in Seq(Fragments) /\ m_receiveBuffer \in Seq(Fragments)
        /\ sizes \in Seq(1 .. MaxPackets) /\ delivered \in Seq(Seq(Fragments))
    BY DEF WebSocketInit
  <2>3. /\ current \in [WebSocketThreads -> 0 .. MaxSends] /\ size \in [WebSocketThreads -> 0 .. MaxPackets]
        /\ next \in [WebSocketThreads -> 1 .. MaxPackets + 1]
        /\ call \in [WebSocketThreads -> {"idle", "pushing", "cancelling"}]
    BY WebSocketAssumption DEF WebSocketInit
  <2>4. /\ connection \in {"none", "open", "closed"} /\ ready \subseteq Events
        /\ service \in {"scan", "poll", "serve", "writing", "handler"}
        /\ service = "writing" <=> packet # <<>>
        /\ wantWritable \in BOOLEAN /\ cancelled \in BOOLEAN /\ hangup \in BOOLEAN
    BY DEF WebSocketInit
  <2> QED BY <2>1, <2>2, <2>3, <2>4 DEF WebSocketTypeOK
<1> QED BY <1>1 DEF WebSocketInit, TypeInv, PushingExact, ReadyExact

(* The steps of send() *)
LEMMA SendType ==
    ASSUME TypeInv, NEW t \in WebSocketThreads,
           (\E k \in 1 .. MaxPackets : SendBegins(t, k)) \/ Sends(t)
    PROVE  TypeInv'
<1> USE WebSocketAssumption DEF TypeInv, WebSocketTypeOK, PushingExact, ReadyExact
<1>1. ASSUME NEW k \in 1 .. MaxPackets, SendBegins(t, k) PROVE TypeInv'
  <2>1. /\ current' \in [WebSocketThreads -> 0 .. MaxSends] /\ size' \in [WebSocketThreads -> 0 .. MaxPackets]
        /\ next' \in [WebSocketThreads -> 1 .. MaxPackets + 1]
        /\ call' \in [WebSocketThreads -> {"idle", "pushing", "cancelling"}]
    BY <1>1, SMTT(30) DEF SendBegins
  <2>2. \A u \in WebSocketThreads : call'[u] = "pushing" => current'[u] >= 1 /\ next'[u] <= size'[u]
    BY <1>1, SMTT(30) DEF SendBegins
  <2> QED BY <1>1, <2>1, <2>2 DEF SendBegins, libraryVars, serviceVars, receiveVars, sendVars
<1>2. CASE Push(t)
  <2>1. /\ next[t] <= size[t] /\ current[t] \in 1 .. MaxSends
    BY <1>2 DEF Push
  <2>2. PacketOf(t) \in Packet BY <2>1 DEF PacketOf, Packet
  <2>3. m_sendList' \in Seq(Packet) /\ pushed' \in Seq(Packet) BY <1>2, <2>2 DEF Push
  <2>4. /\ next' \in [WebSocketThreads -> 1 .. MaxPackets + 1]
        /\ call' \in [WebSocketThreads -> {"idle", "pushing", "cancelling"}]
    <3>1. next[t] + 1 \in 1 .. MaxPackets + 1
      <4>1. next[t] \in 1 .. MaxPackets + 1 /\ size[t] \in 0 .. MaxPackets /\ MaxPackets \in Nat
        OBVIOUS
      <4> QED BY ONLY <2>1, <4>1
    <3>2. next' = [next EXCEPT ![t] = next[t] + 1] BY <1>2 DEF Push
    <3>3. next' \in [WebSocketThreads -> 1 .. MaxPackets + 1] BY <3>1, <3>2
    <3>4. call' \in [WebSocketThreads -> {"idle", "pushing", "cancelling"}] BY <1>2 DEF Push
    <3> QED BY <3>3, <3>4
  <2>5. ASSUME NEW u \in WebSocketThreads, call'[u] = "pushing"
        PROVE  current[u] >= 1 /\ next'[u] <= size[u]
    <3>1. CASE u = t
      <4>1. next[t] # size[t] /\ next'[t] = next[t] + 1 BY <1>2, <2>5, <3>1 DEF Push
      <4>2. next[t] \in Nat /\ size[t] \in Nat BY SMTT(30)
      <4>3. current[t] >= 1 /\ next[t] <= size[t] BY <2>1
      <4> QED BY ONLY <3>1, <4>1, <4>2, <4>3
    <3>2. CASE u # t BY <1>2, <2>5, <3>2 DEF Push
    <3> QED BY <3>1, <3>2
  <2> QED BY <1>2, <2>3, <2>4, <2>5 DEF Push, libraryVars, serviceVars, receiveVars
<1>3. CASE CancelService(t)
  BY <1>3 DEF CancelService, serviceVars, receiveVars, sendVars
<1> QED BY <1>1, <1>2, <1>3 DEF Sends

(* The rounds of the service thread *)
LEMMA ServiceType ==
    ASSUME TypeInv,
           Scan \/ PollReturns \/ PollTimesOut \/ ServiceReturns \/ Established
             \/ HandlerReturns \/ NothingToSend
    PROVE  TypeInv'
<1> USE DEF TypeInv, WebSocketTypeOK, PushingExact, ReadyExact, senderVars, libraryVars,
            receiveVars, sendVars
<1>1. CASE Scan BY <1>1 DEF Scan, HasDataToSend
<1>2. CASE PollReturns BY <1>2 DEF PollReturns, Pending
<1>3. CASE PollTimesOut BY <1>3 DEF PollTimesOut
<1>4. CASE ServiceReturns BY <1>4 DEF ServiceReturns
<1>5. CASE Established BY <1>5 DEF Established
<1>6. CASE HandlerReturns BY <1>6 DEF HandlerReturns
<1>7. CASE NothingToSend BY <1>7 DEF NothingToSend
<1> QED BY <1>1, <1>2, <1>3, <1>4, <1>5, <1>6, <1>7

(* A packet is taken from the list and written, or the connection is       *)
(* closed.                                                                 *)
LEMMA WriteType == ASSUME TypeInv, DataToSend \/ Write \/ Closed PROVE TypeInv'
<1>1. CASE DataToSend
  <2>1. m_sendList # <<>> BY <1>1 DEF DataToSend, HasDataToSend
  <2>2. Head(m_sendList) \in Packet /\ Tail(m_sendList) \in Seq(Packet)
    BY <2>1 DEF TypeInv, WebSocketTypeOK
  <2>3. packet' = <<Head(m_sendList)>> /\ m_sendList' = Tail(m_sendList) BY <1>1 DEF DataToSend
  <2>4. packet' \in Seq(Packet) /\ Len(packet') <= 1 /\ packet' # <<>> BY <2>2, <2>3
  <2>5. m_sendList' \in Seq(Packet) BY <2>2, <2>3
  <2>6. UNCHANGED <<senderVars, cancelled, connection, receiveVars, pushed, written>>
        /\ ready' = ready \ {"write"} /\ service' = "writing" /\ wantWritable' = FALSE
    BY <1>1 DEF DataToSend
  <2>7. WebSocketTypeOK'
    BY <2>4, <2>5, <2>6 DEF TypeInv, WebSocketTypeOK, senderVars, receiveVars
  <2>8. PushingExact' /\ ReadyExact'
    BY <2>6 DEF TypeInv, PushingExact, ReadyExact, senderVars, receiveVars
  <2> QED BY <2>7, <2>8 DEF TypeInv
<1>2. CASE Write
  <2>1. written' \in Seq(Packet) BY <1>2 DEF Write, TypeInv, WebSocketTypeOK
  <2>2. WebSocketTypeOK'
    BY <1>2, <2>1 DEF Write, HasDataToSend, TypeInv, WebSocketTypeOK, senderVars, receiveVars, sendVars
  <2>3. PushingExact' /\ ReadyExact'
    BY <1>2 DEF Write, TypeInv, PushingExact, ReadyExact, senderVars, receiveVars
  <2> QED BY <2>2, <2>3 DEF TypeInv
<1>3. CASE Closed
  <2>1. /\ m_sendList' = <<>> /\ pushed' = <<>> /\ written' = <<>> /\ packet' = <<>>
        /\ m_receiveBuffer' = <<>> /\ inbox' = <<>> /\ sizes' = <<>> /\ delivered' = <<>>
        /\ connection' = "closed" /\ service' = "serve" /\ ready' = {} /\ wantWritable' = FALSE
        /\ UNCHANGED <<senderVars, cancelled, hangup>>
    BY <1>3 DEF Closed
  <2>2. /\ m_sendList' \in Seq(Packet) /\ packet' \in Seq(Packet) /\ Len(packet') <= 1
        /\ pushed' \in Seq(Packet) /\ written' \in Seq(Packet)
    BY <2>1
  <2>3. /\ inbox' \in Seq(Fragments) /\ m_receiveBuffer' \in Seq(Fragments)
        /\ sizes' \in Seq(1 .. MaxPackets) /\ delivered' \in Seq(Seq(Fragments))
    BY <2>1
  <2>4. WebSocketTypeOK'
    BY <2>1, <2>2, <2>3 DEF TypeInv, WebSocketTypeOK, senderVars
  <2>5. PushingExact' /\ ReadyExact'
    BY <2>1 DEF TypeInv, PushingExact, ReadyExact, senderVars
  <2> QED BY <2>4, <2>5 DEF TypeInv
<1> QED BY <1>1, <1>2, <1>3

(* A fragment comes *)
LEMMA ReceiveType == ASSUME TypeInv, Receive PROVE TypeInv'
<1> USE DEF TypeInv, WebSocketTypeOK, PushingExact, ReadyExact
<1>1. inbox # <<>> /\ service = "serve" BY DEF Receive
<1>2. Head(inbox) \in Fragments /\ Tail(inbox) \in Seq(Fragments) BY <1>1
<1>3. Buffered \in Seq(Fragments) BY <1>2 DEF Buffered
<1>4. inbox' \in Seq(Fragments) /\ m_receiveBuffer' \in Seq(Fragments) /\ ready' \subseteq Events
      /\ "receive" \notin ready'
  BY <1>2, <1>3 DEF Receive
<1>5. delivered' \in Seq(Seq(Fragments)) /\ service' \in {"serve", "handler"}
  <2>1. CASE IsFinal
    <3>1. delivered' = Append(delivered, Buffered) /\ service' = "handler"
      BY <2>1 DEF Receive, HandleMessage
    <3>2. delivered \in Seq(Seq(Fragments)) OBVIOUS
    <3> QED BY ONLY <1>3, <3>1, <3>2
  <2>2. CASE ~IsFinal BY <1>1, <2>2 DEF Receive
  <2> QED BY <2>1, <2>2
<1> QED BY <1>1, <1>4, <1>5 DEF Receive, senderVars, libraryVars, sendVars

(* The peer *)
LEMMA PeerType ==
    ASSUME TypeInv, (\E k \in 1 .. MaxPackets : PeerSends(k)) \/ PeerCloses
    PROVE  TypeInv'
<1> USE WebSocketAssumption DEF TypeInv, WebSocketTypeOK, PushingExact, ReadyExact
<1>1. ASSUME NEW k \in 1 .. MaxPackets, PeerSends(k) PROVE TypeInv'
  <2> DEFINE more == [j \in 1 .. k |-> <<Len(sizes) + 1, j>>]
  <2>1. Len(sizes) + 1 \in 1 .. MaxReceived BY <1>1 DEF PeerSends
  <2>2. k \in Nat /\ \A j \in 1 .. k : j \in 1 .. MaxPackets OBVIOUS
  <2>3. more \in Seq(Fragments) BY <2>1, <2>2, SMTT(30) DEF Fragments
  <2>4. Len(more) = k /\ k >= 1 BY <2>2
  <2>5. inbox' = inbox \o more BY <1>1 DEF PeerSends
  <2> HIDE DEF more
  <2>6. inbox' \in Seq(Fragments) /\ inbox' # <<>> BY <2>2, <2>3, <2>4, <2>5
  <2>7. sizes' \in Seq(1 .. MaxPackets) BY <1>1 DEF PeerSends
  <2> QED BY <1>1, <2>6, <2>7 DEF PeerSends, senderVars, libraryVars, serviceVars, sendVars
<1>2. CASE PeerCloses
  BY <1>2 DEF PeerCloses, senderVars, libraryVars, serviceVars, sendVars
<1> QED BY <1>1, <1>2

(* Every step of the connection keeps the types. *)
LEMMA NextTypeInv == TypeInv /\ [WebSocketNext]_webSocketVars => TypeInv'
<1> SUFFICES ASSUME TypeInv, [WebSocketNext]_webSocketVars PROVE TypeInv'
  OBVIOUS
<1>1. CASE UNCHANGED webSocketVars
  BY <1>1 DEF TypeInv, WebSocketTypeOK, PushingExact, ReadyExact, webSocketVars, senderVars,
              libraryVars, serviceVars, receiveVars, sendVars
<1> QED BY <1>1, SendType, ServiceType, WriteType, ReceiveType, PeerType
        DEF WebSocketNext, Serves, Callbacks

(* The state of a connection has its types, for every number of threads,   *)
(* messages, packets and fragments.                                        *)
THEOREM WebSocketTypeCorrect == WebSocketSpec => []WebSocketTypeOK
<1>1. TypeInv => WebSocketTypeOK BY DEF TypeInv
<1> QED BY <1>1, InitTypeInv, NextTypeInv, PTL DEF WebSocketSpec

-----------------------------------------------------------------------------
(* What is sent *)

(* Every step keeps the packets in their order. *)
LEMMA NextPackets ==
    TypeInv /\ PacketsExact /\ [WebSocketNext]_webSocketVars => PacketsExact'
<1> SUFFICES ASSUME TypeInv, PacketsExact, [WebSocketNext]_webSocketVars PROVE PacketsExact'
  OBVIOUS
<1>1. /\ written \in Seq(Packet) /\ packet \in Seq(Packet) /\ Len(packet) <= 1
      /\ m_sendList \in Seq(Packet) /\ pushed \in Seq(Packet)
      /\ service = "writing" <=> packet # <<>>
  BY DEF TypeInv, WebSocketTypeOK
<1>2. ASSUME UNCHANGED <<written, packet, m_sendList, pushed>> PROVE PacketsExact'
  BY <1>2 DEF PacketsExact
<1>3. ASSUME NEW t \in WebSocketThreads, Push(t) PROVE PacketsExact'
  <2> DEFINE p == PacketOf(t)
  <2>1. /\ m_sendList' = Append(m_sendList, p) /\ pushed' = Append(pushed, p)
        /\ written' = written /\ packet' = packet
    BY <1>3 DEF Push, serviceVars
  <2>2. p \in Packet
    <3>1. current[t] \in 1 .. MaxSends
      BY <1>3, WebSocketAssumption DEF Push, TypeInv, WebSocketTypeOK, PushingExact
    <3> QED BY <3>1 DEF PacketOf, Packet
  <2> HIDE DEF p
  <2>3. written \o packet \in Seq(Packet) BY <1>1
  <2>4. (written \o packet) \o Append(m_sendList, p) = Append((written \o packet) \o m_sendList, p)
    BY <1>1, <2>2, <2>3
  <2> QED BY <2>1, <2>4 DEF PacketsExact
<1>4. CASE DataToSend
  <2>1. /\ m_sendList # <<>> /\ packet' = <<Head(m_sendList)>>
        /\ m_sendList' = Tail(m_sendList) /\ UNCHANGED <<written, pushed>>
        /\ service = "serve"
    BY <1>4 DEF DataToSend, HasDataToSend
  <2>2. packet = <<>> BY <1>1, <2>1
  <2>3. <<Head(m_sendList)>> \in Seq(Packet) /\ Tail(m_sendList) \in Seq(Packet)
    BY <1>1, <2>1
  <2>4. (written \o <<Head(m_sendList)>>) \o Tail(m_sendList) = (written \o <<>>) \o m_sendList
    BY <1>1, <2>1, <2>3
  <2> QED BY <2>1, <2>2, <2>4 DEF PacketsExact
<1>5. CASE Write
  <2>1. /\ written' = written \o packet /\ packet' = <<>>
        /\ UNCHANGED <<m_sendList, pushed>>
    BY <1>5 DEF Write, sendVars
  <2>2. (written \o packet) \o <<>> = written \o packet BY <1>1
  <2> QED BY <2>1, <2>2 DEF PacketsExact
<1>6. CASE Closed BY <1>6 DEF Closed, PacketsExact
<1>7. ASSUME NEW t \in WebSocketThreads,
             (\E k \in 1 .. MaxPackets : SendBegins(t, k)) \/ CancelService(t)
      PROVE  UNCHANGED <<written, packet, m_sendList, pushed>>
  BY <1>7 DEF SendBegins, CancelService, serviceVars, sendVars
<1>8. ASSUME \/ Scan \/ PollReturns \/ PollTimesOut \/ ServiceReturns \/ Established
             \/ HandlerReturns \/ NothingToSend \/ Receive \/ PeerCloses
             \/ \E k \in 1 .. MaxPackets : PeerSends(k)
             \/ UNCHANGED webSocketVars
      PROVE  UNCHANGED <<written, packet, m_sendList, pushed>>
  BY <1>8 DEF Scan, PollReturns, PollTimesOut, ServiceReturns, Established, HandlerReturns,
              NothingToSend, Receive, PeerCloses, PeerSends, webSocketVars, serviceVars, sendVars
<1> QED BY <1>2, <1>3, <1>4, <1>5, <1>6, <1>7, <1>8 DEF WebSocketNext, Sends, Serves, Callbacks

(* Every packet that send() pushed is written once and in order, however   *)
(* the threads that send and the service thread interleave.                *)
THEOREM PacketsExactHolds == WebSocketSpec => []PacketsExact
<1>1. WebSocketInit => PacketsExact BY DEF WebSocketInit, PacketsExact
<1> QED BY <1>1, InitTypeInv, NextTypeInv, NextPackets, PTL DEF WebSocketSpec

-----------------------------------------------------------------------------
(* What is received *)

(* A prefix of a message, one fragment longer *)
LEMMA OneMore ==
    ASSUME NEW m \in Nat, NEW j \in Nat
    PROVE  /\ Whole(m, j) \in Seq(Nat \X Nat) /\ Len(Whole(m, j)) = j
           /\ Append(Whole(m, j), <<m, j + 1>>) = Whole(m, j + 1)
<1>1. \A n \in Nat : Whole(m, n) \in Seq(Nat \X Nat) /\ Len(Whole(m, n)) = n
  BY DEF Whole
<1> DEFINE w == Whole(m, j)
           e == <<m, j + 1>>
           s == Append(w, e)
           t == Whole(m, j + 1)
<1>0. w \in Seq(Nat \X Nat) /\ Len(w) = j /\ e \in Nat \X Nat
  <2>1. w \in Seq(Nat \X Nat) /\ Len(w) = j BY <1>1
  <2>2. j + 1 \in Nat OBVIOUS
  <2>3. e \in Nat \X Nat BY <2>2
  <2> QED BY <2>1, <2>3
<1> HIDE DEF w, e
<1>2. s \in Seq(Nat \X Nat) /\ Len(s) = j + 1 BY <1>0
<1>3. t \in Seq(Nat \X Nat) /\ Len(t) = j + 1 BY <1>1
<1>4. \A i \in 1 .. j + 1 : t[i] = <<m, i>> BY DEF Whole
<1>5. \A i \in 1 .. j : s[i] = <<m, i>>
  <2>1. \A i \in 1 .. j : w[i] = <<m, i>> BY DEF w, Whole
  <2>2. \A i \in 1 .. j : s[i] = w[i] BY <1>0
  <2> QED BY <2>1, <2>2
<1>6. s[j + 1] = <<m, j + 1>>
  <2>1. s[j + 1] = e BY <1>0
  <2> QED BY <2>1 DEF e
<1>7. \A i \in 1 .. j + 1 : i \in 1 .. j \/ i = j + 1 OBVIOUS
<1> HIDE DEF s, t
<1>8. \A i \in 1 .. Len(s) : s[i] = t[i] BY <1>2, <1>4, <1>5, <1>6, <1>7
<1>9. s = t BY ONLY <1>2, <1>3, <1>8, SeqEqual
<1> QED BY <1>1, <1>9 DEF s, t, w, e

(* Initially nothing was sent by the peer. *)
LEMMA InitReceiveInv == WebSocketInit => ReceiveInv
<1> SUFFICES ASSUME WebSocketInit PROVE ReceiveInv
  OBVIOUS
<1>1. /\ inbox = <<>> /\ m_receiveBuffer = <<>> /\ sizes = <<>> /\ delivered = <<>>
  BY DEF WebSocketInit
<1>2. Whole(1, 0) = <<>> BY OneMore
<1>3. BufferExact BY <1>1, <1>2 DEF BufferExact
<1>4. FragmentsFollow BY <1>1 DEF FragmentsFollow
<1>5. DeliveredWhole BY <1>1 DEF DeliveredWhole
<1> QED BY <1>3, <1>4, <1>5 DEF ReceiveInv

(* The connection is closed: the histories end. *)
LEMMA ClosedReceive == Closed => ReceiveInv'
<1> SUFFICES ASSUME Closed PROVE ReceiveInv'
  OBVIOUS
<1>1. /\ inbox' = <<>> /\ m_receiveBuffer' = <<>> /\ sizes' = <<>> /\ delivered' = <<>>
  BY DEF Closed
<1>2. Whole(1, 0) = <<>> BY OneMore
<1>3. BufferExact' BY <1>1, <1>2 DEF BufferExact, Whole
<1>4. FragmentsFollow' BY <1>1 DEF FragmentsFollow
<1>5. DeliveredWhole' BY <1>1 DEF DeliveredWhole
<1> QED BY <1>3, <1>4, <1>5 DEF ReceiveInv

(* The numbers that the two steps below compute with *)
LEMMA ReceiveTypes ==
    ASSUME TypeInv
    PROVE  /\ sizes \in Seq(Nat \ {0}) /\ delivered \in Seq(Seq(Nat \X Nat))
           /\ inbox \in Seq(Nat \X Nat) /\ m_receiveBuffer \in Seq(Nat \X Nat)
<1>1. \A n \in 1 .. MaxPackets : n \in Nat \ {0} BY WebSocketAssumption
<1>2. \A x \in Fragments : x \in Nat \X Nat BY WebSocketAssumption DEF Fragments
<1> DEFINE S == 1 .. MaxPackets
           N == Nat \ {0}
<1>3. Seq(S) \subseteq Seq(N)
  <2>1. \A x \in S : x \in N BY <1>1
  <2> HIDE DEF S, N
  <2> QED BY <2>1
<1>4. Seq(Fragments) \subseteq Seq(Nat \X Nat) BY <1>2
<1>5. Seq(Seq(Fragments)) \subseteq Seq(Seq(Nat \X Nat)) BY <1>4
<1> QED BY <1>3, <1>4, <1>5 DEF TypeInv, WebSocketTypeOK

(* The peer sends a message of k fragments: they come after those that are *)
(* in the network.                                                         *)
LEMMA PeerSendsReceive ==
    ASSUME TypeInv, ReceiveInv, NEW k \in 1 .. MaxPackets, PeerSends(k)
    PROVE  ReceiveInv'
<1> DEFINE S == Len(sizes)
           I == Len(inbox)
           d == Len(delivered)
           b == Len(m_receiveBuffer)
           more == [j \in 1 .. k |-> <<S + 1, j>>]
<1>1. /\ sizes \in Seq(Nat \ {0}) /\ delivered \in Seq(Seq(Nat \X Nat))
      /\ inbox \in Seq(Nat \X Nat) /\ m_receiveBuffer \in Seq(Nat \X Nat)
  BY ReceiveTypes
<1>2. S \in Nat /\ I \in Nat /\ d \in Nat /\ b \in Nat /\ k \in Nat \ {0}
  BY <1>1, WebSocketAssumption
<1>3. sizes' = Append(sizes, k) /\ inbox' = inbox \o more
      /\ UNCHANGED <<m_receiveBuffer, delivered>>
  BY DEF PeerSends
<1>4. /\ Len(sizes') = S + 1 /\ sizes'[S + 1] = k
      /\ \A i \in 1 .. S : sizes'[i] = sizes[i] /\ sizes[i] \in Nat
  BY <1>1, <1>2, <1>3
<1>5. more \in Seq(Nat \X Nat) /\ Len(more) = k /\ \A j \in 1 .. k : more[j] = <<S + 1, j>>
  BY <1>2
<1> HIDE DEF more
<1>6. /\ Len(inbox') = I + k
      /\ \A i \in 1 .. I : inbox'[i] = inbox[i]
      /\ \A j \in 1 .. k : inbox'[I + j] = <<S + 1, j>>
  <2>1. Len(inbox') = I + k
    <3>1. Len(inbox \o more) = Len(inbox) + Len(more) BY ONLY <1>1, <1>5, ConcatProperties
    <3> QED BY <1>3, <1>5, <3>1
  <2>2. \A i \in 1 .. I : inbox'[i] = inbox[i] BY <1>1, <1>2, <1>3, <1>5
  <2>3. \A j \in 1 .. k : inbox'[I + j] = more[j] BY <1>1, <1>2, <1>3, <1>5
  <2> QED BY <1>5, <2>1, <2>2, <2>3
<1>7. \A i \in 1 .. I : /\ inbox[i] \in Nat \X Nat
                        /\ inbox[i][1] \in 1 .. S /\ inbox[i][2] \in 1 .. sizes[inbox[i][1]]
  BY <1>1, SMTT(30) DEF ReceiveInv, FragmentsFollow, IsFragment
<1>8. \A i \in 1 .. I + k : i \in 1 .. I \/ \E j \in 1 .. k : i = I + j
  <2> SUFFICES ASSUME NEW i \in 1 .. I + k, i \notin 1 .. I PROVE \E j \in 1 .. k : i = I + j
    OBVIOUS
  <2>1. i - I \in 1 .. k /\ i = I + (i - I) BY <1>2
  <2> QED BY <2>1
<1> HIDE DEF S, I, d, b
<1>9. BufferExact'
  <2>1. m_receiveBuffer = Whole(d + 1, b)
        /\ (inbox # <<>> => inbox[1] = <<d + 1, b + 1>>) /\ (inbox = <<>> => d = S /\ b = 0)
    BY DEF ReceiveInv, BufferExact, S, d, b
  <2>2. inbox'[1] = <<d + 1, b + 1>>
    <3>1. CASE inbox = <<>>
      <4>1. I = 0 BY <3>1 DEF I
      <4>2. inbox'[I + 1] = <<S + 1, 1>> BY <1>2, <1>6
      <4> QED BY <2>1, <3>1, <4>1, <4>2
    <3>2. CASE inbox # <<>>
      <4>1. 1 \in 1 .. I BY <1>1, <1>2, <3>2 DEF I
      <4> QED BY <1>6, <2>1, <3>2, <4>1
    <3> QED BY <3>1, <3>2
  <2>3. Len(inbox') # 0 BY <1>2, <1>6
  <2>4. inbox' # <<>> BY <2>3
  <2>5. d' = d /\ b' = b BY <1>3 DEF d, b
  <2>6. Whole(d + 1, b)' = Whole(d + 1, b) BY <2>5 DEF Whole
  <2> QED BY <1>3, <2>1, <2>2, <2>4, <2>5, <2>6 DEF BufferExact, d, b
<1>10. \A i \in 1 .. I + k : /\ inbox'[i][1] \in 1 .. S + 1
                             /\ inbox'[i][2] \in 1 .. sizes'[inbox'[i][1]]
  <2>1. ASSUME NEW i \in 1 .. I
        PROVE  /\ inbox'[i][1] \in 1 .. S + 1 /\ inbox'[i][2] \in 1 .. sizes'[inbox'[i][1]]
    <3>1. inbox'[i] = inbox[i] BY <1>6
    <3>2. inbox[i][1] \in 1 .. S BY <1>7
    <3>3. sizes'[inbox[i][1]] = sizes[inbox[i][1]] BY <1>4, <3>2
    <3>4. inbox[i][1] \in 1 .. S + 1 BY <1>2, <3>2
    <3> QED BY <1>7, <3>1, <3>3, <3>4
  <2>2. ASSUME NEW j \in 1 .. k
        PROVE  /\ inbox'[I + j][1] \in 1 .. S + 1 /\ inbox'[I + j][2] \in 1 .. sizes'[inbox'[I + j][1]]
    <3>1. inbox'[I + j][1] = S + 1 /\ inbox'[I + j][2] = j BY <1>6
    <3>2. S + 1 \in 1 .. S + 1 BY <1>2
    <3> QED BY <1>4, <3>1, <3>2
  <2> QED BY <1>8, <2>1, <2>2
<1>12. ASSUME NEW i \in 1 .. I + k - 1
       PROVE  LET x == inbox'[i]
              IN  inbox'[i + 1] = IF x[2] < sizes'[x[1]] THEN <<x[1], x[2] + 1>> ELSE <<x[1] + 1, 1>>
  <2> DEFINE x == inbox'[i]
  <2>0. i \in Nat /\ i >= 1 BY <1>2
  <2>1. CASE i < I
    <3>1. i \in 1 .. I /\ i + 1 \in 1 .. I /\ i \in 1 .. I - 1 BY <1>2, <2>0, <2>1
    <3>2. inbox[i + 1] = After(inbox[i]) BY <3>1 DEF ReceiveInv, FragmentsFollow, I
    <3>3. x = inbox[i] /\ inbox'[i + 1] = inbox[i + 1] BY <1>6, <3>1
    <3>4. sizes'[inbox[i][1]] = sizes[inbox[i][1]] BY <1>4, <1>7, <3>1
    <3> QED BY <3>2, <3>3, <3>4 DEF After
  <2>2. CASE i = I
    <3>1. i \in 1 .. I /\ 1 \in 1 .. k BY <1>2, <2>0, <2>2
    <3>2. inbox # <<>> BY <3>1 DEF I
    <3>3. inbox[I] = <<S, sizes[S]>> BY <3>2 DEF ReceiveInv, FragmentsFollow, I, S
    <3>4. x = <<S, sizes[S]>> BY <1>6, <2>2, <3>1, <3>3
    <3>5. S \in 1 .. S BY <1>7, <2>2, <3>1, <3>3
    <3>6. sizes'[S] = sizes[S] /\ sizes[S] \in Nat BY <1>4, <3>5
    <3>7. inbox'[i + 1] = <<S + 1, 1>> BY <1>6, <2>2, <3>1
    <3> HIDE DEF x
    <3>8. x[1] = S /\ x[2] = sizes[S] /\ ~(x[2] < sizes'[x[1]]) BY <3>4, <3>6
    <3> QED BY <3>7, <3>8 DEF x
  <2>3. CASE i > I
    <3> DEFINE j == i - I
    <3>1. j \in 1 .. k /\ j + 1 \in 1 .. k /\ i = I + j /\ i + 1 = I + (j + 1) /\ j < k
      BY <1>2, <2>0, <2>3
    <3> HIDE DEF j
    <3>2. x = <<S + 1, j>> /\ inbox'[i + 1] = <<S + 1, j + 1>> BY <1>6, <3>1
    <3> HIDE DEF x
    <3>3. x[1] = S + 1 /\ x[2] = j /\ x[2] < sizes'[x[1]] BY <1>4, <3>1, <3>2
    <3> QED BY <3>2, <3>3 DEF x
  <2> QED BY <1>2, <2>0, <2>1, <2>2, <2>3
<1>13. inbox'[I + k] = <<S + 1, k>>
  <2>1. k \in 1 .. k BY <1>2
  <2> QED BY <1>6, <2>1
<1>14. FragmentsFollow'
  <2>1. \A i \in 1 .. Len(inbox') : IsFragment(inbox[i])' BY <1>4, <1>6, <1>10 DEF IsFragment
  <2>2. ASSUME NEW i \in 1 .. Len(inbox') - 1 PROVE inbox'[i + 1] = After(inbox[i])'
    <3>1. i \in 1 .. I + k - 1 BY <1>2, <1>6
    <3> QED BY <1>12, <3>1 DEF After
  <2>3. inbox'[Len(inbox')] = <<Len(sizes'), sizes'[Len(sizes')]>> BY <1>4, <1>6, <1>13
  <2> QED BY <2>1, <2>2, <2>3 DEF FragmentsFollow
<1>15. DeliveredWhole'
  <2>1. d <= S /\ \A i \in 1 .. d : delivered[i] = Whole(i, sizes[i])
    BY DEF ReceiveInv, DeliveredWhole, d, S
  <2>2. \A i \in 1 .. d : i \in 1 .. S BY <1>2, <2>1
  <2>3. d <= S + 1 BY <1>2, <2>1
  <2>4. \A i \in 1 .. d : delivered'[i] = Whole(i, sizes'[i]) BY <1>3, <1>4, <2>1, <2>2
  <2> QED BY <1>3, <1>4, <2>3, <2>4 DEF DeliveredWhole, Whole, d
<1> QED BY <1>9, <1>14, <1>15 DEF ReceiveInv

(* A fragment comes: it is the one the buffer waits for, and completes the *)
(* message when it is the last of it.                                      *)
LEMMA ReceiveReceive == ASSUME TypeInv, ReceiveInv, Receive PROVE ReceiveInv'
<1> DEFINE S == Len(sizes)
           I == Len(inbox)
           d == Len(delivered)
           b == Len(m_receiveBuffer)
<1>1. /\ sizes \in Seq(Nat \ {0}) /\ delivered \in Seq(Seq(Nat \X Nat))
      /\ inbox \in Seq(Nat \X Nat) /\ m_receiveBuffer \in Seq(Nat \X Nat)
  BY ReceiveTypes
<1>2. S \in Nat /\ I \in Nat /\ d \in Nat /\ b \in Nat BY <1>1
<1>3. /\ inbox' = Tail(inbox) /\ sizes' = sizes /\ inbox # <<>>
      /\ m_receiveBuffer' = IF IsFinal THEN <<>> ELSE Buffered
      /\ IF IsFinal THEN delivered' = Append(delivered, Buffered) ELSE delivered' = delivered
  BY DEF Receive, HandleMessage, TypeInv, ReadyExact
<1>4. I >= 1 /\ 1 \in 1 .. I /\ I \in 1 .. I BY <1>1, <1>2, <1>3
<1>5. /\ Len(inbox') = I - 1
      /\ \A i \in 1 .. I - 1 : inbox'[i] = inbox[i + 1]
  BY <1>1, <1>3, <1>4
<1>6. Head(inbox) = <<d + 1, b + 1>> /\ inbox[1] = <<d + 1, b + 1>>
      /\ m_receiveBuffer = Whole(d + 1, b)
  BY <1>1, <1>3 DEF ReceiveInv, BufferExact
<1>7. d + 1 \in 1 .. S /\ b + 1 \in 1 .. sizes[d + 1] /\ sizes[d + 1] \in Nat
  <2>1. IsFragment(inbox[1]) BY <1>4 DEF ReceiveInv, FragmentsFollow
  <2>2. d + 1 \in 1 .. S /\ b + 1 \in 1 .. sizes[d + 1] BY <1>6, <2>1 DEF IsFragment
  <2> QED BY <1>1, <2>2
<1>8. Buffered = Whole(d + 1, b + 1)
  <2>1. Buffered = Append(Whole(d + 1, b), <<d + 1, b + 1>>) BY <1>6 DEF Buffered
  <2>2. d + 1 \in Nat BY <1>2
  <2> HIDE DEF d, b
  <2> QED BY <1>2, <2>1, <2>2, OneMore
<1>9. IsFinal <=> b + 1 = sizes[d + 1] BY <1>6 DEF IsFinal
<1>10. I = 1 => d + 1 = S /\ b + 1 = sizes[S]
  <2>1. inbox[I] = <<S, sizes[S]>> BY <1>3 DEF ReceiveInv, FragmentsFollow
  <2> QED BY <1>6, <2>1
<1>11. I > 1 => inbox'[1] = IF b + 1 < sizes[d + 1] THEN <<d + 1, b + 2>> ELSE <<d + 2, 1>>
  <2> SUFFICES ASSUME I > 1
               PROVE  inbox'[1] = IF b + 1 < sizes[d + 1] THEN <<d + 1, b + 2>> ELSE <<d + 2, 1>>
    OBVIOUS
  <2>1. 1 \in 1 .. I - 1 BY <1>2
  <2>2. inbox[1 + 1] = After(inbox[1]) BY <2>1 DEF ReceiveInv, FragmentsFollow
  <2>3. inbox'[1] = After(inbox[1]) BY <1>5, <2>1, <2>2
  <2>4. d + 1 + 1 = d + 2 /\ b + 1 + 1 = b + 2 BY <1>2
  <2> QED BY <1>6, <2>3, <2>4 DEF After
<1>12. inbox' = <<>> <=> I = 1
  <2>1. inbox' \in Seq(Nat \X Nat) BY <1>1, <1>3
  <2>2. inbox' = <<>> <=> Len(inbox') = 0 BY <2>1
  <2> QED BY <1>2, <1>5, <2>2
<1>13. \A m \in Nat : Whole(m, 0) = <<>> /\ \A j \in Nat : Len(Whole(m, j)) = j
  <2>1. ASSUME NEW m \in Nat, NEW j \in Nat
        PROVE  Whole(m, j) \in Seq(Nat \X Nat) /\ Len(Whole(m, j)) = j
    BY OneMore
  <2>2. \A m \in Nat : Whole(m, 0) = <<>> BY <2>1
  <2> QED BY <2>1, <2>2
<1> HIDE DEF S, I, d, b
<1>14. BufferExact' /\ DeliveredWhole'
  <2>1. d <= S /\ \A i \in 1 .. d : delivered[i] = Whole(i, sizes[i])
    BY DEF ReceiveInv, DeliveredWhole, d, S
  <2>2. CASE IsFinal
    <3>1. m_receiveBuffer' = <<>> /\ delivered' = Append(delivered, Whole(d + 1, sizes[d + 1]))
      BY <1>3, <1>8, <1>9, <2>2
    <3>2. Len(m_receiveBuffer') = 0 BY <3>1
    <3>3. Whole(d + 1, sizes[d + 1]) \in Seq(Nat \X Nat)
      <4>1. d + 1 \in Nat BY <1>2
      <4> QED BY <1>7, <4>1, OneMore
    <3>4. /\ Len(delivered') = d + 1
          /\ \A i \in 1 .. d : delivered'[i] = delivered[i]
          /\ delivered'[d + 1] = Whole(d + 1, sizes[d + 1])
      <4> DEFINE w == Whole(d + 1, sizes[d + 1])
      <4> HIDE DEF w
      <4>1. w \in Seq(Nat \X Nat) /\ delivered' = Append(delivered, w) BY <3>1, <3>3 DEF w
      <4>2. /\ Len(delivered') = d + 1
            /\ \A i \in 1 .. d : delivered'[i] = delivered[i]
            /\ delivered'[d + 1] = w
        BY <1>1, <1>2, <4>1 DEF d
      <4> QED BY <4>2 DEF w
    <3>5. m_receiveBuffer' = Whole(d + 1 + 1, 0)
      <4>1. d + 1 + 1 \in Nat BY <1>2
      <4> QED BY <1>13, <3>1, <4>1
    <3>6. inbox' # <<>> => inbox'[1] = <<d + 1 + 1, 0 + 1>>
      <4>1. ~(b + 1 < sizes[d + 1]) BY <1>2, <1>7, <1>9, <2>2
      <4>2. d + 1 + 1 = d + 2 /\ 0 + 1 = 1 BY <1>2
      <4>3. inbox' # <<>> => I > 1 BY <1>2, <1>4, <1>12
      <4> QED BY <1>11, <4>1, <4>2, <4>3
    <3>7. inbox' = <<>> => d + 1 = S BY <1>10, <1>12
    <3>8. BufferExact'
      BY <1>3, <3>2, <3>4, <3>5, <3>6, <3>7, SMTT(30) DEF BufferExact, Whole, S
    <3>9. d + 1 <= S BY <1>2, <1>7
    <3>10. \A i \in 1 .. d + 1 : i \in 1 .. d \/ i = d + 1 BY <1>2
    <3>11. \A i \in 1 .. d + 1 : delivered'[i] = Whole(i, sizes[i]) BY <2>1, <3>4, <3>10
    <3>12. DeliveredWhole' BY <1>3, <3>4, <3>9, <3>11 DEF DeliveredWhole, Whole, S
    <3> QED BY <3>8, <3>12
  <2>3. CASE ~IsFinal
    <3>1. m_receiveBuffer' = Whole(d + 1, b + 1) /\ delivered' = delivered
      BY <1>3, <1>8, <2>3
    <3>2. Len(m_receiveBuffer') = b + 1 /\ Len(delivered') = d
      <4>1. d + 1 \in Nat /\ b + 1 \in Nat BY <1>2
      <4>2. Len(Whole(d + 1, b + 1)) = b + 1 BY <1>13, <4>1
      <4> QED BY <3>1, <4>2 DEF d
    <3>3. b + 1 < sizes[d + 1] BY <1>2, <1>7, <1>9, <2>3
    <3>4. I # 1 BY <1>10, <3>3, <1>2
    <3>5. I > 1 /\ inbox' # <<>> BY <1>2, <1>4, <1>12, <3>4
    <3>6. inbox'[1] = <<d + 1, b + 1 + 1>>
      <4>1. b + 1 + 1 = b + 2 BY <1>2
      <4> QED BY <1>11, <3>3, <3>5, <4>1
    <3>7. BufferExact' BY <3>1, <3>2, <3>5, <3>6 DEF BufferExact, Whole
    <3>8. DeliveredWhole' BY <1>3, <2>1, <3>1 DEF DeliveredWhole, Whole, d, S
    <3> QED BY <3>7, <3>8
  <2> QED BY <2>2, <2>3
<1>15. FragmentsFollow'
  <2>1. \A i \in 1 .. I - 1 : i + 1 \in 1 .. I BY <1>2
  <2>2. \A i \in 1 .. Len(inbox') : IsFragment(inbox[i])'
    <3>1. \A i \in 1 .. I : IsFragment(inbox[i]) BY DEF ReceiveInv, FragmentsFollow, I
    <3> QED BY <1>3, <1>5, <2>1, <3>1 DEF IsFragment
  <2>3. ASSUME NEW i \in 1 .. Len(inbox') - 1 PROVE inbox'[i + 1] = After(inbox[i])'
    <3>1. i \in 1 .. I - 1 /\ i + 1 \in 1 .. I - 1 BY <1>2, <1>5
    <3>2. inbox[i + 1 + 1] = After(inbox[i + 1]) BY <3>1 DEF ReceiveInv, FragmentsFollow, I
    <3> QED BY <1>3, <1>5, <3>1, <3>2 DEF After
  <2>4. inbox' # <<>> => inbox'[Len(inbox')] = <<Len(sizes'), sizes'[Len(sizes')]>>
    <3> SUFFICES ASSUME inbox' # <<>> PROVE inbox'[I - 1] = <<S, sizes[S]>>
      BY <1>3, <1>5 DEF S
    <3>1. I - 1 \in 1 .. I - 1 /\ I - 1 + 1 = I BY <1>2, <1>4, <1>12
    <3>2. inbox[I] = <<S, sizes[S]>> BY <1>3 DEF ReceiveInv, FragmentsFollow, I, S
    <3> QED BY <1>5, <3>1, <3>2
  <2> QED BY <2>2, <2>3, <2>4 DEF FragmentsFollow
<1> QED BY <1>14, <1>15 DEF ReceiveInv

(* Every step of the connection keeps the fragments in their order. *)
LEMMA NextReceiveInv ==
    TypeInv /\ ReceiveInv /\ [WebSocketNext]_webSocketVars => ReceiveInv'
<1> SUFFICES ASSUME TypeInv, ReceiveInv, [WebSocketNext]_webSocketVars PROVE ReceiveInv'
  OBVIOUS
<1>1. ASSUME UNCHANGED <<inbox, m_receiveBuffer, sizes, delivered>> PROVE ReceiveInv'
  BY <1>1 DEF ReceiveInv, BufferExact, FragmentsFollow, DeliveredWhole, IsFragment, After, Whole
<1>2. ASSUME NEW t \in WebSocketThreads,
             (\E k \in 1 .. MaxPackets : SendBegins(t, k)) \/ Sends(t)
      PROVE  UNCHANGED <<inbox, m_receiveBuffer, sizes, delivered>>
  BY <1>2 DEF SendBegins, Sends, Push, CancelService, receiveVars
<1>3. ASSUME \/ Scan \/ PollReturns \/ PollTimesOut \/ ServiceReturns \/ Established
             \/ HandlerReturns \/ NothingToSend \/ DataToSend \/ Write \/ PeerCloses
             \/ UNCHANGED webSocketVars
      PROVE  UNCHANGED <<inbox, m_receiveBuffer, sizes, delivered>>
  BY <1>3 DEF Scan, PollReturns, PollTimesOut, ServiceReturns, Established, HandlerReturns,
              NothingToSend, DataToSend, Write, PeerCloses, webSocketVars, receiveVars
<1> QED BY <1>1, <1>2, <1>3, ClosedReceive, PeerSendsReceive, ReceiveReceive
        DEF WebSocketNext, Serves, Callbacks

(* The handlers are given whole messages of the peer, each once and in     *)
(* order, however the fragments of several messages arrive.                *)
THEOREM ReceivedWholeHolds == WebSocketSpec => []ReceivedWhole
<1>1. ReceiveInv => ReceivedWhole
  BY DEF ReceiveInv, DeliveredWhole, Whole, ReceivedWhole
<1> QED BY <1>1, InitTypeInv, NextTypeInv, InitReceiveInv, NextReceiveInv, PTL DEF WebSocketSpec
=============================================================================
