-------------------------- MODULE WebSocketClient --------------------------
(***************************************************************************)
(* One WebSocket connection of katla::WebSocketServerLws: the client       *)
(* object (WebSocketServerClientLwsImpl), the threads that call send() on  *)
(* it, and the service thread that repeats work() and runs the callbacks   *)
(* of libwebsockets.                                                       *)
(*                                                                         *)
(* A message is chopped into packets, which are pushed one by one under    *)
(* m_mutex; a packet is what one lws_write sends.  The payload is left     *)
(* out.  The service thread is a sender too: handlers that it runs may     *)
(* call send().  The contract of the class is assumed: when the connection *)
(* is closed the other threads have left send() and call it no more.       *)
(***************************************************************************)
EXTENDS Naturals, Sequences, FiniteSets

CONSTANTS
    Senders,      \* the threads that call send() ...
    Service,      \* ... and the worker thread of the server
    MaxPackets,   \* bound: packets of a message, and fragments of a received one
    MaxSends,     \* bound: messages that each thread sends
    MaxReceived   \* bound: messages that the peer sends

WebSocketThreads == Senders \cup {Service}

ASSUME WebSocketAssumption ==
    /\ Service \notin Senders
    /\ MaxPackets \in Nat \ {0} /\ MaxSends \in Nat /\ MaxReceived \in Nat

VARIABLES
    connection,      \* "none", "open" or "closed"
    m_sendList,      \* packets to write
    current,         \* per thread: the number of its latest message
    size, next,      \* per thread: packets of that message, the next to push
    call,            \* per thread: "idle", "pushing" or "cancelling"
    service,         \* where the service thread is
    ready,           \* events that lws_service has still to handle
    packet,          \* the packet taken from m_sendList and not yet written
    wantWritable,    \* libwebsockets: a writable callback is asked for
    cancelled,       \* libwebsockets: lws_cancel_service was called
    inbox,           \* network: fragments from the peer
    hangup,          \* network: the peer has closed the connection
    m_receiveBuffer, \* fragments of a message that is not complete
    pushed, written, \* history: packets pushed and packets written
    sizes, delivered \* history: messages of the peer and what handlers were given

senderVars == <<current, size, next, call>>
libraryVars == <<wantWritable, cancelled>>
serviceVars == <<connection, service, ready, packet>>
receiveVars == <<inbox, hangup, m_receiveBuffer, sizes, delivered>>
sendVars == <<m_sendList, pushed>>
webSocketVars ==
    <<senderVars, libraryVars, serviceVars, receiveVars, sendVars, written>>

Packet == [from : WebSocketThreads, message : 1 .. MaxSends, isFirst : BOOLEAN, isFinal : BOOLEAN]
Events == {"cancel", "write", "receive", "close"}
Fragments == (1 .. MaxReceived) \X (1 .. MaxPackets)

(***************************************************************************)
(* The single type invariant of the module.                                *)
(***************************************************************************)
WebSocketTypeOK ==
    /\ connection \in {"none", "open", "closed"}
    /\ m_sendList \in Seq(Packet)
    /\ current \in [WebSocketThreads -> 0 .. MaxSends]
    /\ size \in [WebSocketThreads -> 0 .. MaxPackets]
    /\ next \in [WebSocketThreads -> 1 .. MaxPackets + 1]
    /\ call \in [WebSocketThreads -> {"idle", "pushing", "cancelling"}]
    /\ service \in {"scan", "poll", "serve", "writing", "handler"}
    /\ ready \subseteq Events
    /\ packet \in Seq(Packet) /\ Len(packet) <= 1
    /\ service = "writing" <=> packet # <<>>
    /\ wantWritable \in BOOLEAN /\ cancelled \in BOOLEAN
    /\ inbox \in Seq(Fragments) /\ m_receiveBuffer \in Seq(Fragments)
    /\ hangup \in BOOLEAN
    /\ pushed \in Seq(Packet) /\ written \in Seq(Packet)
    /\ sizes \in Seq(1 .. MaxPackets)
    /\ delivered \in Seq(Seq(Fragments))

WebSocketInit ==
    /\ connection = "none"
    /\ m_sendList = <<>> /\ pushed = <<>> /\ written = <<>> /\ packet = <<>>
    /\ current = [t \in WebSocketThreads |-> 0]
    /\ size = [t \in WebSocketThreads |-> 0]
    /\ next = [t \in WebSocketThreads |-> 1]
    /\ call = [t \in WebSocketThreads |-> "idle"]
    /\ service = "scan"
    /\ ready = {}
    /\ wantWritable = FALSE /\ cancelled = FALSE
    /\ inbox = <<>> /\ m_receiveBuffer = <<>> /\ hangup = FALSE
    /\ sizes = <<>> /\ delivered = <<>>

-----------------------------------------------------------------------------
(* send() by a thread, or by a handler that the service thread runs *)

MaySend(t) ==
    /\ connection = "open"
    /\ call[t] = "idle"
    /\ t = Service => service = "handler"

SendBegins(t, k) ==
    /\ MaySend(t)
    /\ current[t] < MaxSends
    /\ current' = [current EXCEPT ![t] = @ + 1]
    /\ size' = [size EXCEPT ![t] = k]
    /\ next' = [next EXCEPT ![t] = 1]
    /\ call' = [call EXCEPT ![t] = "pushing"]
    /\ UNCHANGED <<libraryVars, serviceVars, receiveVars, sendVars, written>>

PacketOf(t) ==
    [from |-> t, message |-> current[t],
     isFirst |-> next[t] = 1, isFinal |-> next[t] = size[t]]

(* One packet, under m_mutex. *)
Push(t) ==
    /\ call[t] = "pushing"
    /\ m_sendList' = Append(m_sendList, PacketOf(t))
    /\ pushed' = Append(pushed, PacketOf(t))
    /\ next' = [next EXCEPT ![t] = @ + 1]
    /\ call' = [call EXCEPT ![t] = IF next[t] = size[t] THEN "cancelling" ELSE "pushing"]
    /\ UNCHANGED <<current, size, libraryVars, serviceVars, receiveVars, written>>

CancelService(t) ==
    /\ call[t] = "cancelling"
    /\ cancelled' = TRUE
    /\ call' = [call EXCEPT ![t] = "idle"]
    /\ UNCHANGED <<current, size, next, wantWritable, serviceVars, receiveVars, sendVars, written>>

-----------------------------------------------------------------------------
HasDataToSend == m_sendList # <<>>

(* Mutant of Scan: the WebSocket clients are left out of the loops. *)
Scan_HttpOnly ==
    /\ service = "scan"
    /\ service' = "poll"
    /\ UNCHANGED <<senderVars, libraryVars, connection, ready, packet, receiveVars, sendVars, written>>

(* work(): asks for a writable callback where there is something to write, *)
(* then calls lws_service.                                                 *)
Scan ==
    /\ service = "scan"
    /\ wantWritable' = (wantWritable \/ (connection = "open" /\ HasDataToSend))
    /\ service' = "poll"
    /\ UNCHANGED <<senderVars, cancelled, connection, ready, packet, receiveVars, sendVars, written>>

(* lws_service returns after what is ready was handled; a peer that reads  *)
(* makes the socket writable.                                              *)
Pending ==
    {e \in Events :
        \/ e = "cancel" /\ cancelled
        \/ connection = "open" /\ \/ e = "write" /\ wantWritable
                                  \/ e = "receive" /\ inbox # <<>>
                                  \/ e = "close" /\ hangup /\ inbox = <<>>}

PollReturns ==
    /\ service = "poll"
    /\ Pending # {}
    /\ ready' = Pending \ {"cancel"}
    /\ cancelled' = FALSE
    /\ service' = "serve"
    /\ UNCHANGED <<senderVars, wantWritable, connection, packet, receiveVars, sendVars, written>>

(* The 100 ms are over. *)
PollTimesOut ==
    /\ service = "poll"
    /\ Pending = {}
    /\ service' = "scan"
    /\ UNCHANGED <<senderVars, libraryVars, connection, ready, packet, receiveVars, sendVars, written>>

ServiceReturns ==
    /\ service = "serve"
    /\ ready = {}
    /\ service' = "scan"
    /\ UNCHANGED <<senderVars, libraryVars, connection, ready, packet, receiveVars, sendVars, written>>

-----------------------------------------------------------------------------
(* The callbacks *)

(* LWS_CALLBACK_ESTABLISHED: the client object is made, the handlers of    *)
(* the url are run and then, as nothing can happen to it before, a         *)
(* writable callback is asked for.                                         *)
Established ==
    /\ service = "poll"
    /\ connection = "none"
    /\ connection' = "open"
    /\ wantWritable' = TRUE
    /\ service' = "handler"
    /\ UNCHANGED <<senderVars, cancelled, ready, packet, receiveVars, sendVars, written>>

HandlerReturns ==
    /\ service = "handler"
    /\ call[Service] = "idle"
    /\ service' = "serve"
    /\ UNCHANGED <<senderVars, libraryVars, connection, ready, packet, receiveVars, sendVars, written>>

(* LWS_CALLBACK_SERVER_WRITEABLE takes one packet, if there is one ...     *)
NothingToSend ==
    /\ service = "serve"
    /\ "write" \in ready
    /\ ~HasDataToSend
    /\ wantWritable' = FALSE
    /\ ready' = ready \ {"write"}
    /\ UNCHANGED <<senderVars, cancelled, connection, service, packet, receiveVars, sendVars, written>>

(* Mutant of DataToSend: the packet stays in the list. *)
DataToSend_Peeks ==
    /\ service = "serve"
    /\ "write" \in ready
    /\ HasDataToSend
    /\ packet' = <<Head(m_sendList)>>
    /\ wantWritable' = FALSE
    /\ ready' = ready \ {"write"}
    /\ service' = "writing"
    /\ UNCHANGED <<senderVars, cancelled, connection, receiveVars, sendVars, written>>

DataToSend ==
    /\ service = "serve"
    /\ "write" \in ready
    /\ HasDataToSend
    /\ packet' = <<Head(m_sendList)>>
    /\ m_sendList' = Tail(m_sendList)
    /\ wantWritable' = FALSE
    /\ ready' = ready \ {"write"}
    /\ service' = "writing"
    /\ UNCHANGED <<senderVars, cancelled, connection, receiveVars, pushed, written>>

(* ... writes it and asks for another callback if there is more.           *)
Write ==
    /\ service = "writing"
    /\ written' = written \o packet
    /\ packet' = <<>>
    /\ service' = "serve"
    /\ wantWritable' = HasDataToSend
    /\ UNCHANGED <<senderVars, cancelled, connection, ready, receiveVars, sendVars>>

(* LWS_CALLBACK_CLOSED, for a connection that the peer has closed or after *)
(* a failed write: the observers are told and the client is destroyed, and *)
(* its histories end.                                                      *)
Closed ==
    /\ \/ service = "serve" /\ "close" \in ready
       \/ service = "writing"
    /\ \A t \in Senders : call[t] = "idle"
    /\ connection' = "closed"
    /\ service' = "serve"
    /\ ready' = {}
    /\ packet' = <<>>
    /\ m_sendList' = <<>> /\ pushed' = <<>> /\ written' = <<>>
    /\ m_receiveBuffer' = <<>> /\ inbox' = <<>> /\ sizes' = <<>> /\ delivered' = <<>>
    /\ wantWritable' = FALSE
    /\ UNCHANGED <<senderVars, cancelled, hangup>>

Buffered == Append(m_receiveBuffer, Head(inbox))

(* lws_is_final_fragment *)
IsFinal == Head(inbox)[2] = sizes[Head(inbox)[1]]

(* The message handlers of the client are run with a whole message.        *)
HandleMessage(message) ==
    /\ delivered' = Append(delivered, message)
    /\ service' = "handler"

(* Mutant of Receive: message() does not empty the buffer. *)
Receive_KeepsBuffer ==
    /\ service = "serve"
    /\ "receive" \in ready
    /\ ready' = ready \ {"receive"}
    /\ inbox' = Tail(inbox)
    /\ m_receiveBuffer' = Buffered
    /\ IF IsFinal THEN HandleMessage(Buffered) ELSE UNCHANGED <<delivered, service>>
    /\ UNCHANGED <<senderVars, libraryVars, connection, packet, hangup, sizes, sendVars, written>>

(* LWS_CALLBACK_RECEIVE: a final fragment completes the message, which     *)
(* leaves the buffer before the handlers are run with it.                  *)
Receive ==
    /\ service = "serve"
    /\ "receive" \in ready
    /\ ready' = ready \ {"receive"}
    /\ inbox' = Tail(inbox)
    /\ m_receiveBuffer' = IF IsFinal THEN <<>> ELSE Buffered
    /\ IF IsFinal THEN HandleMessage(Buffered) ELSE UNCHANGED <<delivered, service>>
    /\ UNCHANGED <<senderVars, libraryVars, connection, packet, hangup, sizes, sendVars, written>>

-----------------------------------------------------------------------------
(* The peer *)

PeerSends(k) ==
    /\ connection = "open" /\ ~hangup
    /\ Len(sizes) < MaxReceived
    /\ sizes' = Append(sizes, k)
    /\ inbox' = inbox \o [j \in 1 .. k |-> <<Len(sizes) + 1, j>>]
    /\ UNCHANGED <<senderVars, libraryVars, serviceVars, hangup, m_receiveBuffer, delivered, sendVars, written>>

PeerCloses ==
    /\ connection = "open" /\ ~hangup
    /\ hangup' = TRUE
    /\ UNCHANGED <<senderVars, libraryVars, serviceVars, inbox, m_receiveBuffer, sizes, delivered, sendVars, written>>

-----------------------------------------------------------------------------
Sends(t) == Push(t) \/ CancelService(t)

Callbacks ==
    \/ HandlerReturns \/ NothingToSend \/ DataToSend \/ Write \/ Receive
    \/ service = "serve" /\ Closed

Serves == Scan \/ PollReturns \/ ServiceReturns \/ Callbacks

WebSocketNext ==
    \/ \E t \in WebSocketThreads : Sends(t) \/ \E k \in 1 .. MaxPackets : SendBegins(t, k)
    \/ Serves
    \/ PollTimesOut \/ Established
    \/ service = "writing" /\ Closed
    \/ \E k \in 1 .. MaxPackets : PeerSends(k)
    \/ PeerCloses

(* send() and the service thread are scheduled; nothing depends on the     *)
(* timeout of lws_service, on the peer or on new calls.                    *)
WebSocketFairness ==
    /\ \A t \in WebSocketThreads : WF_webSocketVars(Sends(t))
    /\ WF_webSocketVars(Serves)

WebSocketSpec == WebSocketInit /\ [][WebSocketNext]_webSocketVars /\ WebSocketFairness

-----------------------------------------------------------------------------
(* Every packet that send() pushed is written once, in the order in which  *)
(* the pushes happened.                                                    *)
PacketsExact == written \o packet \o m_sendList = pushed

(* A handler is given whole messages of the peer, each once, in order.     *)
ReceivedWhole ==
    \A i \in 1 .. Len(delivered) : delivered[i] = [j \in 1 .. sizes[i] |-> <<i, j>>]

(* What is pushed is written, unless the connection closes; the timeout of *)
(* lws_service is not needed.                                              *)
SentIsWritten ==
    \A n \in 1 .. MaxPackets * MaxSends * Cardinality(WebSocketThreads) :
        (Len(pushed) >= n) ~> (Len(written) >= n \/ connection = "closed")
=============================================================================
