--------------------------- MODULE SocketTransfer ---------------------------
(***************************************************************************)
(* What passes through a PosixSocket and what its calls tell about it: a   *)
(* writer in one process uses write() or sendTo(), a reader in another one *)
(* read(), receiveFrom() and error(), as in the socket tests.  What a      *)
(* result means depends on the type of the sockets and on whether they     *)
(* block.  Bytes are numbered in the order in which they are written.      *)
(***************************************************************************)
EXTENDS Integers, Sequences

CONSTANTS
    MaxBytes,   \* bound: how many bytes are written
    MaxBuffer,  \* the largest buffer given to a call
    MaxEmpty,   \* bound: how many empty datagrams are written
    MaxErrors   \* bound: errors of the socket, and refused sends

ASSUME TransferAssumption == {MaxBytes, MaxBuffer, MaxEmpty, MaxErrors} \subseteq Nat

Failed == -1   \* the result is an error
Pending == -2  \* nothing was returned yet

(* PosixSocket::Type, and the type of socket that the kernel is asked for *)
Types == {"Stream", "Datagram", "SequencedPacket", "Raw"}

MapType(t) ==
    CASE t = "Stream" -> "SOCK_STREAM"
      [] t = "Datagram" -> "SOCK_DGRAM"
      [] t = "SequencedPacket" -> "SOCK_SEQPACKET"
      [] t = "Raw" -> "SOCK_RAW"

VARIABLES
    socketType,   \* _type of both sockets
    nonBlocking,  \* _nonBlocking of the reader
    written,      \* how many bytes the kernel has accepted
    inKernel,     \* the datagrams, or pieces of the stream, <<first, last>>
    empties,      \* how many of the datagrams written were empty
    received,     \* the byte numbers that were stored for the reader
    buffer,       \* the size of the buffer last given to receiveFrom() ...
    result,       \* ... and what it returned
    writing,      \* the writer's socket is open
    socketError,  \* kernel: the socket of the reader has an error to tell
    refused,      \* history: how often ::sendto failed
    raised, told  \* history: errors of the socket, and those told the reader

options == <<socketType, nonBlocking>>
transferData == <<written, inKernel, empties, received, writing>>
answers == <<buffer, result>>
errorVars == <<socketError, raised, told>>
transferVars == <<options, transferData, answers, refused, errorVars>>

TransferInit ==
    /\ socketType \in Types
    /\ nonBlocking \in BOOLEAN
    /\ written = 0
    /\ inKernel = <<>>
    /\ empties = 0
    /\ received = <<>>
    /\ buffer = 0 /\ result = Pending
    /\ writing = TRUE
    /\ socketError = FALSE
    /\ refused = 0
    /\ raised = 0 /\ told = 0

(* What is not a stream keeps its boundaries ... *)
Datagrams == MapType(socketType) # "SOCK_STREAM"

(* ... and what has a connection has an end. *)
HasEnd == MapType(socketType) \in {"SOCK_STREAM", "SOCK_SEQPACKET"}

Numbers(piece) == [i \in 1 .. piece[2] - piece[1] + 1 |-> piece[1] + i - 1]

Least(m, n) == IF m < n THEN m ELSE n

-----------------------------------------------------------------------------
(* The writer *)

(* The kernel takes bytes; of none it makes an empty datagram.             *)
Takes(bytes) ==
    /\ writing
    /\ written + bytes <= MaxBytes
    /\ written' = written + bytes
    /\ inKernel' = Append(inKernel, <<written + 1, written + bytes>>)
    /\ IF bytes = 0 THEN empties < MaxEmpty /\ empties' = empties + 1
                    ELSE UNCHANGED empties
    /\ UNCHANGED <<options, received, writing, answers, refused, errorVars>>

(* write() gives the kernel a buffer; of a stream it may take a part, and  *)
(* an empty one leaves a stream as it is.                                  *)
WriteBuffer(size, taken) ==
    /\ IF Datagrams THEN taken = size ELSE 0 < taken /\ taken <= size
    /\ Takes(taken)

(* sendTo(), for a raw socket and an adapter that is found; otherwise it   *)
(* returns an error.  When ::sendto fails, its -1 is returned as a number  *)
(* of bytes and not as an error: nothing is said of what sendTo() returns. *)
SendTo(size) ==
    /\ socketType = "Raw"
    /\ \/ Takes(size)
       \/ /\ writing
          /\ refused < MaxErrors
          /\ refused' = refused + 1
          /\ UNCHANGED <<options, transferData, answers, errorVars>>

CloseWriter ==
    /\ writing
    /\ writing' = FALSE
    /\ UNCHANGED <<options, written, inKernel, empties, received, answers, refused, errorVars>>

-----------------------------------------------------------------------------
(* The reader *)

Returns(size, value) == buffer' = size /\ result' = value

(* receiveFrom() with something to read: of a datagram what the buffer has *)
(* no room for is dropped by the kernel, of a stream it stays.             *)
ReceivePiece(size) ==
    /\ inKernel # <<>>
    /\ LET piece == Head(inKernel)
           n == Least(size, piece[2] - piece[1] + 1)
           rest == <<piece[1] + n, piece[2]>>
       IN  /\ received' = received \o Numbers(<<piece[1], piece[1] + n - 1>>)
           /\ inKernel' = IF Datagrams \/ rest[1] > rest[2] THEN Tail(inKernel)
                          ELSE <<rest>> \o Tail(inKernel)
           /\ Returns(size, n)
    /\ UNCHANGED <<options, written, empties, writing, refused, errorVars>>

(* The connection has ended: ::recvfrom returns 0. *)
ReceiveEnd(size) ==
    /\ inKernel = <<>>
    /\ ~writing /\ HasEnd
    /\ Returns(size, 0)
    /\ UNCHANGED <<options, transferData, refused, errorVars>>

(* Mutant of ReceiveNothing: the read is done with MSG_DONTWAIT always. *)
ReceiveNothing_Always(size) ==
    /\ inKernel = <<>>
    /\ writing \/ ~HasEnd
    /\ Returns(size, 0)
    /\ UNCHANGED <<options, transferData, refused, errorVars>>

(* There is nothing yet: a blocking read waits, the other gets EAGAIN and  *)
(* returns 0 without an error.                                             *)
ReceiveNothing(size) ==
    /\ inKernel = <<>>
    /\ writing \/ ~HasEnd
    /\ nonBlocking
    /\ Returns(size, 0)
    /\ UNCHANGED <<options, transferData, refused, errorVars>>

(* The network fails. *)
RaiseError ==
    /\ ~socketError /\ raised < MaxErrors
    /\ socketError' = TRUE
    /\ raised' = raised + 1
    /\ UNCHANGED <<options, transferData, answers, refused, told>>

(* The kernel tells an error of the socket to one call. *)
TellsError ==
    /\ socketError' = FALSE
    /\ told' = told + IF socketError THEN 1 ELSE 0
    /\ UNCHANGED raised

(* ::recvfrom fails, for the error of the socket or for a signal. *)
ReceiveFails(size) ==
    /\ Returns(size, Failed)
    /\ TellsError \/ UNCHANGED errorVars
    /\ UNCHANGED <<options, transferData, refused>>

(* error() *)
SocketErrorRead ==
    /\ TellsError
    /\ UNCHANGED <<options, transferData, answers, refused>>

TransferNext ==
    \/ \E size \in 0 .. MaxBuffer :
          \/ \E taken \in 0 .. size : WriteBuffer(size, taken)
          \/ SendTo(size)
          \/ ReceivePiece(size) \/ ReceiveEnd(size) \/ ReceiveNothing(size)
          \/ ReceiveFails(size)
    \/ CloseWriter \/ RaiseError \/ SocketErrorRead

-----------------------------------------------------------------------------
(* The reader gets the bytes in order and once, and of a stream all of     *)
(* them.  When a blocking read() with room for a byte returns 0, the       *)
(* writer is closed and nothing is left, unless the sockets carry          *)
(* datagrams and an empty one was written: of a stream 0 means the end and *)
(* nothing else.  An error of the socket is told once.                     *)
TransferExact ==
    /\ \A i, j \in 1 .. Len(received) : i < j => received[i] < received[j]
    /\ ~Datagrams => /\ \A i \in 1 .. Len(received) : received[i] = i
                     /\ inKernel = <<>> => Len(received) = written
    /\ result = 0 /\ buffer > 0 /\ ~nonBlocking =>
          (~writing /\ inKernel = <<>>) \/ (Datagrams /\ empties > 0)
    /\ told + (IF socketError THEN 1 ELSE 0) = raised
=============================================================================
