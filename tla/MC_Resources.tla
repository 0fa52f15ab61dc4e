---------------------------- MODULE MC_Resources ----------------------------
(***************************************************************************)
(* Small instances of the classes that wrap a resource (a libwebsockets    *)
(* context, descriptors, a connection to SQLite, counted buffers, a clock) *)
(* and of the string functions.  They share no state: a behaviour uses one *)
(* of them, chosen at the beginning.                                       *)
(***************************************************************************)
EXTENDS WebSocketServer, SocketTransfer, PosixFile, PosixPipe,
        SqliteDatabase, Image, Lut, Stopwatch, StringUtils, Thread

CONSTANT owner
MCCallers == {owner}
MCIntervals == {0}
MCElapsed == {0, 1}
MCRows == {<<>>, <<"x">>, <<"x", "y">>, <<"y", "z">>, <<"x", SqlNull>>}
MCSizes == {<<2, 2>>}
MCFormats == {<<1, 16>>, <<2, 8>>}
MCRois == {<<1, 0, 2, 2>>, <<0, 1, 1, 2>>}

VARIABLE uses  \* what the behaviour uses

Uses == {"server", "transfer", "file", "pipe", "sqlite", "image", "lut",
         "stopwatch", "strings", "priority"}

allVars == <<uses, everything, transferVars, fileVars, pipeVars,
             sqliteVars, imageVars, lutVars, stopwatchVars, stringVars,
             priorityVars>>

MCInit ==
    /\ uses \in Uses
    /\ ServerInit /\ TransferInit /\ FileInit /\ PipeInit
    /\ SqliteInit /\ ImageInit /\ LutInit /\ StopwatchInit /\ StringInit
    /\ PriorityInit
    /\ uses # "transfer" => socketType = "Stream" /\ ~nonBlocking
    /\ uses # "priority" => platform = "posix"

(* Everything but what is used is left alone. *)
Only(u) ==
    /\ uses = u
    /\ UNCHANGED uses
    /\ u # "server" => UNCHANGED everything
    /\ u # "transfer" => UNCHANGED transferVars
    /\ u # "file" => UNCHANGED fileVars
    /\ u # "pipe" => UNCHANGED pipeVars
    /\ u # "sqlite" => UNCHANGED sqliteVars
    /\ u # "image" => UNCHANGED imageVars
    /\ u # "lut" => UNCHANGED lutVars
    /\ u # "stopwatch" => UNCHANGED stopwatchVars
    /\ u # "strings" => UNCHANGED stringVars
    /\ u # "priority" => UNCHANGED priorityVars

(* The string functions have been called for the longest inputs, every     *)
(* pipe or database object is gone, or the program has crashed.            *)
Ended ==
    /\ \/ uses = "strings" /\ Len(text) = MaxText /\ Len(pattern) = MaxPattern
       \/ uses = "pipe" /\ \A o \in Pipes : phase[o] = "gone"
       \/ uses = "sqlite" /\ query \in {"gone", "crashed"}
    /\ UNCHANGED allVars

MCNext ==
    \/ Only("server") /\ ServerNext
    \/ Only("transfer") /\ TransferNext
    \/ Only("file") /\ FileNext
    \/ Only("pipe") /\ PipeNext
    \/ Only("sqlite") /\ SqliteNext
    \/ Only("image") /\ ImageNext
    \/ Only("lut") /\ LutNext
    \/ Only("stopwatch") /\ StopwatchNext
    \/ Only("strings") /\ StringNext
    \/ Only("priority") /\ PriorityNext
    \/ Ended

MCSpec == MCInit /\ [][MCNext]_allVars

-----------------------------------------------------------------------------
(* What stays open is exactly what the files, pipes, databases and servers *)
(* refer to, and what certain calls have left: an open() or init() over    *)
(* what the object had, a second spawn(), a create() of a database that    *)
(* fails, the destructor of a database.  The code lets go of no more than  *)
(* that; an object whose descriptor was not closed behind its back by a    *)
(* ::close that failed refers to what is its own; no context is destroyed  *)
(* twice.                                                                  *)
ResourcesOwned == FilesExact /\ EndsKnown /\ HandleExact /\ ContextsOwned

(* What the receiving calls of a socket and its error() return, and what   *)
(* setPriority() of the posix build returns, is what the system has done.  *)
(* Nothing is claimed of what sendTo() returns, a failure being a number   *)
(* of bytes there, nor of the Windows build.                               *)
ResultsTruthful == TransferExact /\ PriorityExact

(* What images and look-up tables share is deleted once, by its last       *)
(* owner.                                                                  *)
OwnersCounted == BuffersExact /\ TablesExact
=============================================================================
