----------------------------- MODULE PosixPipe -----------------------------
(***************************************************************************)
(* katla::PosixPipe as UvPosixProcess::spawn() uses it for the output of a *)
(* child: who holds the ends of a pipe.  fork() gives the child all the    *)
(* ends its parent has, of every pipe, and exec keeps them: a reader sees  *)
(* the end of the output when nobody holds the write end any more.         *)
(* Processes are spawned by one thread.                                    *)
(***************************************************************************)
EXTENDS Naturals

CONSTANTS
    Pipes,       \* objects of class PosixPipe, one in each process object
    MaxPipes,    \* bound: how many pipes the kernel opens
    MaxChildren  \* bound: how many children are forked

ASSUME PipeAssumption == {MaxPipes, MaxChildren} \subseteq Nat

Children == 1 .. MaxChildren
KernelPipes == 1 .. MaxPipes
Parent == 0
NoPipe == 0          \* an element of _fd is -1
Sides == {"read", "write"}

VARIABLES
    end,        \* _fd: the pipe whose end each object has, per side
    opened,     \* number of pipes opened
    holds,      \* kernel: <<process, pipe, side>>, who holds which end
    phase,      \* where each object is inside spawn(), or "gone"
    redirects,  \* the options of that spawn() ask for the output
    childOf,    \* the last child forked for each object, or Parent
    childState, \* where each child is
    output,     \* the pipe each child was given for its output, or NoPipe
    unread,     \* kernel: pipes that have output to read
    sawEnd,     \* history: pipes of which a read() has returned 0
    replaced    \* history: <<pipe, side>>, ends over which open() wrote others

objectVars == <<end, phase, redirects>>
childVars == <<childOf, childState, output>>
dataVars == <<unread, sawEnd>>
pipeVars == <<objectVars, opened, holds, childVars, dataVars, replaced>>

PipeInit ==
    /\ end = [o \in Pipes |-> [side \in Sides |-> NoPipe]]
    /\ opened = 0
    /\ holds = {}
    /\ phase = [o \in Pipes |-> "idle"]
    /\ redirects = [o \in Pipes |-> FALSE]
    /\ childOf = [o \in Pipes |-> Parent]
    /\ childState = [c \in Children |-> "none"]
    /\ output = [c \in Children |-> NoPipe]
    /\ unread = {} /\ sawEnd = {}
    /\ replaced = {}

(* The thread of the program is in no spawn(). *)
NobodySpawns == \A o \in Pipes : phase[o] \in {"idle", "gone"}

EndsOf(o) == {<<Parent, end[o][side], side>> : side \in Sides}

-----------------------------------------------------------------------------
(* spawn() *)

(* spawn() opens the pipe if it is asked for; if that fails it returns and *)
(* nothing has changed.  open() does not look at the ends it has.          *)
OpenPipe(o) ==
    /\ NobodySpawns /\ phase[o] = "idle"
    /\ opened < MaxPipes
    /\ opened' = opened + 1
    /\ end' = [end EXCEPT ![o] = [side \in Sides |-> opened']]
    /\ holds' = holds \cup {<<Parent, opened', side>> : side \in Sides}
    /\ replaced' = replaced \cup {<<end[o][side], side>> :
                                   side \in {x \in Sides : end[o][x] # NoPipe}}
    /\ phase' = [phase EXCEPT ![o] = "fork"]
    /\ redirects' = [redirects EXCEPT ![o] = TRUE]
    /\ UNCHANGED <<childVars, dataVars>>

SpawnPlain(o) ==
    /\ NobodySpawns /\ phase[o] = "idle"
    /\ phase' = [phase EXCEPT ![o] = "fork"]
    /\ redirects' = [redirects EXCEPT ![o] = FALSE]
    /\ UNCHANGED <<end, opened, holds, childVars, dataVars, replaced>>

(* The child, numbered in order, has what the parent has. *)
Fork(o, c) ==
    /\ phase[o] = "fork"
    /\ {k \in Children : childState[k] = "none"} = c .. MaxChildren
    /\ childState' = [childState EXCEPT ![c] = IF redirects[o] THEN "forked" ELSE "running"]
    /\ childOf' = [childOf EXCEPT ![o] = c]
    /\ output' = [output EXCEPT ![c] = IF redirects[o] THEN end[o]["write"] ELSE NoPipe]
    /\ holds' = holds \cup {<<c, h[2], h[3]>> : h \in {k \in holds : k[1] = Parent}}
    /\ phase' = [phase EXCEPT ![o] = "parent"]
    /\ UNCHANGED <<end, opened, redirects, dataVars, replaced>>

(* spawn() returns with both ends of its pipe. *)
ForkFails(o) ==
    /\ phase[o] = "fork"
    /\ phase' = [phase EXCEPT ![o] = "idle"]
    /\ UNCHANGED <<end, opened, holds, redirects, childVars, dataVars, replaced>>

(* Mutant of ParentCloseWrite: the parent keeps the write end. *)
ParentCloseWrite_Not(o) ==
    /\ phase[o] = "parent"
    /\ phase' = [phase EXCEPT ![o] = "idle"]
    /\ UNCHANGED <<end, opened, holds, redirects, childVars, dataVars, replaced>>

(* The parent closes the write end of its pipe and spawn() returns. *)
ParentCloseWrite(o) ==
    /\ phase[o] = "parent"
    /\ IF redirects[o]
       THEN /\ holds' = holds \ {<<Parent, end[o]["write"], "write">>}
            /\ end' = [end EXCEPT ![o]["write"] = NoPipe]
       ELSE UNCHANGED <<holds, end>>
    /\ phase' = [phase EXCEPT ![o] = "idle"]
    /\ UNCHANGED <<opened, redirects, childVars, dataVars, replaced>>

(* closeRead() and redirectToWrite(STDOUT_FILENO) in the child: it keeps   *)
(* the write end, as its output, over exec.                                *)
ChildRedirects(c) ==
    /\ childState[c] = "forked"
    /\ childState' = [childState EXCEPT ![c] = "running"]
    /\ holds' = holds \ {<<c, output[c], "read">>}
    /\ UNCHANGED <<objectVars, opened, childOf, output, dataVars, replaced>>

(* A child that cannot redirect, change the directory or exec, that ends   *)
(* or is killed, releases all it has.                                      *)
ChildExits(c) ==
    /\ childState[c] \in {"forked", "running"}
    /\ childState' = [childState EXCEPT ![c] = "ended"]
    /\ holds' = {h \in holds : h[1] # c}
    /\ UNCHANGED <<objectVars, opened, childOf, output, dataVars, replaced>>

(* The program that runs in the child writes to its output. *)
ChildWrites(c) ==
    /\ childState[c] = "running"
    /\ output[c] # NoPipe
    /\ unread' = unread \cup {output[c]}
    /\ UNCHANGED <<objectVars, opened, holds, childVars, sawEnd, replaced>>

-----------------------------------------------------------------------------
(* read() returns what there is, or 0 when nobody can write any more;      *)
(* otherwise it waits.                                                     *)
ReadPipe(o) ==
    /\ NobodySpawns
    /\ LET p == end[o]["read"]
       IN  /\ p # NoPipe
           /\ \/ p \in unread /\ unread' = unread \ {p} /\ UNCHANGED sawEnd
              \/ /\ p \notin unread
                 /\ \A h \in holds : h[2] = p => h[3] = "read"
                 /\ sawEnd' = sawEnd \cup {p}
                 /\ UNCHANGED unread
    /\ UNCHANGED <<objectVars, opened, holds, childVars, replaced>>

(* close() closes both ends, those it has ... *)
ClosePipe(o, next) ==
    /\ NobodySpawns /\ phase[o] = "idle"
    /\ holds' = holds \ EndsOf(o)
    /\ end' = [end EXCEPT ![o] = [side \in Sides |-> NoPipe]]
    /\ phase' = [phase EXCEPT ![o] = next]
    /\ UNCHANGED <<opened, redirects, childVars, dataVars, replaced>>

(* ... and so does the destructor. *)
DestroyPipe(o) == ClosePipe(o, "gone")

PipeNext ==
    \/ \E o \in Pipes :
          \/ OpenPipe(o) \/ SpawnPlain(o) \/ ForkFails(o) \/ ParentCloseWrite(o)
          \/ ReadPipe(o)
          \/ \E c \in Children : Fork(o, c)
          \/ ClosePipe(o, "idle") \/ DestroyPipe(o)
    \/ \E c \in Children : ChildRedirects(c) \/ ChildWrites(c) \/ ChildExits(c)

-----------------------------------------------------------------------------
(* When spawn() has returned and the child has ended, nobody holds the     *)
(* write end of its pipe, neither the parent nor a child that was forked   *)
(* before or after it: the reader of its output gets to the end.  It does  *)
(* not get there before: the child has ended and its output was read.      *)
OutputEnds ==
    /\ \A c \in Children :
        /\ childState[c] = "ended"
        /\ \A o \in Pipes : phase[o] = "parent" => childOf[o] # c
        => \A h \in holds : h[2] = output[c] => h[3] = "read"
    /\ \A c \in Children : output[c] \in sawEnd => childState[c] = "ended"
    /\ unread \cap sawEnd = {}

(* The parent holds the ends its objects know of, and those over which a   *)
(* second spawn() of an object has written others: these stay open, and no *)
(* other end does.                                                         *)
EndsKnown ==
    \A p \in KernelPipes, side \in Sides :
        <<Parent, p, side>> \in holds <=>
            (\E o \in Pipes : end[o][side] = p) \/ <<p, side>> \in replaced
=============================================================================
