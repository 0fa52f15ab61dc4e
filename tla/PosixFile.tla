----------------------------- MODULE PosixFile -----------------------------
(***************************************************************************)
(* katla::PosixFile: which descriptor a file object refers to, while the   *)
(* kernel gives the number of a closed descriptor out again, and whose     *)
(* file its read(), write() and size() then reach.                         *)
(***************************************************************************)
EXTENDS Naturals

CONSTANTS
    Files,    \* objects of class PosixFile
    FileFds   \* the numbers the kernel gives out

NoFile == 0       \* m_fd == -1
Unused == "free"  \* no descriptor has the number
Others == "other" \* the rest of the program has it

ASSUME FileAssumption == NoFile \notin FileFds /\ {Unused, Others} \cap Files = {}

VARIABLES
    m_fd,     \* of each object
    fdOwner,  \* kernel: on whose behalf each descriptor is open
    left,     \* history: <<f, d>>, d is open for f, which was opened again
    stale,    \* history: objects whose descriptor was closed and m_fd kept
    touched   \* history: whose file each object has reached since its open()

fileVars == <<m_fd, fdOwner, left, stale, touched>>

FileInit ==
    /\ m_fd = [f \in Files |-> NoFile]
    /\ fdOwner = [d \in FileFds |-> Unused]
    /\ left = {}
    /\ stale = {}
    /\ touched = [f \in Files |-> {}]

(* What the object refers to, if that is still its own. *)
OwnFd(f) == {d \in FileFds : d = m_fd[f] /\ fdOwner[d] = f}

(* create() and open() assign to m_fd whatever it was. *)
Assigns(f, d) ==
    /\ m_fd' = [m_fd EXCEPT ![f] = d]
    /\ left' = left \cup {<<f, e>> : e \in OwnFd(f)}
    /\ stale' = stale \ {f}
    /\ touched' = [touched EXCEPT ![f] = {}]

OpenFile(f, d) ==
    /\ fdOwner[d] = Unused
    /\ Assigns(f, d)
    /\ fdOwner' = [fdOwner EXCEPT ![d] = f]

OpenFileFails(f) == Assigns(f, NoFile) /\ UNCHANGED fdOwner

(* ::close(m_fd) releases the number, whosever descriptor it is: those who *)
(* still have the number do not own it any more.                           *)
Releases(f, losers) ==
    /\ m_fd[f] # NoFile
    /\ fdOwner' = [fdOwner EXCEPT ![m_fd[f]] = Unused]
    /\ left' = {p \in left : p[2] # m_fd[f]}
    /\ stale' = (stale \ {f}) \cup {g \in losers : m_fd[g] = m_fd[f]}

Forgets(f) ==
    /\ m_fd' = [m_fd EXCEPT ![f] = NoFile]
    /\ touched' = [touched EXCEPT ![f] = {}]

(* Mutant of CloseFile: m_fd keeps its value. *)
CloseFile_Keeps(f) ==
    /\ Releases(f, Files \ {f})
    /\ fdOwner[m_fd[f]] # Unused
    /\ UNCHANGED <<m_fd, touched>>

CloseFile(f) ==
    /\ Releases(f, Files \ {f})
    /\ fdOwner[m_fd[f]] # Unused
    /\ Forgets(f)

(* ::close releases the number although it returns an error, and close()   *)
(* keeps it in m_fd.                                                       *)
CloseFileFails(f) ==
    /\ Releases(f, Files)
    /\ UNCHANGED <<m_fd, touched>>

(* The destructor, after which the object is constructed anew *)
DestroyFile(f) == Releases(f, Files \ {f}) /\ Forgets(f)

(* A system call reaches the file the number stands for; it fails, and     *)
(* nothing happens, when that is none.                                     *)
Reaches(f) ==
    /\ m_fd[f] # NoFile
    /\ fdOwner[m_fd[f]] # Unused
    /\ touched' = [touched EXCEPT ![f] = @ \cup {fdOwner[m_fd[f]]}]
    /\ UNCHANGED <<m_fd, fdOwner, left, stale>>

ReadFile(f) == Reaches(f)
WriteFile(f) == Reaches(f)
SizeOfFile(f) == Reaches(f)

(* The rest of the program opens and closes its own descriptors. *)
OthersOpen(d) ==
    /\ fdOwner[d] = Unused
    /\ fdOwner' = [fdOwner EXCEPT ![d] = Others]
    /\ UNCHANGED <<m_fd, left, stale, touched>>

OthersClose(d) ==
    /\ fdOwner[d] = Others
    /\ fdOwner' = [fdOwner EXCEPT ![d] = Unused]
    /\ UNCHANGED <<m_fd, left, stale, touched>>

FileNext ==
    \/ \E f \in Files :
          \/ \E d \in FileFds : OpenFile(f, d)
          \/ OpenFileFails(f) \/ CloseFile(f) \/ CloseFileFails(f) \/ DestroyFile(f)
          \/ ReadFile(f) \/ WriteFile(f) \/ SizeOfFile(f)
    \/ \E d \in FileFds : OthersOpen(d) \/ OthersClose(d)

-----------------------------------------------------------------------------
(* The descriptors that are open for an object are those it was opened     *)
(* over, which nobody closes any more, and the one it refers to, which is  *)
(* no longer its own only when a ::close of it, or of an object for which  *)
(* this is true already, was given its number.  Until then the object      *)
(* reaches no file but its own, whatever the kernel does with the numbers. *)
FilesExact ==
    /\ \A f \in Files, d \in FileFds :
          fdOwner[d] = f <=> (m_fd[f] = d /\ f \notin stale) \/ <<f, d>> \in left
    /\ \A f \in Files \ stale : touched[f] \subseteq {f}
=============================================================================
