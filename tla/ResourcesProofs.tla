-------------------------- MODULE ResourcesProofs --------------------------
(***************************************************************************)
(* Proofs about the classes that wrap a resource, for every value of the   *)
(* constants of MC_Resources.  Each class has an inductive invariant of    *)
(* its own (StopwatchInv, FileInv, SqliteInv, PipeInv, LutInv, ImageInv,   *)
(* ServerInv, TransferInv, TableInv, PriorityInv, StringInv), proved of    *)
(* its own next-state action; a step of the composition is a step of one   *)
(* class and leaves the others alone (StepOfEach), which gives the         *)
(* theorems at the end.                                                    *)
(*                                                                         *)
(* The worker of the server is the one of WorkerThread: ServerInv takes    *)
(* its invariant IInv, and NextIInv, from WorkerThreadProofs.              *)
(***************************************************************************)
EXTENDS MC_Resources, WorkerThreadProofs, FiniteSetTheorems, SequenceTheorems,
        WellFoundedInduction

-----------------------------------------------------------------------------
(* Stopwatch *)

StopwatchInv ==
    /\ {now, m_steadyStartTime, m_steadyStopTime, m_totalElapsed, ran, ranBefore} \subseteq Nat
    /\ m_steadyStartTime <= now /\ m_steadyStopTime <= now
    /\ m_isValid => ran = (IF m_isStarted THEN now ELSE m_steadyStopTime) - m_steadyStartTime
    /\ m_totalElapsed = ranBefore
    /\ m_isStarted => m_isValid

(* The initial state satisfies the invariant of the stopwatch. *)
LEMMA InitStopwatchInv == StopwatchInit => StopwatchInv
  BY StopwatchAssumption DEF StopwatchInit, StopwatchInv

(* Every call and every tick keeps it. *)
LEMMA NextStopwatchInv ==
    StopwatchInv /\ [StopwatchNext]_stopwatchVars => StopwatchInv'
<1> SUFFICES ASSUME StopwatchInv, [StopwatchNext]_stopwatchVars PROVE StopwatchInv'
  OBVIOUS
<1> USE StopwatchAssumption DEF StopwatchInv
<1>1. CASE Ticks BY <1>1 DEF Ticks
<1>2. CASE StartStopwatch BY <1>2 DEF StartStopwatch, Starts
<1>3. CASE ResetStopwatch BY <1>3 DEF ResetStopwatch, Starts
<1>4. CASE StopStopwatch BY <1>4 DEF StopStopwatch
<1>5. CASE UNCHANGED stopwatchVars BY <1>5 DEF stopwatchVars
<1> QED BY <1>1, <1>2, <1>3, <1>4, <1>5 DEF StopwatchNext

(* What the casts of the getters do to a number of nanoseconds. *)
LEMMA Casts ==
    ASSUME NEW n \in Nat
    PROVE  /\ (n \div 1000) * 1000 <= n /\ n < ((n \div 1000) + 1) * 1000
           /\ n \div 1000000 = (n \div 1000) \div 1000
<1>1. (n \div 1000) * 1000 <= n /\ n < ((n \div 1000) + 1) * 1000
  BY SMT
<1>2. n \div 1000000 = (n \div 1000) \div 1000
  BY SMT
<1> QED BY <1>1, <1>2, SMT

(* The getters tell the time that the invariant says has passed. *)
LEMMA InvElapsedExact == StopwatchInv => ElapsedExact
<1> SUFFICES ASSUME StopwatchInv, m_isValid
             PROVE  /\ NsecsElapsed = ran
                    /\ UsecsElapsed * 1000 <= ran /\ ran < (UsecsElapsed + 1) * 1000
                    /\ MsecsElapsed = UsecsElapsed \div 1000
                    /\ m_totalElapsed = ranBefore
  BY SMT DEF ElapsedExact
<1>1. NsecsElapsed = ran /\ ran \in Nat /\ m_totalElapsed = ranBefore
  BY SMT DEF StopwatchInv, NsecsElapsed, ElapsedTime
<1> QED BY <1>1, Casts, SMT DEF UsecsElapsed, MsecsElapsed

-----------------------------------------------------------------------------
(* PosixFile *)

FileTypeOK ==
    /\ m_fd \in [Files -> FileFds \cup {NoFile}]
    /\ fdOwner \in [FileFds -> Files \cup {Unused, Others}]
    /\ left \subseteq Files \X FileFds
    /\ stale \subseteq Files
    /\ touched \in [Files -> SUBSET (Files \cup {Others})]

FileInv == FileTypeOK /\ FilesExact

(* No file is open at the beginning. *)
LEMMA InitFileInv == FileInit => FileInv
  BY FileAssumption DEF FileInit, FileInv, FileTypeOK, FilesExact

(* An assignment to m_fd leaves behind what the object still owned. *)
LEMMA AssignsLeaves ==
    ASSUME FileInv, NEW f \in Files, NEW d \in FileFds \cup {NoFile}, Assigns(f, d)
    PROVE  /\ left' \subseteq Files \X FileFds /\ stale' \subseteq Files
           /\ m_fd' \in [Files -> FileFds \cup {NoFile}]
           /\ touched' \in [Files -> SUBSET (Files \cup {Others})]
           /\ \A g \in Files, e \in FileFds :
                 <<g, e>> \in left' <=>
                     <<g, e>> \in left \/ (g = f /\ m_fd[f] = e /\ fdOwner[e] = f)
           /\ \A g \in Files : m_fd'[g] = IF g = f THEN d ELSE m_fd[g]
           /\ \A g \in Files : g \in stale' <=> g \in stale /\ g # f
           /\ \A g \in Files : touched'[g] = IF g = f THEN {} ELSE touched[g]
<1> USE DEF FileInv, FileTypeOK, Assigns, OwnFd
<1>1. left' \subseteq Files \X FileFds /\ stale' \subseteq Files
  OBVIOUS
<1>2. /\ m_fd' \in [Files -> FileFds \cup {NoFile}]
      /\ touched' \in [Files -> SUBSET (Files \cup {Others})]
  OBVIOUS
<1>3. \A g \in Files, e \in FileFds :
         <<g, e>> \in left' <=> <<g, e>> \in left \/ (g = f /\ m_fd[f] = e /\ fdOwner[e] = f)
  OBVIOUS
<1>4. /\ \A g \in Files : m_fd'[g] = IF g = f THEN d ELSE m_fd[g]
      /\ \A g \in Files : g \in stale' <=> g \in stale /\ g # f
      /\ \A g \in Files : touched'[g] = IF g = f THEN {} ELSE touched[g]
  OBVIOUS
<1> QED BY <1>1, <1>2, <1>3, <1>4

(* A ::close takes the number from everybody. *)
LEMMA ReleasesAll ==
    ASSUME FileInv, NEW f \in Files, NEW losers \in SUBSET Files, Releases(f, losers)
    PROVE  /\ left' \subseteq Files \X FileFds /\ stale' \subseteq Files
           /\ fdOwner' \in [FileFds -> Files \cup {Unused, Others}]
           /\ m_fd[f] \in FileFds
           /\ \A g \in Files, e \in FileFds :
                 <<g, e>> \in left' <=> <<g, e>> \in left /\ e # m_fd[f]
           /\ \A e \in FileFds : fdOwner'[e] = IF e = m_fd[f] THEN Unused ELSE fdOwner[e]
           /\ \A g \in Files :
                 g \in stale' <=> (g \in stale /\ g # f) \/ (g \in losers /\ m_fd[g] = m_fd[f])
  BY DEF FileInv, FileTypeOK, Releases

(* Every call on a file, failing or not, keeps what is open for whom. *)
LEMMA NextFileInv == FileInv /\ [FileNext]_fileVars => FileInv'
<1> SUFFICES ASSUME FileInv, [FileNext]_fileVars PROVE FileInv'
  OBVIOUS
<1> USE FileAssumption DEF FileInv, FileTypeOK
<1>1. ASSUME NEW f \in Files, NEW d \in FileFds, OpenFile(f, d) PROVE FileInv'
  <2>1. Assigns(f, d) /\ fdOwner[d] = Unused /\ fdOwner' = [fdOwner EXCEPT ![d] = f]
    BY <1>1 DEF OpenFile
  <2>2. FileTypeOK' BY <2>1, AssignsLeaves
  <2>3. FilesExact' BY <2>1, AssignsLeaves DEF FilesExact
  <2> QED BY <2>2, <2>3
<1>2. ASSUME NEW f \in Files, OpenFileFails(f) PROVE FileInv'
  <2>1. Assigns(f, NoFile) /\ UNCHANGED fdOwner BY <1>2 DEF OpenFileFails
  <2>2. FileTypeOK' BY <2>1, AssignsLeaves
  <2>3. FilesExact' BY <2>1, AssignsLeaves DEF FilesExact
  <2> QED BY <2>2, <2>3
<1>3. ASSUME NEW f \in Files, CloseFile(f) \/ DestroyFile(f) PROVE FileInv'
  <2>1. Releases(f, Files \ {f}) /\ Forgets(f) BY <1>3 DEF CloseFile, DestroyFile
  <2>2. FileTypeOK' BY <2>1, ReleasesAll DEF Forgets
  <2>3. FilesExact' BY <2>1, ReleasesAll DEF FilesExact, Forgets
  <2> QED BY <2>2, <2>3
<1>4. ASSUME NEW f \in Files, CloseFileFails(f) PROVE FileInv'
  <2>1. Releases(f, Files) /\ UNCHANGED <<m_fd, touched>> BY <1>4 DEF CloseFileFails
  <2>2. FileTypeOK' BY <2>1, ReleasesAll
  <2>3. FilesExact' BY <2>1, ReleasesAll DEF FilesExact
  <2> QED BY <2>2, <2>3
<1>5. ASSUME NEW f \in Files, Reaches(f) PROVE FileInv'
  <2>1. fdOwner[m_fd[f]] # Unused /\ m_fd[f] \in FileFds BY <1>5 DEF Reaches
  <2>2. f \notin stale => fdOwner[m_fd[f]] = f BY <2>1 DEF FilesExact
  <2>3. fdOwner[m_fd[f]] \in Files \cup {Others} BY <2>1
  <2> QED BY <1>5, <2>2, <2>3 DEF Reaches, FilesExact
<1>6. ASSUME NEW d \in FileFds, OthersOpen(d) \/ OthersClose(d) PROVE FileInv'
  BY <1>6 DEF OthersOpen, OthersClose, FilesExact
<1>7. CASE UNCHANGED fileVars BY <1>7 DEF fileVars, FilesExact
<1> QED BY <1>1, <1>2, <1>3, <1>4, <1>5, <1>6, <1>7
        DEF FileNext, ReadFile, WriteFile, SizeOfFile

-----------------------------------------------------------------------------
(* SqliteDatabase *)

(* A connection that was not opened yet is nowhere, and one that was       *)
(* abandoned is never closed; exec() runs on a connection.                 *)
SqliteInv ==
    /\ connected \in 0 .. MaxConnections
    /\ m_handle \in 0 .. connected
    /\ openHandles \subseteq 1 .. connected
    /\ statements \in [Connections -> Nat]
    /\ query = "exec" => m_handle # NoHandle
    /\ HandleExact

(* No connection is open at the beginning. *)
LEMMA InitSqliteInv == SqliteInit => SqliteInv
  BY SqliteAssumption DEF SqliteInit, SqliteInv, HandleExact, NoHandle, Connections

(* Every call on the database keeps the connections known. *)
LEMMA NextSqliteInv == SqliteInv /\ [SqliteNext]_sqliteVars => SqliteInv'
<1> SUFFICES ASSUME SqliteInv, [SqliteNext]_sqliteVars PROVE SqliteInv'
  OBVIOUS
<1> USE SqliteAssumption DEF SqliteInv, HandleExact, Connections, NoHandle, handleVars, engineVars
<1>0. ASSUME NEW path \in Paths, CreateDatabase(path) PROVE SqliteInv'
  BY <1>0 DEF CreateDatabase, queryVars
<1>1. ASSUME NEW path \in Paths, CreateFails(path) PROVE SqliteInv'
  BY <1>1 DEF CreateFails, OpensConnection, queryVars
<1>2. CASE OpenDatabase BY <1>2 DEF OpenDatabase, OpensConnection, queryVars
<1>3. CASE OpenExhausted BY <1>3 DEF OpenExhausted, queryVars
<1>4. CASE CloseDatabase BY <1>4 DEF CloseDatabase, queryVars
<1>5. CASE DestroyDatabase BY <1>5 DEF DestroyDatabase
<1>6. CASE Insert BY <1>6 DEF Insert, queryVars
<1>7. CASE Exec BY <1>7 DEF Exec
<1>8. ASSUME NEW row \in Rows, ExecRow(row) PROVE SqliteInv' BY <1>8 DEF ExecRow
<1>9. ASSUME NEW row \in Rows, ExecNull(row) PROVE SqliteInv'
  <2>1. m_handle \in Connections /\ m_handle \in openHandles BY <1>9 DEF ExecNull
  <2>2. /\ statements' \in [Connections -> Nat]
        /\ \A h \in Connections : h # m_handle => statements'[h] = statements[h]
    BY <1>9, <2>1 DEF ExecNull
  <2>3. /\ query' # "exec"
        /\ UNCHANGED <<handleVars, connected, openHandles, abandoned>>
    BY <1>9 DEF ExecNull
  <2> QED BY <2>1, <2>2, <2>3
<1>10. ASSUME NEW failed \in BOOLEAN, ExecReturns(failed) PROVE SqliteInv'
  BY <1>10 DEF ExecReturns
<1>12. ASSUME UNCHANGED sqliteVars \/ \E path \in Paths : SetPath(path) \/ RemoveFile(path)
      PROVE  UNCHANGED <<connected, m_handle, openHandles, statements, query, abandoned>>
  BY <1>12 DEF SetPath, RemoveFile, queryVars, sqliteVars
<1>13. ASSUME UNCHANGED <<connected, m_handle, openHandles, statements, query, abandoned>>
       PROVE  SqliteInv'
  BY <1>13
<1> QED BY <1>0, <1>1, <1>2, <1>3, <1>4, <1>5, <1>6, <1>7, <1>8, <1>9, <1>10, <1>12, <1>13
        DEF SqliteNext

-----------------------------------------------------------------------------
(* PosixPipe *)

Processes == {Parent} \cup Children
Spawning(o) == phase[o] \in {"fork", "parent"}

PipeTypeOK ==
    /\ opened \in 0 .. MaxPipes
    /\ end \in [Pipes -> [Sides -> 0 .. opened]]
    /\ holds \subseteq Processes \X (1 .. opened) \X Sides
    /\ phase \in [Pipes -> {"idle", "fork", "parent", "gone"}]
    /\ redirects \in [Pipes -> BOOLEAN]
    /\ childOf \in [Pipes -> Processes]
    /\ childState \in [Children -> {"none", "forked", "running", "ended"}]
    /\ output \in [Children -> 0 .. opened]
    /\ unread \subseteq 1 .. opened /\ sawEnd \subseteq 1 .. opened
    /\ replaced \subseteq (1 .. opened) \X Sides

(* A pipe belongs to one object, and its ends to the parent while the      *)
(* object knows them.                                                      *)
EndsDistinct ==
    \A o, q \in Pipes : \A side, other \in Sides :
        end[o][side] # NoPipe /\ end[o][side] = end[q][other] => o = q

EndsHeld ==
    /\ \A o \in Pipes : \A side \in Sides :
          end[o][side] # NoPipe => <<Parent, end[o][side], side>> \in holds
    /\ \A p \in 1 .. opened : \A side \in Sides :
          <<Parent, p, side>> \in holds =>
              <<p, side>> \in replaced \/ \E o \in Pipes : end[o][side] = p

(* What open() has replaced stays with the parent, and no object knows it. *)
ReplacedHeld ==
    \A p \in 1 .. opened : \A side \in Sides :
        <<p, side>> \in replaced =>
            /\ <<Parent, p, side>> \in holds
            /\ \A o \in Pipes : end[o][side] # p

OneSpawn == \A o, q \in Pipes : Spawning(o) /\ Spawning(q) => o = q

(* The pipe a spawn() has opened is known to nobody else before the fork,  *)
(* and is the output of the child after it.                                *)
SpawnExact ==
    \A o \in Pipes :
        /\ phase[o] = "fork" /\ redirects[o] =>
              LET p == end[o]["write"]
              IN  /\ p # NoPipe /\ p \notin unread /\ p \notin sawEnd
                  /\ \A c \in Children : output[c] # p
                  /\ \A c \in Children : \A side \in Sides : <<c, p, side>> \notin holds
        /\ phase[o] = "parent" =>
              /\ childOf[o] \in Children
              /\ childState[childOf[o]] # "none"
              /\ redirects[o] => output[childOf[o]] = end[o]["write"] /\ end[o]["write"] # NoPipe
              /\ ~redirects[o] => output[childOf[o]] = NoPipe

(* A child holds its output while it runs, and it holds nothing before and *)
(* after.                                                                  *)
ChildrenExact ==
    \A c \in Children :
        /\ childState[c] = "none" => output[c] = NoPipe
        /\ childState[c] \in {"none", "ended"} =>
              \A p \in 1 .. opened : \A side \in Sides : <<c, p, side>> \notin holds
        /\ childState[c] \in {"forked", "running"} /\ output[c] # NoPipe =>
              <<c, output[c], "write">> \in holds
        /\ output[c] \in sawEnd => childState[c] = "ended"

(* Nobody else can write to the output of a child but the parent, until    *)
(* its spawn() returns.                                                    *)
WritersExact ==
    \A c \in Children : \A q \in Processes :
        <<q, output[c], "write">> \in holds =>
            \/ q = c
            \/ q = Parent /\ \E o \in Pipes : phase[o] = "parent" /\ childOf[o] = c

PipeInv ==
    /\ PipeTypeOK /\ EndsDistinct /\ EndsHeld /\ ReplacedHeld /\ OneSpawn /\ SpawnExact
    /\ ChildrenExact /\ WritersExact /\ unread \cap sawEnd = {}

(* The initial state satisfies the invariant of the pipes. *)
LEMMA InitPipeInv == PipeInit => PipeInv
<1> SUFFICES ASSUME PipeInit PROVE PipeInv
  OBVIOUS
<1> USE PipeAssumption DEF PipeInit, NoPipe, Parent, Processes, Children
<1>1. PipeTypeOK BY DEF PipeTypeOK, Sides
<1>2. EndsDistinct /\ EndsHeld /\ ReplacedHeld BY DEF EndsDistinct, EndsHeld, ReplacedHeld
<1>3. OneSpawn /\ SpawnExact BY DEF OneSpawn, SpawnExact, Spawning
<1>4. ChildrenExact /\ WritersExact BY DEF ChildrenExact, WritersExact
<1> QED BY <1>1, <1>2, <1>3, <1>4 DEF PipeInv

(* The pipes that objects and the kernel know are among those opened. *)
LEMMA EndRange ==
    ASSUME PipeTypeOK
    PROVE  /\ opened \in Nat /\ opened <= MaxPipes
           /\ 1 .. opened \subseteq 1 .. MaxPipes
           /\ \A x \in Pipes, side \in Sides :
                 /\ end[x][side] \in 0 .. opened
                 /\ end[x][side] # NoPipe => end[x][side] \in 1 .. opened
  BY PipeAssumption DEF PipeTypeOK, NoPipe

(* The child and nobody else gets what the parent holds. *)
LEMMA ForkHolds ==
    ASSUME PipeTypeOK, NEW c,
           holds' = holds \cup {<<c, h[2], h[3]>> : h \in {k \in holds : k[1] = Parent}}
    PROVE  \A q, p, side :
              <<q, p, side>> \in holds' <=>
                  <<q, p, side>> \in holds \/ (q = c /\ <<Parent, p, side>> \in holds)
<1>1. holds \subseteq Processes \X (1 .. opened) \X Sides BY DEF PipeTypeOK
<1> DEFINE inherited == {<<c, h[2], h[3]>> : h \in {k \in holds : k[1] = Parent}}
<1> SUFFICES ASSUME NEW q, NEW p, NEW side
             PROVE  <<q, p, side>> \in inherited <=> q = c /\ <<Parent, p, side>> \in holds
  OBVIOUS
<1>2. ASSUME NEW h \in holds, h[1] = Parent, <<q, p, side>> = <<c, h[2], h[3]>>
      PROVE  q = c /\ <<Parent, p, side>> \in holds
  <2>1. h = <<h[1], h[2], h[3]>> BY <1>1
  <2>2. q = c /\ p = h[2] /\ side = h[3] BY <1>2
  <2> QED BY <1>2, <2>1, <2>2
<1>3. ASSUME q = c, <<Parent, p, side>> \in holds
      PROVE  \E h \in {k \in holds : k[1] = Parent} : <<q, p, side>> = <<c, h[2], h[3]>>
  BY <1>3
<1> QED BY <1>2, <1>3

(* spawn() opens a pipe that was never used ... *)
LEMMA OpenPipeStep ==
    ASSUME PipeInv, NEW o \in Pipes, OpenPipe(o)
    PROVE  PipeInv'
<1> USE PipeAssumption DEF PipeInv, Processes, Children, Sides, NoPipe, Parent,
        objectVars, childVars, dataVars, OpenPipe, NobodySpawns
<1>0. \A q \in Processes, p \in 1 .. MaxPipes, side \in Sides :
          <<q, p, side>> \in holds' <=>
              <<q, p, side>> \in holds \/ (q = Parent /\ p = opened + 1)
  BY DEF PipeTypeOK
<1>1. PipeTypeOK'
  BY <1>0 DEF PipeTypeOK
<1>2. EndsDistinct'
  BY <1>0 DEF EndsDistinct, PipeTypeOK
<1>3. EndsHeld'
  <2>1. /\ opened' = opened + 1 /\ opened \in Nat /\ opened + 1 <= MaxPipes
        /\ \A side \in Sides : <<Parent, opened + 1, side>> \in holds'
        /\ \A side \in Sides : end'[o][side] = opened + 1
    BY EndRange DEF PipeTypeOK
  <2>2. /\ \A x \in Pipes : x # o => end'[x] = end[x]
        /\ holds \subseteq holds' /\ replaced \subseteq replaced'
    BY DEF PipeTypeOK
  <2>3. ASSUME NEW x \in Pipes, NEW side \in Sides, end'[x][side] # NoPipe
        PROVE  <<Parent, end'[x][side], side>> \in holds'
    BY <2>1, <2>2, <2>3 DEF EndsHeld
  <2>4. ASSUME NEW p \in 1 .. opened', NEW side \in Sides, <<Parent, p, side>> \in holds'
        PROVE  <<p, side>> \in replaced' \/ \E x \in Pipes : end'[x][side] = p
    <3>1. CASE p = opened + 1 BY <2>1, <3>1
    <3>2. CASE p # opened + 1
      <4>1. p \in 1 .. opened /\ p \in 1 .. MaxPipes BY <2>1, <3>2
      <4>2. <<Parent, p, side>> \in holds BY <1>0, <2>4, <3>2, <4>1
      <4>3. <<p, side>> \in replaced \/ \E x \in Pipes : end[x][side] = p
        BY <4>1, <4>2 DEF EndsHeld
      <4>4. end[o][side] = p => <<p, side>> \in replaced'
        <5> SUFFICES ASSUME end[o][side] = p PROVE <<p, side>> \in replaced'
          OBVIOUS
        <5>1. side \in {x \in Sides : end[o][x] # NoPipe} BY <4>1
        <5> QED BY <5>1
      <4> QED BY <2>2, <4>3, <4>4
    <3> QED BY <3>1, <3>2
  <2> QED BY <2>3, <2>4 DEF EndsHeld
<1>4. OneSpawn'
  BY <1>0 DEF OneSpawn, Spawning, PipeTypeOK
<1>5. SpawnExact'
  <2>1. \A x \in Pipes : phase'[x] # "parent" /\ (phase'[x] = "fork" => x = o)
    BY DEF PipeTypeOK
  <2>2. end'[o]["write"] = opened + 1 BY DEF PipeTypeOK
  <2>3. \A c \in Children : \A side \in Sides : <<c, opened + 1, side>> \notin holds'
    <3> SUFFICES ASSUME NEW c \in Children, NEW side \in Sides,
                        <<c, opened + 1, side>> \in holds'
                 PROVE  FALSE
      OBVIOUS
    <3>1. <<c, opened + 1, side>> \in holds BY <1>0 DEF PipeTypeOK
    <3> QED BY <3>1 DEF PipeTypeOK
  <2>4. /\ opened + 1 # NoPipe /\ opened + 1 \notin unread' /\ opened + 1 \notin sawEnd'
        /\ \A c \in Children : output'[c] # opened + 1
    <3>1. UNCHANGED <<unread, sawEnd, output>> OBVIOUS
    <3>2. /\ opened \in Nat /\ unread \subseteq 1 .. opened /\ sawEnd \subseteq 1 .. opened
          /\ \A c \in Children : output[c] \in 0 .. opened
      <4>1. opened \in Nat BY ONLY PipeTypeOK, PipeAssumption DEF PipeTypeOK
      <4>2. \A c \in Children : output[c] \in 0 .. opened
        BY ONLY PipeTypeOK DEF PipeTypeOK
      <4>3. unread \subseteq 1 .. opened /\ sawEnd \subseteq 1 .. opened
        BY ONLY PipeTypeOK DEF PipeTypeOK
      <4> QED BY ONLY <4>1, <4>2, <4>3
    <3>3. \A i \in 0 .. opened : i # opened + 1 BY ONLY <3>2
    <3>4. opened + 1 # NoPipe BY ONLY <3>2
    <3> QED BY ONLY <3>1, <3>2, <3>3, <3>4
  <2> QED BY <2>1, <2>2, <2>3, <2>4 DEF SpawnExact
<1>6. ChildrenExact'
  BY <1>0 DEF ChildrenExact, SpawnExact, PipeTypeOK
<1>7. WritersExact'
  BY <1>0 DEF WritersExact, OneSpawn, SpawnExact, Spawning, ChildrenExact, PipeTypeOK
<1>8. unread' \cap sawEnd' = {}
  BY <1>0 DEF PipeTypeOK, ChildrenExact
<1>9. ReplacedHeld'
  <2> SUFFICES ASSUME NEW p \in 1 .. opened', NEW side \in Sides, <<p, side>> \in replaced'
               PROVE  /\ <<Parent, p, side>> \in holds'
                      /\ \A x \in Pipes : end'[x][side] # p
    BY DEF ReplacedHeld
  <2>1. <<p, side>> \in replaced \/ (p = end[o][side] /\ p # NoPipe)
    <3>1. CASE <<p, side>> \notin replaced
      <4>1. PICK x \in {y \in Sides : end[o][y] # NoPipe} : <<p, side>> = <<end[o][x], x>>
        BY <3>1
      <4> QED BY <4>1
    <3> QED BY <3>1
  <2>2. p \in 1 .. opened
    <3>1. <<p, side>> \in replaced => p \in 1 .. opened BY DEF PipeTypeOK
    <3> QED BY <2>1, <3>1, EndRange
  <2>3. <<Parent, p, side>> \in holds BY <2>1, <2>2 DEF ReplacedHeld, EndsHeld
  <2>4. p # opened + 1 /\ \A x \in Sides : end'[o][x] = opened + 1
    BY <2>2, EndRange DEF PipeTypeOK
  <2>5. ASSUME NEW x \in Pipes, x # o PROVE end'[x][side] # p
    <3>1. end'[x] = end[x] BY <2>5 DEF PipeTypeOK
    <3>2. <<p, side>> \in replaced => end[x][side] # p BY <2>2 DEF ReplacedHeld
    <3>3. p = end[o][side] => end[x][side] # p BY <2>2, <2>5 DEF EndsDistinct
    <3> QED BY <2>1, <3>1, <3>2, <3>3
  <2> QED BY <2>3, <2>4, <2>5
<1> QED BY <1>1, <1>2, <1>3, <1>4, <1>5, <1>6, <1>7, <1>8, <1>9

(* ... or none, and may fail to fork. *)
LEMMA SpawnStep ==
    ASSUME PipeInv, NEW o \in Pipes, SpawnPlain(o) \/ ForkFails(o)
    PROVE  PipeInv'
<1> USE PipeAssumption DEF PipeInv, Processes, Children, Sides, NoPipe, Parent,
        objectVars, childVars, dataVars, SpawnPlain, ForkFails, NobodySpawns
<1>1. PipeTypeOK'
  BY DEF PipeTypeOK
<1>2. EndsDistinct'
  BY DEF EndsDistinct, PipeTypeOK
<1>3. EndsHeld'
  BY DEF EndsHeld, EndsDistinct, PipeTypeOK
<1>4. OneSpawn'
  BY ZenonT(30) DEF OneSpawn, Spawning, PipeTypeOK
<1>5. SpawnExact'
  BY DEF OneSpawn, SpawnExact, Spawning, PipeTypeOK, ChildrenExact
<1>6. ChildrenExact'
  BY DEF ChildrenExact, SpawnExact, PipeTypeOK
<1>7. WritersExact'
  BY DEF WritersExact, OneSpawn, SpawnExact, Spawning, ChildrenExact, PipeTypeOK
<1>8. unread' \cap sawEnd' = {}
  BY DEF PipeTypeOK, ChildrenExact
<1>9. ReplacedHeld'
  BY DEF ReplacedHeld, PipeTypeOK
<1> QED BY <1>1, <1>2, <1>3, <1>4, <1>5, <1>6, <1>7, <1>8, <1>9

(* A child gets all the parent has, but no output of another child. *)
LEMMA ForkStep ==
    ASSUME PipeInv, NEW o \in Pipes, NEW c \in Children, Fork(o, c)
    PROVE  PipeInv'
<1> USE PipeAssumption DEF PipeInv, Processes, Children, Sides, NoPipe, Parent,
        objectVars, childVars, dataVars
<1>a. /\ phase[o] = "fork" /\ childState[c] = "none"
      /\ childState' = [childState EXCEPT ![c] =
                          IF redirects[o] THEN "forked" ELSE "running"]
      /\ childOf' = [childOf EXCEPT ![o] = c]
      /\ output' = [output EXCEPT ![c] = IF redirects[o] THEN end[o]["write"] ELSE NoPipe]
      /\ phase' = [phase EXCEPT ![o] = "parent"]
      /\ UNCHANGED <<end, opened, redirects, dataVars, replaced>>
  <2>1. c \in {k \in Children : childState[k] = "none"} BY DEF Fork
  <2> QED BY <2>1 DEF Fork
<1>b. holds' = holds \cup {<<c, h[2], h[3]>> : h \in {k \in holds : k[1] = Parent}}
  BY DEF Fork
<1>0. \A q \in Processes, p \in 1 .. MaxPipes, side \in Sides :
          <<q, p, side>> \in holds' <=>
              <<q, p, side>> \in holds \/ (q = c /\ <<Parent, p, side>> \in holds)
  BY ONLY <1>b, PipeTypeOK, ForkHolds, Zenon
<1>c. c # Parent OBVIOUS
<1>1. PipeTypeOK'
  <2>1. holds' \subseteq Processes \X (1 .. opened) \X Sides
    BY ONLY <1>b, PipeTypeOK, c \in Children DEF PipeTypeOK, Processes
  <2>2. childState' \in [Children -> {"none", "forked", "running", "ended"}]
    BY <1>a DEF PipeTypeOK
  <2>3. output' \in [Children -> 0 .. opened] BY <1>a DEF PipeTypeOK
  <2>4. childOf' \in [Pipes -> Processes] BY <1>a DEF PipeTypeOK
  <2> QED BY <1>a, <2>1, <2>2, <2>3, <2>4 DEF PipeTypeOK
<1>2. EndsDistinct'
  BY <1>a DEF EndsDistinct
<1>3. EndsHeld'
  <2>1. \A p \in 1 .. opened : \A side \in Sides :
            <<Parent, p, side>> \in holds' <=> <<Parent, p, side>> \in holds
    BY ONLY <1>b, <1>c, PipeTypeOK, ForkHolds, Zenon
  <2>2. \A x \in Pipes : \A side \in Sides :
            end[x][side] # NoPipe => end[x][side] \in 1 .. opened
    BY DEF PipeTypeOK
  <2>3. UNCHANGED <<end, opened, replaced>> BY <1>a
  <2> QED BY ONLY <2>1, <2>2, <2>3, EndsHeld DEF EndsHeld
<1>4. OneSpawn'
  BY <1>0, <1>a DEF OneSpawn, Spawning, PipeTypeOK
<1>5. SpawnExact'
  <2>1. \A x \in Pipes : ~Spawning(x) \/ x = o
    BY <1>a DEF OneSpawn, Spawning
  <2>2. /\ phase'[o] = "parent" /\ childOf'[o] = c
        /\ childState'[c] # "none"
        /\ output'[c] = IF redirects[o] THEN end[o]["write"] ELSE NoPipe
    BY <1>a DEF PipeTypeOK
  <2>3. \A x \in Pipes : x # o => phase'[x] \notin {"fork", "parent"}
    BY <1>a, <2>1 DEF PipeTypeOK, Spawning
  <2> QED BY <1>a, <2>2, <2>3 DEF SpawnExact
<1>6. ChildrenExact'
  <2> SUFFICES ASSUME NEW k \in Children
      PROVE  /\ childState'[k] = "none" => output'[k] = NoPipe
             /\ childState'[k] \in {"none", "ended"} =>
                  \A p \in 1 .. opened : \A side \in Sides : <<k, p, side>> \notin holds'
             /\ childState'[k] \in {"forked", "running"} /\ output'[k] # NoPipe =>
                  <<k, output'[k], "write">> \in holds'
             /\ output'[k] \in sawEnd => childState'[k] = "ended"
    BY <1>a DEF ChildrenExact
  <2>1. CASE k # c
    <3>1. childState'[k] = childState[k] /\ output'[k] = output[k]
      BY <1>a, <2>1 DEF PipeTypeOK
    <3>2. \A p \in 1 .. opened : \A side \in Sides :
              <<k, p, side>> \in holds' <=> <<k, p, side>> \in holds
      BY ONLY <1>b, <2>1, PipeTypeOK, ForkHolds, Zenon
    <3>3. output[k] # NoPipe => output[k] \in 1 .. opened
      <4>1. output[k] \in 0 .. opened /\ opened \in Nat
        BY ONLY PipeTypeOK, EndRange, k \in Children DEF PipeTypeOK
      <4> QED BY ONLY <4>1 DEF NoPipe
    <3> QED BY <3>1, <3>2, <3>3 DEF ChildrenExact
  <2>2. CASE k = c
    <3>1. childState'[c] \in {"forked", "running"}
      BY <1>a DEF PipeTypeOK
    <3>2. output'[c] = IF redirects[o] THEN end[o]["write"] ELSE NoPipe
      BY <1>a DEF PipeTypeOK
    <3>3. CASE redirects[o]
      <4>1. output'[c] # NoPipe /\ output'[c] \notin sawEnd
        BY <1>a, <3>2, <3>3 DEF SpawnExact
      <4>2. <<Parent, end[o]["write"], "write">> \in holds
        BY <3>2, <3>3, <4>1 DEF EndsHeld
      <4>3. end[o]["write"] \in 1 .. MaxPipes BY <4>2 DEF PipeTypeOK
      <4>4. <<c, end[o]["write"], "write">> \in holds' BY <1>0, <4>2, <4>3
      <4> QED BY <2>2, <3>1, <3>2, <3>3, <4>1, <4>4
    <3>4. CASE ~redirects[o]
      <4>1. output'[c] = NoPipe /\ NoPipe \notin sawEnd BY <3>2, <3>4 DEF PipeTypeOK
      <4> QED BY <2>2, <3>1, <4>1
    <3> QED BY <3>3, <3>4
  <2> QED BY <2>1, <2>2
<1>7. WritersExact'
  <2> SUFFICES ASSUME NEW k \in Children, NEW q \in Processes,
                      <<q, output'[k], "write">> \in holds'
               PROVE  \/ q = k
                      \/ q = Parent /\ \E x \in Pipes : phase'[x] = "parent" /\ childOf'[x] = k
    BY DEF WritersExact
  <2>0. output'[k] \in 1 .. MaxPipes /\ phase'[o] = "parent" /\ childOf'[o] = c
    BY <1>1, <1>a DEF PipeTypeOK
  <2>1. \/ <<q, output'[k], "write">> \in holds
        \/ q = c /\ <<Parent, output'[k], "write">> \in holds
    BY <1>0, <2>0
  <2>2. CASE k = c
    <3>1. output'[k] = end[o]["write"] /\ redirects[o]
      BY <1>a, <2>0, <2>2 DEF PipeTypeOK
    <3>2. q \in Children /\ q # c => FALSE
      BY <1>a, <2>1, <3>1 DEF SpawnExact
    <3> QED BY <2>0, <2>2, <3>2
  <2>3. CASE k # c
    <3>1. output'[k] = output[k] BY <1>a, <2>3 DEF PipeTypeOK
    <3>2. <<Parent, output[k], "write">> \notin holds
      BY <1>a DEF WritersExact, OneSpawn, Spawning
    <3> QED BY <2>1, <2>3, <3>1, <3>2 DEF WritersExact
  <2> QED BY <2>2, <2>3
<1>8. unread' \cap sawEnd' = {}
  BY <1>0, <1>a DEF PipeTypeOK, ChildrenExact
<1>9. ReplacedHeld'
  BY <1>0, <1>a, EndRange DEF ReplacedHeld
<1> QED BY <1>1, <1>2, <1>3, <1>4, <1>5, <1>6, <1>7, <1>8, <1>9

(* The parent closes the write end of the one pipe. *)
LEMMA ParentCloseWriteStep ==
    ASSUME PipeInv, NEW o \in Pipes, ParentCloseWrite(o)
    PROVE  PipeInv'
<1> USE PipeAssumption DEF PipeInv, Processes, Children, Sides, NoPipe, Parent,
        objectVars, childVars, dataVars
<1>a. /\ phase[o] = "parent"
      /\ phase' = [phase EXCEPT ![o] = "idle"]
      /\ UNCHANGED <<opened, redirects, childVars, dataVars, replaced>>
  BY DEF ParentCloseWrite
<1>b. /\ end' \in [Pipes -> [Sides -> 0 .. opened]]
      /\ \A x \in Pipes, side \in Sides :
            end'[x][side] = IF redirects[o] /\ x = o /\ side = "write"
                            THEN NoPipe ELSE end[x][side]
  <2>1. CASE redirects[o]
    <3>1. end' = [end EXCEPT ![o]["write"] = NoPipe] BY <2>1 DEF ParentCloseWrite
    <3> QED BY <2>1, <3>1 DEF PipeTypeOK
  <2>2. CASE ~redirects[o]
    <3>1. end' = end BY <2>2 DEF ParentCloseWrite
    <3> QED BY <2>2, <3>1 DEF PipeTypeOK
  <2> QED BY <2>1, <2>2
<1>c. /\ redirects[o] => holds' = holds \ {<<Parent, end[o]["write"], "write">>}
      /\ ~redirects[o] => holds' = holds
  BY DEF ParentCloseWrite
<1>0. \A q \in Processes, p \in 1 .. MaxPipes, side \in Sides :
          <<q, p, side>> \in holds' <=>
              <<q, p, side>> \in holds /\ ~(redirects[o] /\ q = Parent /\ p = end[o]["write"] /\ side = "write")
  BY <1>c
<1>1. PipeTypeOK'
  <2>1. holds' \subseteq holds BY <1>c
  <2> QED BY <1>a, <1>b, <2>1 DEF PipeTypeOK
<1>2. EndsDistinct'
  BY <1>0, <1>a, <1>b, SMTT(30) DEF EndsDistinct, PipeTypeOK
<1>3. EndsHeld'
  <2>1. ASSUME NEW x \in Pipes, NEW side \in Sides, end'[x][side] # NoPipe
        PROVE  <<Parent, end'[x][side], side>> \in holds'
    <3>1. end'[x][side] = end[x][side] /\ ~(redirects[o] /\ x = o /\ side = "write")
      BY <1>b, <2>1
    <3>2. <<Parent, end[x][side], side>> \in holds BY <2>1, <3>1 DEF EndsHeld
    <3>3. x # o => end[x][side] # end[o]["write"] BY <2>1, <3>1 DEF EndsDistinct
    <3>4. ~(redirects[o] /\ end[x][side] = end[o]["write"] /\ side = "write")
      BY <3>1, <3>3
    <3> QED BY <1>c, <3>1, <3>2, <3>4
  <2>2. ASSUME NEW p \in 1 .. opened, NEW side \in Sides, <<Parent, p, side>> \in holds'
        PROVE  <<p, side>> \in replaced \/ \E x \in Pipes : end'[x][side] = p
    <3>1. <<Parent, p, side>> \in holds
      BY <1>c, <2>2
    <3>2. ~(redirects[o] /\ p = end[o]["write"] /\ side = "write") BY <1>c, <2>2
    <3>3. CASE <<p, side>> \in replaced BY <3>3
    <3>4. ASSUME NEW x \in Pipes, end[x][side] = p PROVE end'[x][side] = p
      BY <1>b, <3>2, <3>4
    <3> QED BY <3>1, <3>3, <3>4 DEF EndsHeld
  <2> QED BY <1>a, <2>1, <2>2 DEF EndsHeld
<1>4. OneSpawn'
  BY <1>0, <1>a, <1>b DEF OneSpawn, Spawning, PipeTypeOK
<1>5. SpawnExact'
  BY <1>0, <1>a, <1>b DEF OneSpawn, SpawnExact, Spawning, PipeTypeOK, ChildrenExact
<1>6. ChildrenExact'
  <2>1. \A k \in Children : \A p, side : <<k, p, side>> \in holds' <=> <<k, p, side>> \in holds
    BY <1>c
  <2> QED BY <1>a, <2>1 DEF ChildrenExact
<1>7. WritersExact'
  <2> SUFFICES ASSUME NEW k \in Children, NEW q \in Processes,
                      <<q, output[k], "write">> \in holds', q # k
               PROVE  q = Parent /\ \E x \in Pipes : phase'[x] = "parent" /\ childOf[x] = k
    BY <1>a DEF WritersExact
  <2>1. <<q, output[k], "write">> \in holds BY <1>c
  <2>2. PICK x \in Pipes : q = Parent /\ phase[x] = "parent" /\ childOf[x] = k
    BY <2>1 DEF WritersExact
  <2>3. x # o
    <3> SUFFICES ASSUME x = o PROVE FALSE
      OBVIOUS
    <3>1. output[k] # NoPipe BY <2>1 DEF PipeTypeOK
    <3>2. redirects[o] /\ output[k] = end[o]["write"]
      BY <1>a, <2>2, <3>1 DEF SpawnExact
    <3> QED BY <1>c, <2>2, <3>2
  <2>4. phase'[x] = "parent" BY <1>a, <2>2, <2>3 DEF PipeTypeOK
  <2> QED BY <2>2, <2>4
<1>8. unread' \cap sawEnd' = {}
  BY <1>0, <1>a, <1>b DEF PipeTypeOK, ChildrenExact
<1>9. ReplacedHeld'
  <2> SUFFICES ASSUME NEW p \in 1 .. opened, NEW side \in Sides, <<p, side>> \in replaced
               PROVE  /\ <<Parent, p, side>> \in holds'
                      /\ \A x \in Pipes : end'[x][side] # p
    BY <1>a DEF ReplacedHeld
  <2>1. <<Parent, p, side>> \in holds /\ \A x \in Pipes : end[x][side] # p
    BY DEF ReplacedHeld
  <2>2. p # NoPipe /\ p \in 1 .. MaxPipes BY EndRange
  <2> QED BY <1>0, <1>b, <2>1, <2>2
<1> QED BY <1>1, <1>2, <1>3, <1>4, <1>5, <1>6, <1>7, <1>8, <1>9

(* A child keeps the write end of its output ... *)
LEMMA ChildRedirectsStep ==
    ASSUME PipeInv, NEW c \in Children, ChildRedirects(c)
    PROVE  PipeInv'
<1> USE PipeAssumption DEF PipeInv, Processes, Children, Sides, NoPipe, Parent,
        objectVars, childVars, dataVars, ChildRedirects
<1>0. \A q \in Processes, p \in 1 .. MaxPipes, side \in Sides :
          <<q, p, side>> \in holds' <=>
              <<q, p, side>> \in holds /\ ~(q = c /\ p = output[c] /\ side = "read")
  BY DEF PipeTypeOK
<1>1. PipeTypeOK'
  BY <1>0 DEF PipeTypeOK
<1>2. EndsDistinct'
  BY <1>0 DEF EndsDistinct, PipeTypeOK
<1>3. EndsHeld'
  BY <1>0, EndRange DEF EndsHeld
<1>4. OneSpawn'
  BY <1>0 DEF OneSpawn, Spawning, PipeTypeOK
<1>5. SpawnExact'
  BY <1>0 DEF OneSpawn, SpawnExact, Spawning, PipeTypeOK, ChildrenExact
<1>6. ChildrenExact'
  BY <1>0 DEF ChildrenExact, SpawnExact, PipeTypeOK
<1>7. WritersExact'
  BY <1>0 DEF WritersExact, OneSpawn, SpawnExact, Spawning, ChildrenExact, PipeTypeOK
<1>8. unread' \cap sawEnd' = {}
  BY <1>0 DEF PipeTypeOK, ChildrenExact
<1>9. ReplacedHeld'
  <2>1. \A p \in 1 .. opened : \A side \in Sides :
            <<Parent, p, side>> \in holds' <=> <<Parent, p, side>> \in holds
    BY <1>0, EndRange
  <2>2. UNCHANGED <<end, opened, replaced>> OBVIOUS
  <2> QED BY ONLY <2>1, <2>2, ReplacedHeld DEF ReplacedHeld
<1> QED BY <1>1, <1>2, <1>3, <1>4, <1>5, <1>6, <1>7, <1>8, <1>9

(* ... until it ends, ... *)
LEMMA ChildExitsStep ==
    ASSUME PipeInv, NEW c \in Children, ChildExits(c)
    PROVE  PipeInv'
<1> USE PipeAssumption DEF PipeInv, Processes, Children, Sides, NoPipe, Parent,
        objectVars, childVars, dataVars, ChildExits
<1>0. \A q \in Processes, p \in 1 .. MaxPipes, side \in Sides :
          <<q, p, side>> \in holds' <=>
              <<q, p, side>> \in holds /\ q # c
  BY DEF PipeTypeOK
<1>1. PipeTypeOK'
  BY <1>0 DEF PipeTypeOK
<1>2. EndsDistinct'
  BY <1>0 DEF EndsDistinct, PipeTypeOK
<1>3. EndsHeld'
  BY <1>0, EndRange DEF EndsHeld
<1>4. OneSpawn'
  BY <1>0 DEF OneSpawn, Spawning, PipeTypeOK
<1>5. SpawnExact'
  BY <1>0 DEF OneSpawn, SpawnExact, Spawning, PipeTypeOK, ChildrenExact
<1>6. ChildrenExact'
  BY <1>0 DEF ChildrenExact, SpawnExact, PipeTypeOK
<1>7. WritersExact'
  BY <1>0 DEF WritersExact, OneSpawn, SpawnExact, Spawning, ChildrenExact, PipeTypeOK
<1>8. unread' \cap sawEnd' = {}
  BY <1>0 DEF PipeTypeOK, ChildrenExact
<1>9. ReplacedHeld'
  <2>1. \A p \in 1 .. opened : \A side \in Sides :
            <<Parent, p, side>> \in holds' <=> <<Parent, p, side>> \in holds
    BY <1>0, EndRange
  <2>2. UNCHANGED <<end, opened, replaced>> OBVIOUS
  <2> QED BY ONLY <2>1, <2>2, ReplacedHeld DEF ReplacedHeld
<1> QED BY <1>1, <1>2, <1>3, <1>4, <1>5, <1>6, <1>7, <1>8, <1>9

(* ... and may write to it. *)
LEMMA ChildWritesStep ==
    ASSUME PipeInv, NEW c \in Children, ChildWrites(c)
    PROVE  PipeInv'
<1> USE PipeAssumption DEF PipeInv, Processes, Children, Sides, NoPipe, Parent,
        objectVars, childVars, dataVars, ChildWrites
<1>1. PipeTypeOK'
  <2>1. unread' = unread \cup {output[c]} /\ output[c] # NoPipe OBVIOUS
  <2>2. unread' \subseteq 1 .. opened
    <3>1. /\ opened \in Nat /\ unread \subseteq 1 .. opened
          /\ output[c] \in 0 .. opened
      BY SMTT(30) DEF PipeTypeOK
    <3>2. output[c] \in 1 .. opened BY ONLY <2>1, <3>1
    <3> QED BY ONLY <2>1, <3>1, <3>2
  <2> QED BY <2>2 DEF PipeTypeOK
<1>2. EndsDistinct'
  BY DEF EndsDistinct, PipeTypeOK
<1>3. EndsHeld'
  BY DEF EndsHeld, EndsDistinct, PipeTypeOK
<1>4. OneSpawn'
  BY DEF OneSpawn, Spawning, PipeTypeOK
<1>5. SpawnExact'
  BY DEF OneSpawn, SpawnExact, Spawning, PipeTypeOK, ChildrenExact
<1>6. ChildrenExact'
  BY DEF ChildrenExact, SpawnExact, PipeTypeOK
<1>7. WritersExact'
  BY DEF WritersExact, OneSpawn, SpawnExact, Spawning, ChildrenExact, PipeTypeOK
<1>8. unread' \cap sawEnd' = {}
  BY DEF PipeTypeOK, ChildrenExact
<1>9. ReplacedHeld'
  BY DEF ReplacedHeld, PipeTypeOK
<1> QED BY <1>1, <1>2, <1>3, <1>4, <1>5, <1>6, <1>7, <1>8, <1>9

(* read() sees the end of the output of a child that has ended. *)
LEMMA ReadPipeStep ==
    ASSUME PipeInv, NEW o \in Pipes, ReadPipe(o)
    PROVE  PipeInv'
<1> USE PipeAssumption DEF PipeInv, Processes, Children, Sides, NoPipe, Parent,
        objectVars, childVars, dataVars, ReadPipe, NobodySpawns
<1>0. end[o]["read"] \in 1 .. opened BY DEF PipeTypeOK
<1>1. PipeTypeOK'
  <2>1. unread' \subseteq 1 .. opened /\ sawEnd' \subseteq 1 .. opened
    BY <1>0 DEF PipeTypeOK
  <2> QED BY <2>1 DEF PipeTypeOK
<1>2. EndsDistinct'
  BY DEF EndsDistinct, PipeTypeOK
<1>3. EndsHeld'
  BY DEF EndsHeld
<1>4. OneSpawn'
  BY DEF OneSpawn, Spawning, PipeTypeOK
<1>5. SpawnExact'
  BY DEF OneSpawn, SpawnExact, Spawning, PipeTypeOK, ChildrenExact
<1>6. ChildrenExact'
  <2> SUFFICES ASSUME NEW c \in Children, output[c] \in sawEnd', output[c] \notin sawEnd
               PROVE  childState[c] = "ended"
    BY DEF ChildrenExact
  <2>1. /\ output[c] # NoPipe
        /\ \A h \in holds : h[2] = output[c] => h[3] = "read"
    BY <1>0
  <2>2. <<c, output[c], "write">> \notin holds
    <3> SUFFICES ASSUME <<c, output[c], "write">> \in holds PROVE FALSE
      OBVIOUS
    <3> QED BY <2>1
  <2>3. childState[c] \notin {"forked", "running", "none"}
    BY <2>1, <2>2 DEF ChildrenExact
  <2> QED BY <2>3 DEF PipeTypeOK
<1>7. WritersExact'
  BY DEF WritersExact, OneSpawn, SpawnExact, Spawning, ChildrenExact, PipeTypeOK
<1>8. unread' \cap sawEnd' = {}
  BY DEF PipeTypeOK, ChildrenExact
<1>9. ReplacedHeld'
  BY DEF ReplacedHeld, PipeTypeOK
<1> QED BY <1>1, <1>2, <1>3, <1>4, <1>5, <1>6, <1>7, <1>8, <1>9

(* close() and the destructor release the own ends. *)
LEMMA ClosePipeStep ==
    ASSUME PipeInv, NEW o \in Pipes, NEW next \in {"idle", "gone"}, ClosePipe(o, next)
    PROVE  PipeInv'
<1> USE PipeAssumption DEF PipeInv, Processes, Children, Sides, NoPipe, Parent,
        objectVars, childVars, dataVars, ClosePipe, EndsOf, NobodySpawns
<1>0. \A q \in Processes, p \in 1 .. MaxPipes, side \in Sides :
          <<q, p, side>> \in holds' <=>
              <<q, p, side>> \in holds /\ ~(q = Parent /\ p = end[o][side])
  BY DEF PipeTypeOK
<1>1. PipeTypeOK'
  BY <1>0 DEF PipeTypeOK
<1>2. EndsDistinct'
  BY <1>0 DEF EndsDistinct, PipeTypeOK
<1>3. EndsHeld'
  <2>1. \A x \in Pipes, side \in Sides :
            end'[x][side] = IF x = o THEN NoPipe ELSE end[x][side]
    BY DEF PipeTypeOK
  <2>2. ASSUME NEW x \in Pipes, NEW side \in Sides, end'[x][side] # NoPipe
        PROVE  <<Parent, end'[x][side], side>> \in holds'
    <3>1. x # o /\ end'[x][side] = end[x][side] BY <2>1, <2>2
    <3>2. end[x][side] # end[o][side] BY <2>2, <3>1 DEF EndsDistinct
    <3>3. <<Parent, end[x][side], side>> \in holds BY <2>2, <3>1 DEF EndsHeld
    <3>4. end[x][side] \in 1 .. MaxPipes BY <2>2, <3>1, EndRange
    <3> QED BY <1>0, <3>1, <3>2, <3>3, <3>4
  <2>3. ASSUME NEW p \in 1 .. opened, NEW side \in Sides, <<Parent, p, side>> \in holds'
        PROVE  <<p, side>> \in replaced \/ \E x \in Pipes : end'[x][side] = p
    <3>1. <<Parent, p, side>> \in holds /\ p # end[o][side] BY <1>0, <2>3, EndRange
    <3>2. <<p, side>> \in replaced \/ \E x \in Pipes : end[x][side] = p
      BY <3>1 DEF EndsHeld
    <3> QED BY <2>1, <3>1, <3>2
  <2> QED BY <2>2, <2>3 DEF EndsHeld
<1>4. OneSpawn'
  BY <1>0 DEF OneSpawn, Spawning, PipeTypeOK
<1>5. SpawnExact'
  BY <1>0 DEF OneSpawn, SpawnExact, Spawning, PipeTypeOK, ChildrenExact
<1>6. ChildrenExact'
  BY <1>0 DEF ChildrenExact, SpawnExact, PipeTypeOK
<1>7. WritersExact'
  BY <1>0 DEF WritersExact, OneSpawn, SpawnExact, Spawning, ChildrenExact, PipeTypeOK
<1>8. unread' \cap sawEnd' = {}
  BY <1>0 DEF PipeTypeOK, ChildrenExact
<1>9. ReplacedHeld'
  <2>1. \A x \in Pipes, side \in Sides :
            end'[x][side] = IF x = o THEN NoPipe ELSE end[x][side]
    BY DEF PipeTypeOK
  <2>2. \A p \in 1 .. opened : p # NoPipe /\ p \in 1 .. MaxPipes BY EndRange
  <2>3. ASSUME NEW p \in 1 .. opened, NEW side \in Sides, <<p, side>> \in replaced
        PROVE  /\ <<Parent, p, side>> \in holds'
               /\ \A x \in Pipes : end'[x][side] # p
    <3>1. <<Parent, p, side>> \in holds /\ \A x \in Pipes : end[x][side] # p
      BY <2>3 DEF ReplacedHeld
    <3> QED BY <1>0, <2>1, <2>2, <3>1
  <2> QED BY <2>3 DEF ReplacedHeld
<1> QED BY <1>1, <1>2, <1>3, <1>4, <1>5, <1>6, <1>7, <1>8, <1>9

(* Every step keeps the invariant of the pipes. *)
LEMMA NextPipeInv == PipeInv /\ [PipeNext]_pipeVars => PipeInv'
<1> SUFFICES ASSUME PipeInv, [PipeNext]_pipeVars PROVE PipeInv'
  OBVIOUS
<1>1. CASE PipeNext
  BY <1>1, OpenPipeStep, SpawnStep, ForkStep, ParentCloseWriteStep, ReadPipeStep,
     ClosePipeStep, ChildRedirectsStep, ChildWritesStep, ChildExitsStep
     DEF PipeNext, DestroyPipe
<1>2. CASE UNCHANGED pipeVars
  <2> USE <1>2 DEF PipeInv, pipeVars, objectVars, childVars, dataVars
  <2>1. PipeTypeOK' BY DEF PipeTypeOK
  <2>2. EndsDistinct' /\ EndsHeld' /\ ReplacedHeld' BY DEF EndsDistinct, EndsHeld, ReplacedHeld
  <2>3. OneSpawn' /\ SpawnExact' BY DEF OneSpawn, SpawnExact, Spawning
  <2>4. ChildrenExact' /\ WritersExact' BY DEF ChildrenExact, WritersExact
  <2> QED BY <2>1, <2>2, <2>3, <2>4
<1> QED BY <1>1, <1>2

(* It says of the sets of ends what EndsKnown and OutputEnds ask. *)
LEMMA InvEndsKnown == PipeInv => EndsKnown
<1> SUFFICES ASSUME PipeInv, NEW p \in KernelPipes, NEW side \in Sides
             PROVE  <<Parent, p, side>> \in holds <=>
                        (\E o \in Pipes : end[o][side] = p) \/ <<p, side>> \in replaced
  BY DEF EndsKnown
<1>1. ASSUME <<Parent, p, side>> \in holds
      PROVE  (\E o \in Pipes : end[o][side] = p) \/ <<p, side>> \in replaced
  <2>1. p \in 1 .. opened BY <1>1 DEF PipeInv, PipeTypeOK
  <2> QED BY <1>1, <2>1 DEF PipeInv, EndsHeld
<1>2. ASSUME NEW o \in Pipes, end[o][side] = p PROVE <<Parent, p, side>> \in holds
  <2>1. p # NoPipe BY PipeAssumption DEF KernelPipes, NoPipe
  <2> QED BY <1>2, <2>1 DEF PipeInv, EndsHeld
<1>3. ASSUME <<p, side>> \in replaced PROVE <<Parent, p, side>> \in holds
  <2>1. p \in 1 .. opened BY <1>3 DEF PipeInv, PipeTypeOK
  <2> QED BY <1>3, <2>1 DEF PipeInv, ReplacedHeld
<1> QED BY <1>1, <1>2, <1>3

(* Who holds the write ends decides when the reader sees the end. *)
LEMMA InvOutputEnds == PipeInv => OutputEnds
<1> SUFFICES ASSUME PipeInv PROVE OutputEnds
  OBVIOUS
<1>1. ASSUME NEW c \in Children, childState[c] = "ended",
             \A o \in Pipes : phase[o] = "parent" => childOf[o] # c,
             NEW h \in holds, h[2] = output[c]
      PROVE  h[3] = "read"
  <2>1. /\ h = <<h[1], output[c], h[3]>> /\ h[1] \in Processes
        /\ h[3] \in Sides /\ output[c] \in 1 .. opened
    BY <1>1 DEF PipeInv, PipeTypeOK
  <2>2. CASE h[3] = "write"
    <3>1. <<h[1], output[c], "write">> \in holds BY <2>1, <2>2
    <3>2. h[1] = c BY <1>1, <2>1, <3>1 DEF PipeInv, WritersExact
    <3> QED BY <1>1, <2>1, <2>2, <3>1, <3>2 DEF PipeInv, ChildrenExact, Sides
  <2> QED BY <2>1, <2>2 DEF Sides
<1>2. \A c \in Children : output[c] \in sawEnd => childState[c] = "ended"
  BY DEF PipeInv, ChildrenExact
<1> QED BY <1>1, <1>2 DEF OutputEnds, PipeInv

-----------------------------------------------------------------------------
(* What counting needs: a finite set of owners, one more and one less. *)
LEMMA OwnersMove ==
    ASSUME NEW S, IsFiniteSet(S), NEW R \in SUBSET S
    PROVE  Cardinality(R) \in Nat /\ (Cardinality(R) = 0 <=> R = {})
<1>1. IsFiniteSet(R) BY FS_Subset
<1>2. Cardinality(R) \in Nat BY <1>1, FS_CardinalityType
<1>3. Cardinality(R) = 0 <=> R = {} BY <1>1, FS_EmptySet
<1> QED BY <1>2, <1>3

(* One owner more. *)
LEMMA OwnerComes ==
    ASSUME NEW S, IsFiniteSet(S), NEW R \in SUBSET S, NEW l \in S
    PROVE  Cardinality(R \cup {l}) = IF l \in R THEN Cardinality(R) ELSE Cardinality(R) + 1
<1>1. IsFiniteSet(R) BY FS_Subset
<1> QED BY <1>1, FS_AddElement

(* One owner less. *)
LEMMA OwnerGoes ==
    ASSUME NEW S, IsFiniteSet(S), NEW R \in SUBSET S, NEW l \in S
    PROVE  Cardinality(R \ {l}) = IF l \in R THEN Cardinality(R) - 1 ELSE Cardinality(R)
<1>1. IsFiniteSet(R) BY FS_Subset
<1> QED BY <1>1, FS_RemoveElement

-----------------------------------------------------------------------------
(* Lut *)

LutOwners(x) == {l \in Luts : lut[l] = x}

LutTypeOK ==
    /\ tables \in 0 .. MaxTables
    /\ lut \in [Luts -> {NoLut, NoTables} \cup (1 .. tables)]
    /\ owners \in [Tables -> Int]
    /\ deleted \in [Tables -> Nat]
    /\ miscounted \subseteq 1 .. tables

(* A table that is not allocated yet is not deleted. *)
TablesFresh == \A x \in Tables : x > tables => deleted[x] = 0

(* The counter of a table counts its owners. *)
TablesCounted ==
    \A x \in (1 .. tables) \ miscounted :
        /\ owners[x] = Cardinality(LutOwners(x))
        /\ deleted[x] = IF LutOwners(x) = {} THEN 1 ELSE 0

LutInv == LutTypeOK /\ TablesFresh /\ TablesCounted

(* The owners of table x when Lut l has turned to y. *)
LEMMA LutMoves ==
    ASSUME LutInv, NEW l \in Luts, NEW y, lut' = [lut EXCEPT ![l] = y], NEW x
    PROVE  /\ LutOwners(x)' = IF y = x THEN LutOwners(x) \cup {l} ELSE LutOwners(x) \ {l}
           /\ Cardinality(LutOwners(x)) \in Nat
           /\ Cardinality(LutOwners(x)) = 0 <=> LutOwners(x) = {}
           /\ Cardinality(LutOwners(x)') = 0 <=> LutOwners(x)' = {}
           /\ Cardinality(LutOwners(x)') =
                 Cardinality(LutOwners(x)) - (IF lut[l] = x THEN 1 ELSE 0)
                                           + (IF y = x THEN 1 ELSE 0)
<1>1. LutOwners(x)' = IF y = x THEN LutOwners(x) \cup {l} ELSE LutOwners(x) \ {l}
  BY DEF LutInv, LutTypeOK, LutOwners
<1>2. l \in LutOwners(x) <=> lut[l] = x BY DEF LutOwners
<1>3. LutOwners(x) \in SUBSET Luts BY DEF LutOwners
<1>4. IsFiniteSet(Luts) BY LutAssumption
<1> DEFINE R == LutOwners(x)
<1>5. /\ Cardinality(R) \in Nat
      /\ Cardinality(R) = 0 <=> R = {}
      /\ Cardinality(R \cup {l}) = IF l \in R THEN Cardinality(R) ELSE Cardinality(R) + 1
      /\ Cardinality(R \ {l}) = IF l \in R THEN Cardinality(R) - 1 ELSE Cardinality(R)
  <2> HIDE DEF R
  <2>1. R \in SUBSET Luts BY <1>3 DEF R
  <2>2. Cardinality(R) \in Nat BY ONLY <2>1, <1>4, OwnersMove
  <2>3. Cardinality(R) = 0 <=> R = {} BY ONLY <2>1, <1>4, OwnersMove
  <2>4. Cardinality(R \cup {l}) = IF l \in R THEN Cardinality(R) ELSE Cardinality(R) + 1
    BY ONLY <2>1, <1>4, OwnerComes, l \in Luts
  <2>5. Cardinality(R \ {l}) = IF l \in R THEN Cardinality(R) - 1 ELSE Cardinality(R)
    BY ONLY <2>1, <1>4, OwnerGoes, l \in Luts
  <2> QED BY ONLY <2>2, <2>3, <2>4, <2>5
<1> HIDE DEF R
<1>8. Cardinality(LutOwners(x)') = 0 <=> LutOwners(x)' = {}
  <2>1. LutOwners(x)' \in SUBSET Luts BY DEF LutOwners
  <2> QED BY ONLY <2>1, <1>4, OwnersMove
<1>6. CASE y = x
  BY <1>1, <1>2, <1>5, <1>6, <1>8 DEF R
<1>7. CASE y # x
  BY <1>1, <1>2, <1>5, <1>7, <1>8 DEF R
<1> QED BY <1>6, <1>7

(* No look-up table is constructed at the beginning. *)
LEMMA InitLutInv == LutInit => LutInv
  BY LutAssumption DEF LutInit, LutInv, LutTypeOK, TablesFresh, TablesCounted, Tables, NoLut,
         NoTables

(* Every construction, copy, assignment and destruction keeps the counters. *)
LEMMA NextLutInv == LutInv /\ [LutNext]_lutVars => LutInv'
<1> SUFFICES ASSUME LutInv, [LutNext]_lutVars PROVE LutInv'
  OBVIOUS
<1> USE LutAssumption DEF LutInv, Tables, NoLut, NoTables
<1>1. ASSUME NEW l \in Luts, ConstructNull(l) PROVE LutInv'
  <2> USE <1>1 DEF ConstructNull
  <2>1. LutTypeOK' BY DEF LutTypeOK
  <2>2. TablesFresh' BY DEF TablesFresh, LutTypeOK
  <2>3. TablesCounted'
    <3> SUFFICES ASSUME NEW x \in (1 .. tables') \ miscounted'
                 PROVE  /\ owners'[x] = Cardinality(LutOwners(x)')
                        /\ deleted'[x] = IF LutOwners(x)' = {} THEN 1 ELSE 0
      BY DEF TablesCounted
    <3>1. lut' = [lut EXCEPT ![l] = NoTables] BY DEF LutTypeOK
    <3>2. /\ LutOwners(x)' = IF NoTables = x THEN LutOwners(x) \cup {l} ELSE LutOwners(x) \ {l}
          /\ Cardinality(LutOwners(x)) \in Nat
          /\ Cardinality(LutOwners(x)) = 0 <=> LutOwners(x) = {}
          /\ Cardinality(LutOwners(x)') = 0 <=> LutOwners(x)' = {}
          /\ Cardinality(LutOwners(x)') =
                Cardinality(LutOwners(x)) - (IF lut[l] = x THEN 1 ELSE 0)
                                          + (IF NoTables = x THEN 1 ELSE 0)
      BY ONLY <3>1, LutInv, l \in Luts, LutMoves
    <3> QED BY <3>2 DEF TablesCounted, LutTypeOK, TablesFresh
  <2> QED BY <2>1, <2>2, <2>3
<1>2. ASSUME NEW l \in Luts, ConstructDepth(l) PROVE LutInv'
  <2> USE <1>2 DEF ConstructDepth
  <2>1. LutTypeOK' BY DEF LutTypeOK
  <2>2. TablesFresh' BY DEF TablesFresh, LutTypeOK
  <2>3. TablesCounted'
    <3> SUFFICES ASSUME NEW x \in (1 .. tables') \ miscounted'
                 PROVE  /\ owners'[x] = Cardinality(LutOwners(x)')
                        /\ deleted'[x] = IF LutOwners(x)' = {} THEN 1 ELSE 0
      BY DEF TablesCounted
    <3>1. lut' = [lut EXCEPT ![l] = tables'] BY DEF LutTypeOK
    <3>2. /\ LutOwners(x)' = IF tables' = x THEN LutOwners(x) \cup {l} ELSE LutOwners(x) \ {l}
          /\ Cardinality(LutOwners(x)) \in Nat
          /\ Cardinality(LutOwners(x)) = 0 <=> LutOwners(x) = {}
          /\ Cardinality(LutOwners(x)') = 0 <=> LutOwners(x)' = {}
          /\ Cardinality(LutOwners(x)') =
                Cardinality(LutOwners(x)) - (IF lut[l] = x THEN 1 ELSE 0)
                                          + (IF tables' = x THEN 1 ELSE 0)
      BY ONLY <3>1, LutInv, l \in Luts, LutMoves
    <3>3. CASE x = tables'
      <4>1. LutOwners(x) = {}
        <5>1. tables \in Nat /\ x = tables + 1 BY <3>3 DEF LutTypeOK
        <5>2. \A k \in Luts : lut[k] # x BY ONLY <5>1, LutTypeOK DEF LutTypeOK, NoLut, NoTables
        <5> QED BY ONLY <5>2 DEF LutOwners
      <4>2. Cardinality(LutOwners(x)') = 1 /\ LutOwners(x)' # {}
        BY <3>2, <3>3, <4>1 DEF LutTypeOK
      <4>3. owners'[x] = 1 /\ deleted'[x] = 0 BY <3>3 DEF LutTypeOK, TablesFresh
      <4> QED BY <4>2, <4>3
    <3>4. CASE x # tables'
      BY <3>2, <3>4 DEF TablesCounted, LutTypeOK
    <3> QED BY <3>3, <3>4
  <2> QED BY <2>1, <2>2, <2>3
<1>3. ASSUME NEW l \in Luts, DestroyLut(l), lut[l] = NoTables PROVE LutInv'
  <2> USE <1>3 DEF DestroyLut, Usable
  <2>1. LutTypeOK' BY DEF LutTypeOK
  <2>2. TablesFresh' BY DEF TablesFresh, LutTypeOK
  <2>3. TablesCounted'
    <3> SUFFICES ASSUME NEW x \in (1 .. tables') \ miscounted'
                 PROVE  /\ owners'[x] = Cardinality(LutOwners(x)')
                        /\ deleted'[x] = IF LutOwners(x)' = {} THEN 1 ELSE 0
      BY DEF TablesCounted
    <3>1. lut' = [lut EXCEPT ![l] = NoLut] BY DEF LutTypeOK
    <3>2. /\ LutOwners(x)' = IF NoLut = x THEN LutOwners(x) \cup {l} ELSE LutOwners(x) \ {l}
          /\ Cardinality(LutOwners(x)) \in Nat
          /\ Cardinality(LutOwners(x)) = 0 <=> LutOwners(x) = {}
          /\ Cardinality(LutOwners(x)') = 0 <=> LutOwners(x)' = {}
          /\ Cardinality(LutOwners(x)') =
                Cardinality(LutOwners(x)) - (IF lut[l] = x THEN 1 ELSE 0)
                                          + (IF NoLut = x THEN 1 ELSE 0)
      BY ONLY <3>1, LutInv, l \in Luts, LutMoves
    <3> QED BY <3>2 DEF TablesCounted, LutTypeOK, TablesFresh
  <2> QED BY <2>1, <2>2, <2>3
<1>9. ASSUME NEW l \in Luts, DestroyLut(l), lut[l] # NoTables PROVE LutInv'
  <2> USE <1>9 DEF DestroyLut, CountsDown, Usable
  <2>0. lut[l] \in 1 .. tables /\ deleted[lut[l]] = 0 BY DEF LutTypeOK
  <2>a. /\ owners' = [owners EXCEPT ![lut[l]] = owners[lut[l]] - 1]
        /\ deleted' = [deleted EXCEPT ![lut[l]] =
                         IF owners[lut[l]] = 1 THEN deleted[lut[l]] + 1 ELSE deleted[lut[l]]]
        /\ UNCHANGED tables
    OBVIOUS
  <2>b. owners' \in [Tables -> Int] /\ deleted' \in [Tables -> Nat]
    BY <2>0, <2>a DEF LutTypeOK
  <2>1. LutTypeOK' BY <2>0, <2>a, <2>b DEF LutTypeOK
  <2>2. TablesFresh' BY <2>0, <2>a DEF TablesFresh, LutTypeOK
  <2>3. TablesCounted'
    <3> SUFFICES ASSUME NEW x \in (1 .. tables') \ miscounted'
                 PROVE  /\ owners'[x] = Cardinality(LutOwners(x)')
                        /\ deleted'[x] = IF LutOwners(x)' = {} THEN 1 ELSE 0
      BY DEF TablesCounted
    <3>1. lut' = [lut EXCEPT ![l] = NoLut] BY DEF LutTypeOK
    <3>2. /\ LutOwners(x)' = IF NoLut = x THEN LutOwners(x) \cup {l} ELSE LutOwners(x) \ {l}
          /\ Cardinality(LutOwners(x)) \in Nat
          /\ Cardinality(LutOwners(x)) = 0 <=> LutOwners(x) = {}
          /\ Cardinality(LutOwners(x)') = 0 <=> LutOwners(x)' = {}
          /\ Cardinality(LutOwners(x)') =
                Cardinality(LutOwners(x)) - (IF lut[l] = x THEN 1 ELSE 0)
                                          + (IF NoLut = x THEN 1 ELSE 0)
      BY ONLY <3>1, LutInv, l \in Luts, LutMoves
    <3>3. CASE x = lut[l]
      BY <2>0, <2>a, <3>2, <3>3 DEF TablesCounted, LutTypeOK
    <3>4. CASE x # lut[l]
      BY <2>0, <2>a, <3>2, <3>4, SMTT(30) DEF TablesCounted, LutTypeOK
    <3> QED BY <3>3, <3>4
  <2> QED BY <2>1, <2>2, <2>3
<1>4. ASSUME NEW l \in Luts, NEW source \in Luts, CopyLut(l, source) PROVE LutInv'
  <2> USE <1>4 DEF CopyLut, Usable
  <2>1. LutTypeOK' BY SMTT(30) DEF LutTypeOK
  <2>2. TablesFresh' BY DEF TablesFresh, LutTypeOK
  <2>3. TablesCounted'
    <3> SUFFICES ASSUME NEW x \in (1 .. tables') \ miscounted'
                 PROVE  /\ owners'[x] = Cardinality(LutOwners(x)')
                        /\ deleted'[x] = IF LutOwners(x)' = {} THEN 1 ELSE 0
      BY DEF TablesCounted
    <3>1. lut' = [lut EXCEPT ![l] = lut[source]] BY DEF LutTypeOK
    <3>2. /\ LutOwners(x)' = IF lut[source] = x THEN LutOwners(x) \cup {l} ELSE LutOwners(x) \ {l}
          /\ Cardinality(LutOwners(x)) \in Nat
          /\ Cardinality(LutOwners(x)) = 0 <=> LutOwners(x) = {}
          /\ Cardinality(LutOwners(x)') = 0 <=> LutOwners(x)' = {}
          /\ Cardinality(LutOwners(x)') =
                Cardinality(LutOwners(x)) - (IF lut[l] = x THEN 1 ELSE 0)
                                          + (IF lut[source] = x THEN 1 ELSE 0)
      BY ONLY <3>1, LutInv, l \in Luts, LutMoves
    <3> QED BY <3>2, SMTT(30) DEF TablesCounted, LutTypeOK, TablesFresh
  <2> QED BY <2>1, <2>2, <2>3
<1>5. ASSUME NEW l \in Luts, NEW source \in Luts, AssignLut(l, source) PROVE LutInv'
  <2> USE <1>5 DEF AssignLut, Usable
  <2>1. LutTypeOK' BY SMTT(30) DEF LutTypeOK
  <2>2. TablesFresh' BY DEF TablesFresh, LutTypeOK
  <2>3. TablesCounted'
    <3> SUFFICES ASSUME NEW x \in (1 .. tables') \ miscounted'
                 PROVE  /\ owners'[x] = Cardinality(LutOwners(x)')
                        /\ deleted'[x] = IF LutOwners(x)' = {} THEN 1 ELSE 0
      BY DEF TablesCounted
    <3>1. lut' = [lut EXCEPT ![l] = lut[source]] BY DEF LutTypeOK
    <3>2. /\ LutOwners(x)' = IF lut[source] = x THEN LutOwners(x) \cup {l} ELSE LutOwners(x) \ {l}
          /\ Cardinality(LutOwners(x)) \in Nat
          /\ Cardinality(LutOwners(x)) = 0 <=> LutOwners(x) = {}
          /\ Cardinality(LutOwners(x)') = 0 <=> LutOwners(x)' = {}
          /\ Cardinality(LutOwners(x)') =
                Cardinality(LutOwners(x)) - (IF lut[l] = x THEN 1 ELSE 0)
                                          + (IF lut[source] = x THEN 1 ELSE 0)
      BY ONLY <3>1, LutInv, l \in Luts, LutMoves
    <3>3. /\ owners'[x] = owners[x] - (IF x = lut[l] THEN 1 ELSE 0)
                                  + (IF x = lut[source] THEN 1 ELSE 0)
          /\ deleted'[x] = IF x = lut[l] /\ owners[x] = 1 THEN deleted[x] + 1 ELSE deleted[x]
          /\ x \in (1 .. tables) \ miscounted
      BY DEF LutTypeOK
    <3>4. x = lut[source] => LutOwners(x) # {} /\ LutOwners(x)' # {}
      BY <3>1 DEF LutOwners, LutTypeOK
    <3>5. x = lut[l] => LutOwners(x) # {} BY DEF LutOwners
    <3>6. x = lut[source] /\ x = lut[l] => Cardinality(LutOwners(x)) > 1
      <4> SUFFICES ASSUME x = lut[source], x = lut[l], Cardinality(LutOwners(x)) = 1 PROVE FALSE
        BY <3>2, <3>5
      <4>1. LutOwners(x) \in SUBSET Luts /\ l \in LutOwners(x) /\ source \in LutOwners(x)
        BY DEF LutOwners
      <4>2. Cardinality(LutOwners(x) \ {l}) = 0 BY ONLY <4>1, OwnerGoes, LutAssumption,
            Cardinality(LutOwners(x)) = 1, l \in Luts
      <4>3. LutOwners(x) \ {l} = {}
        <5>1. LutOwners(x) \ {l} \in SUBSET Luts BY ONLY <4>1
        <5> QED BY ONLY <5>1, <4>2, OwnersMove, LutAssumption
      <4> QED BY <4>1, <4>3
    <3>7. /\ owners[x] = Cardinality(LutOwners(x))
          /\ deleted[x] = IF LutOwners(x) = {} THEN 1 ELSE 0
      BY <3>3 DEF TablesCounted
    <3> HIDE <1>5 DEF AssignLut, Usable
    <3> QED BY <3>2, <3>3, <3>4, <3>5, <3>6, <3>7
  <2> QED BY <2>1, <2>2, <2>3
<1>6. ASSUME NEW l \in Luts, NEW source \in Luts, AssignNull(l, source) PROVE LutInv'
  <2> USE <1>6 DEF AssignNull, CountsDown, Usable
  <2>0. lut[l] \in 1 .. tables /\ deleted[lut[l]] = 0 BY DEF LutTypeOK
  <2>a. /\ owners' = [owners EXCEPT ![lut[l]] = owners[lut[l]] - 1]
        /\ deleted' = [deleted EXCEPT ![lut[l]] =
                         IF owners[lut[l]] = 1 THEN deleted[lut[l]] + 1 ELSE deleted[lut[l]]]
        /\ UNCHANGED tables
    OBVIOUS
  <2>b. owners' \in [Tables -> Int] /\ deleted' \in [Tables -> Nat]
    BY <2>0, <2>a DEF LutTypeOK
  <2>1. LutTypeOK'
    <3>1. lut' \in [Luts -> {NoLut, NoTables} \cup (1 .. tables)] BY <2>0 DEF LutTypeOK
    <3>2. miscounted' \subseteq 1 .. tables BY <2>0 DEF LutTypeOK
    <3> QED BY <2>a, <2>b, <3>1, <3>2 DEF LutTypeOK
  <2>2. TablesFresh' BY <2>0, <2>a DEF TablesFresh, LutTypeOK
  <2>3. TablesCounted'
    <3> SUFFICES ASSUME NEW x \in (1 .. tables') \ miscounted'
                 PROVE  /\ owners'[x] = Cardinality(LutOwners(x)')
                        /\ deleted'[x] = IF LutOwners(x)' = {} THEN 1 ELSE 0
      BY DEF TablesCounted
    <3>1. lut' = [lut EXCEPT ![l] = lut'[l]] BY DEF LutTypeOK
    <3>2. /\ LutOwners(x)' = IF lut'[l] = x THEN LutOwners(x) \cup {l} ELSE LutOwners(x) \ {l}
          /\ Cardinality(LutOwners(x)) \in Nat
          /\ Cardinality(LutOwners(x)) = 0 <=> LutOwners(x) = {}
          /\ Cardinality(LutOwners(x)') = 0 <=> LutOwners(x)' = {}
          /\ Cardinality(LutOwners(x)') =
                Cardinality(LutOwners(x)) - (IF lut[l] = x THEN 1 ELSE 0)
                                          + (IF lut'[l] = x THEN 1 ELSE 0)
      BY ONLY <3>1, LutInv, l \in Luts, LutMoves
    <3>3. CASE x = lut[l]
      BY <2>0, <2>a, <3>2, <3>3 DEF TablesCounted, LutTypeOK
    <3>4. CASE x # lut[l]
      BY <2>0, <2>a, <3>2, <3>4, SMTT(30) DEF TablesCounted, LutTypeOK
    <3> QED BY <3>3, <3>4
  <2> QED BY <2>1, <2>2, <2>3
<1>7. ASSUME NEW l \in Luts, AssignSame(l) PROVE LutInv'
  <2>0. lut[l] \in 1 .. tables BY <1>7 DEF AssignSame, Usable, LutTypeOK
  <2>1. /\ owners' = [owners EXCEPT ![lut[l]] = owners[lut[l]] + 1]
        /\ miscounted' = miscounted \cup {lut[l]}
        /\ UNCHANGED <<lut, tables, deleted>>
    BY <1>7 DEF AssignSame
  <2>2. LutTypeOK'
    <3>1. owners' \in [Tables -> Int] BY <2>0, <2>1 DEF LutTypeOK
    <3> QED BY <2>0, <2>1, <3>1 DEF LutTypeOK
  <2>3. TablesFresh' BY <2>1 DEF TablesFresh
  <2>4. TablesCounted'
    <3>1. \A x : LutOwners(x)' = LutOwners(x) BY <2>1 DEF LutOwners
    <3>2. \A x \in (1 .. tables) \ miscounted' : x \notin miscounted /\ owners'[x] = owners[x]
      BY <2>0, <2>1 DEF LutTypeOK
    <3> QED BY <2>1, <3>1, <3>2 DEF TablesCounted
  <2> QED BY <2>2, <2>3, <2>4
<1>8. CASE UNCHANGED lutVars
  BY <1>8, ZenonT(30) DEF lutVars, LutOwners, LutTypeOK, TablesFresh, TablesCounted
<1> QED BY <1>1, <1>2, <1>3, <1>4, <1>5, <1>6, <1>7, <1>8, <1>9 DEF LutNext

(* Tables whose counter counts the owners are deleted once. *)
LEMMA InvTablesExact == LutInv => TablesExact
  BY DEF LutInv, TablesCounted, TablesExact, LutOwners

-----------------------------------------------------------------------------
(* Image *)

(* The buffer an object owns, and the owners of a buffer. *)
Buf(i) == IF image[i] = NoImage THEN NoBuffer ELSE image[i].m_buffer
BufOwners(b) == {i \in Images : Buf(i) = b}
Dying(b) == \E t \in ImageThreads : deleting[t] = b

BufferTypeOK ==
    /\ allocated \in 0 .. MaxBuffers
    /\ refs \in [Buffers -> Int]
    /\ deletes \in [Buffers -> Nat]
    /\ deleting \in [ImageThreads -> 0 .. allocated]
    /\ selfCopied \subseteq 1 .. allocated
    /\ \A i \in Images : Buf(i) \in 0 .. allocated

(* A buffer that is not allocated yet is not deleted. *)
BuffersFresh == \A b \in Buffers : b > allocated => deletes[b] = 0

(* The counter counts the owners, and once more after an assignment of an  *)
(* image to itself.                                                        *)
RefsExact ==
    \A b \in 1 .. allocated :
        refs[b] = Cardinality(BufOwners(b)) + (IF b \in selfCopied THEN 1 ELSE 0)

(* A buffer without owners is about to be deleted by one thread, or was.   *)
DeletesExact ==
    \A b \in 1 .. allocated :
        /\ BufOwners(b) # {} \/ b \in selfCopied => deletes[b] = 0 /\ ~Dying(b)
        /\ BufOwners(b) = {} /\ b \notin selfCopied => deletes[b] = IF Dying(b) THEN 0 ELSE 1

DyingOnce ==
    \A t, u \in ImageThreads : deleting[t] # NoBuffer /\ deleting[t] = deleting[u] => t = u

BufferInv == BufferTypeOK /\ BuffersFresh /\ RefsExact /\ DeletesExact /\ DyingOnce

ImageTypes == DOMAIN TypeTable \cup {"TYPE_INVALID"}

MemberRecords ==
    [m_buffer : 0 .. MaxBuffers, m_ref : 0 .. MaxBuffers, memory : Int, offset : Int,
     m_size : Int \X Int, m_type : ImageTypes, m_lineStride : Int]

ImageTypeOK ==
    /\ image \in [Images -> MemberRecords \cup {NoImage}]
    /\ user \in [Images -> ImageThreads]
    /\ origin \in [Images -> Int \X Int]
    /\ bytes \in [Buffers -> Int]

(* What the members of an image say of its memory, when the buffers have   *)
(* the sizes "has".                                                        *)
MembersOK(m, from, has) ==
    /\ m.m_ref = m.m_buffer
    /\ m.m_buffer # NoBuffer => m.memory # NoBuffer
    /\ m.memory # NoBuffer =>
          /\ m.m_type \in DOMAIN TypeTable
          /\ m.m_lineStride >= 0
          /\ m.m_size[1] * BytesPerPixel(m.m_type) <= m.m_lineStride
          /\ m.offset = from[2] * m.m_lineStride + from[1] * BytesPerPixel(m.m_type)
          /\ m.m_buffer # NoBuffer =>
                TotalSize(m) <= has[m.m_buffer] /\ EndOfMat(m) <= has[m.m_buffer]

ImagesOK == \A i \in Images : Constructed(i) => MembersOK(image[i], origin[i], bytes)

ImageInv == BufferInv /\ ImageTypeOK /\ ImagesOK

(* Image i turns to buffer y, and no other image to another one. *)
Turns(i, y) == \A k \in Images : Buf(k)' = IF k = i THEN y ELSE Buf(k)

(* The owners of buffer x when image i has turned to buffer y. *)
LEMMA BufferMoves ==
    ASSUME NEW i \in Images, NEW y, NEW x,
           Turns(i, y)
    PROVE  /\ BufOwners(x)' = IF y = x THEN BufOwners(x) \cup {i} ELSE BufOwners(x) \ {i}
           /\ Cardinality(BufOwners(x)) \in Nat
           /\ Cardinality(BufOwners(x)) = 0 <=> BufOwners(x) = {}
           /\ Cardinality(BufOwners(x)') = 0 <=> BufOwners(x)' = {}
           /\ Cardinality(BufOwners(x)') =
                 Cardinality(BufOwners(x)) - (IF Buf(i) = x THEN 1 ELSE 0)
                                           + (IF y = x THEN 1 ELSE 0)
<1>1. BufOwners(x)' = IF y = x THEN BufOwners(x) \cup {i} ELSE BufOwners(x) \ {i}
  BY DEF BufOwners, Turns
<1>2. i \in BufOwners(x) <=> Buf(i) = x BY DEF BufOwners
<1>3. BufOwners(x) \in SUBSET Images BY DEF BufOwners
<1>4. IsFiniteSet(Images) BY ImageAssumption
<1> DEFINE R == BufOwners(x)
<1>5. /\ Cardinality(R) \in Nat
      /\ Cardinality(R) = 0 <=> R = {}
      /\ Cardinality(R \cup {i}) = IF i \in R THEN Cardinality(R) ELSE Cardinality(R) + 1
      /\ Cardinality(R \ {i}) = IF i \in R THEN Cardinality(R) - 1 ELSE Cardinality(R)
  <2> HIDE DEF R
  <2>1. R \in SUBSET Images BY <1>3 DEF R
  <2>2. Cardinality(R) \in Nat BY ONLY <2>1, <1>4, OwnersMove
  <2>3. Cardinality(R) = 0 <=> R = {} BY ONLY <2>1, <1>4, OwnersMove
  <2>4. Cardinality(R \cup {i}) = IF i \in R THEN Cardinality(R) ELSE Cardinality(R) + 1
    BY ONLY <2>1, <1>4, OwnerComes, i \in Images
  <2>5. Cardinality(R \ {i}) = IF i \in R THEN Cardinality(R) - 1 ELSE Cardinality(R)
    BY ONLY <2>1, <1>4, OwnerGoes, i \in Images
  <2> QED BY ONLY <2>2, <2>3, <2>4, <2>5
<1> HIDE DEF R
<1>8. Cardinality(BufOwners(x)') = 0 <=> BufOwners(x)' = {}
  <2>1. BufOwners(x)' \in SUBSET Images BY DEF BufOwners
  <2> QED BY ONLY <2>1, <1>4, OwnersMove
<1>6. CASE y = x
  BY <1>1, <1>2, <1>5, <1>6, <1>8 DEF R
<1>7. CASE y # x
  BY <1>1, <1>2, <1>5, <1>7, <1>8 DEF R
<1> QED BY <1>6, <1>7

(* A buffer with two owners is counted twice. *)
LEMMA TwoOwners ==
    ASSUME NEW i \in Images, NEW k \in Images, i # k, NEW x, Buf(i) = x, Buf(k) = x
    PROVE  Cardinality(BufOwners(x)) > 1
<1>1. /\ BufOwners(x) \in SUBSET Images /\ i \in BufOwners(x) /\ k \in BufOwners(x)
      /\ BufOwners(x) \ {i} \in SUBSET Images
  BY DEF BufOwners
<1>4. IsFiniteSet(Images) BY ImageAssumption
<1> DEFINE R == BufOwners(x)
<1> HIDE DEF R
<1>2. R \in SUBSET Images /\ i \in R /\ k \in R /\ R \ {i} \in SUBSET Images /\ R \ {i} # {}
  BY <1>1 DEF R
<1>5. Cardinality(R) \in Nat BY ONLY <1>2, <1>4, OwnersMove
<1>6. Cardinality(R \ {i}) \in Nat BY ONLY <1>2, <1>4, OwnersMove
<1>7. Cardinality(R \ {i}) # 0 BY ONLY <1>2, <1>4, OwnersMove
<1>8. Cardinality(R \ {i}) = Cardinality(R) - 1
  <2>1. Cardinality(R \ {i}) = IF i \in R THEN Cardinality(R) - 1 ELSE Cardinality(R)
    BY ONLY <1>2, <1>4, OwnerGoes, i \in Images
  <2> QED BY ONLY <2>1, <1>2
<1>9. Cardinality(R) > 1 BY ONLY <1>5, <1>6, <1>7, <1>8
<1> QED BY <1>9 DEF R

(* Image i goes from its buffer to y, which is NoBuffer or has an owner,   *)
(* and thread t is about to delete the old buffer if it was the last owner.*)
LEMMA MoveStep ==
    ASSUME BufferInv, NEW i \in Images, NEW t \in ImageThreads, NEW y,
           Turns(i, y),
           y = NoBuffer \/ \E k \in Images : k # i /\ Buf(k) = y,
           refs' = Counted(Buf(i), y),
           deleting[t] = NoBuffer,
           deleting' = [deleting EXCEPT ![t] =
                          IF Buf(i) # NoBuffer /\ refs[Buf(i)] = 1 THEN Buf(i) ELSE NoBuffer],
           allocated' = allocated, deletes' = deletes, selfCopied' = selfCopied
    PROVE  BufferInv'
<1>1. BufferTypeOK /\ allocated \in Nat /\ MaxBuffers \in Nat /\ allocated <= MaxBuffers
  BY ImageAssumption DEF BufferInv, BufferTypeOK
<1>2. y \in 0 .. allocated /\ Buf(i) \in 0 .. allocated
  BY <1>1 DEF BufferTypeOK, NoBuffer
<1>3. refs' \in [Buffers -> Int]
  BY <1>1, SMTT(30) DEF BufferTypeOK, Counted, Buffers
<1>4. deleting' \in [ImageThreads -> 0 .. allocated]
  BY <1>1, <1>2 DEF BufferTypeOK, NoBuffer
<1>5. \A k \in Images : Buf(k)' \in 0 .. allocated
  BY <1>1, <1>2 DEF BufferTypeOK, Turns
<1>6. BufferTypeOK' BY <1>1, <1>3, <1>4, <1>5 DEF BufferTypeOK
<1>7. BuffersFresh' BY DEF BufferInv, BuffersFresh
<1>8. ASSUME NEW b \in 1 .. allocated
      PROVE  /\ refs'[b] = Cardinality(BufOwners(b)') + (IF b \in selfCopied THEN 1 ELSE 0)
             /\ BufOwners(b)' # {} \/ b \in selfCopied => deletes[b] = 0 /\ ~Dying(b)'
             /\ BufOwners(b)' = {} /\ b \notin selfCopied
                  => deletes[b] = IF Dying(b)' THEN 0 ELSE 1
  <2>1. /\ BufOwners(b)' = IF y = b THEN BufOwners(b) \cup {i} ELSE BufOwners(b) \ {i}
        /\ Cardinality(BufOwners(b)) \in Nat
        /\ Cardinality(BufOwners(b)) = 0 <=> BufOwners(b) = {}
        /\ Cardinality(BufOwners(b)') = 0 <=> BufOwners(b)' = {}
        /\ Cardinality(BufOwners(b)') =
              Cardinality(BufOwners(b)) - (IF Buf(i) = b THEN 1 ELSE 0)
                                        + (IF y = b THEN 1 ELSE 0)
    BY ONLY i \in Images, Turns(i, y), BufferMoves, b \in 1 .. allocated
  <2>2. b \in Buffers /\ b # NoBuffer BY <1>1 DEF Buffers, NoBuffer
  <2>3. refs'[b] = refs[b] - (IF b = Buf(i) THEN 1 ELSE 0) + (IF b = y THEN 1 ELSE 0)
    BY <2>2 DEF Counted
  <2>4. /\ refs[b] = Cardinality(BufOwners(b)) + (IF b \in selfCopied THEN 1 ELSE 0)
        /\ BufOwners(b) # {} \/ b \in selfCopied => deletes[b] = 0 /\ ~Dying(b)
        /\ BufOwners(b) = {} /\ b \notin selfCopied => deletes[b] = IF Dying(b) THEN 0 ELSE 1
    BY DEF BufferInv, RefsExact, DeletesExact
  <2>5. b = Buf(i) => BufOwners(b) # {} BY DEF BufOwners
  <2>6. b = y => BufOwners(b) # {} BY <2>2 DEF BufOwners
  <2>7. b = y /\ b = Buf(i) => Cardinality(BufOwners(b)) > 1
    <3> SUFFICES ASSUME b = y, b = Buf(i) PROVE Cardinality(BufOwners(b)) > 1
      OBVIOUS
    <3>1. PICK k \in Images : k # i /\ Buf(k) = b BY <2>2
    <3> QED BY ONLY <3>1, i \in Images, b = Buf(i), TwoOwners
  <2>8. Dying(b)' <=> Dying(b) \/ (b = Buf(i) /\ refs[b] = 1)
    <3>1. \A u \in ImageThreads : deleting'[u] = IF u = t
            THEN IF Buf(i) # NoBuffer /\ refs[Buf(i)] = 1 THEN Buf(i) ELSE NoBuffer
            ELSE deleting[u]
      BY <1>1 DEF BufferTypeOK
    <3> QED BY <2>2, <3>1 DEF Dying
  <2>9. deletes[b] \in Nat BY <1>1, <2>2 DEF BufferTypeOK
  <2>10. /\ b = Buf(i) /\ b # y => BufOwners(b)' = {} /\ b \notin selfCopied <=> refs[b] = 1
         /\ b = y => BufOwners(b)' # {}
         /\ b = y /\ b = Buf(i) => refs[b] # 1
         /\ b # y /\ b # Buf(i) => BufOwners(b)' = BufOwners(b)
         /\ b = Buf(i) /\ b \in selfCopied => refs[b] # 1
    <3>1. b # y /\ b # Buf(i) => BufOwners(b)' = BufOwners(b)
      BY <2>1 DEF BufOwners
    <3>2. b = y => BufOwners(b)' # {} BY <2>1
    <3>3. b = y /\ b = Buf(i) => refs[b] # 1
      BY ONLY <2>1, <2>4, <2>7
    <3>4. b = Buf(i) /\ b \in selfCopied => refs[b] # 1
      BY ONLY <2>1, <2>4, <2>5
    <3>5. b = Buf(i) /\ b # y => BufOwners(b)' = {} /\ b \notin selfCopied <=> refs[b] = 1
      BY ONLY <2>1, <2>4, <2>5
    <3> QED BY ONLY <3>1, <3>2, <3>3, <3>4, <3>5
  <2>11. refs'[b] = Cardinality(BufOwners(b)') + (IF b \in selfCopied THEN 1 ELSE 0)
    BY <2>1, <2>3, <2>4
  <2> HIDE DEF Dying, BufOwners
  <2>12. CASE b = y BY ONLY <2>12, <2>4, <2>6, <2>8, <2>10, <2>11
  <2>13. CASE b # y /\ b = Buf(i) BY ONLY <2>13, <2>4, <2>5, <2>8, <2>10, <2>11
  <2>14. CASE b # y /\ b # Buf(i) BY ONLY <2>14, <2>4, <2>8, <2>10, <2>11
  <2> QED BY <2>12, <2>13, <2>14
<1>9. RefsExact' /\ DeletesExact' BY <1>8 DEF RefsExact, DeletesExact
<1>10. DyingOnce'
  <2>1. CASE Buf(i) # NoBuffer /\ refs[Buf(i)] = 1
    <3>1. Buf(i) \in 1 .. allocated BY <1>1, <1>2, <2>1 DEF NoBuffer
    <3>2. BufOwners(Buf(i)) # {} BY DEF BufOwners
    <3>3. ~Dying(Buf(i)) BY <3>1, <3>2 DEF BufferInv, DeletesExact
    <3>4. deleting' = [deleting EXCEPT ![t] = Buf(i)] BY <2>1
    <3> QED BY <1>1, <3>3, <3>4 DEF BufferInv, DyingOnce, Dying, BufferTypeOK
  <2>2. CASE ~(Buf(i) # NoBuffer /\ refs[Buf(i)] = 1)
    <3>1. deleting' = [deleting EXCEPT ![t] = NoBuffer] BY <2>2
    <3> QED BY <1>1, <3>1 DEF BufferInv, DyingOnce, BufferTypeOK
  <2> QED BY <2>1, <2>2
<1> QED BY <1>6, <1>7, <1>9, <1>10 DEF BufferInv

(* A new buffer has one owner. *)
LEMMA AllocateStep ==
    ASSUME BufferInv, NEW i \in Images,
           allocated < MaxBuffers, allocated' = allocated + 1,
           Buf(i) = NoBuffer, Turns(i, allocated + 1),
           refs' = [refs EXCEPT ![allocated + 1] = 1],
           deleting' = deleting, deletes' = deletes, selfCopied' = selfCopied
    PROVE  BufferInv'
<1>1. BufferTypeOK /\ allocated \in Nat /\ MaxBuffers \in Nat /\ allocated <= MaxBuffers
  BY ImageAssumption DEF BufferInv, BufferTypeOK
<1>2. 0 .. allocated \subseteq 0 .. (allocated + 1) /\ allocated + 1 \in Buffers
  BY <1>1 DEF Buffers
<1>3. \A k \in Images : Buf(k)' = IF k = i THEN allocated + 1 ELSE Buf(k)
  BY DEF Turns
<1>6. BufferTypeOK'
  <2>1. refs' \in [Buffers -> Int] BY <1>1, <1>2 DEF BufferTypeOK
  <2>2. \A k \in Images : Buf(k)' \in 0 .. allocated'
    BY <1>1, <1>2, <1>3 DEF BufferTypeOK
  <2>3. allocated' \in 0 .. MaxBuffers BY <1>1
  <2>4. deleting' \in [ImageThreads -> 0 .. allocated'] BY <1>1, <1>2 DEF BufferTypeOK
  <2>5. selfCopied' \subseteq 1 .. allocated' BY <1>1 DEF BufferTypeOK
  <2> QED BY <1>1, <2>1, <2>2, <2>3, <2>4, <2>5 DEF BufferTypeOK
<1>7. BuffersFresh' BY <1>1 DEF BufferInv, BuffersFresh, Buffers
<1>8. ASSUME NEW b \in 1 .. allocated'
      PROVE  /\ refs'[b] = Cardinality(BufOwners(b)') + (IF b \in selfCopied THEN 1 ELSE 0)
             /\ BufOwners(b)' # {} \/ b \in selfCopied => deletes[b] = 0 /\ ~Dying(b)'
             /\ BufOwners(b)' = {} /\ b \notin selfCopied
                  => deletes[b] = IF Dying(b)' THEN 0 ELSE 1
  <2> DEFINE y == allocated + 1
  <2>1. /\ BufOwners(b)' = IF y = b THEN BufOwners(b) \cup {i} ELSE BufOwners(b) \ {i}
        /\ Cardinality(BufOwners(b)) \in Nat
        /\ Cardinality(BufOwners(b)) = 0 <=> BufOwners(b) = {}
        /\ Cardinality(BufOwners(b)') = 0 <=> BufOwners(b)' = {}
        /\ Cardinality(BufOwners(b)') =
              Cardinality(BufOwners(b)) - (IF Buf(i) = b THEN 1 ELSE 0)
                                        + (IF y = b THEN 1 ELSE 0)
    BY ONLY i \in Images, Turns(i, allocated + 1), BufferMoves, b \in 1 .. allocated'
  <2>2. b \in Buffers /\ b # NoBuffer /\ b # Buf(i) BY <1>1 DEF Buffers, NoBuffer
  <2>3. Dying(b)' <=> Dying(b) BY DEF Dying
  <2>4. CASE b = allocated + 1
    <3>1. BufOwners(b) = {} BY <1>1, <2>4 DEF BufOwners, BufferTypeOK
    <3>2. deletes[b] = 0 BY <1>1, <2>2, <2>4 DEF BufferInv, BuffersFresh
    <3>3. ~Dying(b) BY <1>1, <2>4 DEF Dying, BufferTypeOK
    <3>4. b \notin selfCopied BY <1>1, <2>4 DEF BufferTypeOK
    <3>5. refs'[b] = 1 BY <1>1, <2>2, <2>4 DEF BufferTypeOK
    <3>6. BufOwners(b)' # {} /\ Cardinality(BufOwners(b)') = 1
      BY <2>1, <2>2, <2>4, <3>1
    <3> QED BY <2>3, <3>2, <3>3, <3>4, <3>5, <3>6
  <2>5. CASE b # allocated + 1
    <3>1. b \in 1 .. allocated BY <1>1, <2>5
    <3>2. BufOwners(b)' = BufOwners(b) BY <2>1, <2>2, <2>5 DEF BufOwners
    <3>3. refs'[b] = refs[b] BY <1>1, <2>2, <2>5 DEF BufferTypeOK
    <3> QED BY <2>3, <3>1, <3>2, <3>3 DEF BufferInv, RefsExact, DeletesExact
  <2> QED BY <2>4, <2>5
<1>9. RefsExact' /\ DeletesExact' BY <1>8 DEF RefsExact, DeletesExact
<1>10. DyingOnce' BY DEF BufferInv, DyingOnce
<1> QED BY <1>6, <1>7, <1>9, <1>10 DEF BufferInv

(* The buffer of image i is counted once more than it has owners. *)
LEMMA SelfStep ==
    ASSUME BufferInv, NEW i \in Images,
           Buf(i) # NoBuffer, Buf(i) \notin selfCopied,
           \A k \in Images : Buf(k)' = Buf(k),
           refs' = Counted(NoBuffer, Buf(i)), selfCopied' = selfCopied \cup {Buf(i)},
           allocated' = allocated, deleting' = deleting, deletes' = deletes
    PROVE  BufferInv'
<1>1. BufferTypeOK /\ allocated \in Nat /\ MaxBuffers \in Nat /\ allocated <= MaxBuffers
  BY ImageAssumption DEF BufferInv, BufferTypeOK
<1>2. Buf(i) \in 1 .. allocated BY <1>1 DEF BufferTypeOK, NoBuffer
<1>3. \A b : BufOwners(b)' = BufOwners(b) /\ (Dying(b)' <=> Dying(b)) BY DEF BufOwners, Dying
<1>4. BufOwners(Buf(i)) # {} BY DEF BufOwners
<1>5. refs' \in [Buffers -> Int] /\ \A b \in Buffers : b # NoBuffer =>
         refs'[b] = refs[b] + (IF b = Buf(i) THEN 1 ELSE 0)
  BY <1>1, SMTT(30) DEF BufferTypeOK, Counted, Buffers, NoBuffer
<1>6. BufferTypeOK' BY <1>1, <1>2, <1>5 DEF BufferTypeOK
<1>7. BuffersFresh' /\ DyingOnce' BY DEF BufferInv, BuffersFresh, DyingOnce
<1>8. RefsExact'
  <2> SUFFICES ASSUME NEW b \in 1 .. allocated
               PROVE  refs'[b] = Cardinality(BufOwners(b)) + (IF b \in selfCopied' THEN 1 ELSE 0)
    BY <1>3 DEF RefsExact
  <2>1. Cardinality(BufOwners(b)) \in Nat
    <3>1. BufOwners(b) \in SUBSET Images BY DEF BufOwners
    <3> QED BY ONLY <3>1, ImageAssumption, OwnersMove
  <2>2. b \in Buffers /\ b # NoBuffer BY <1>1 DEF Buffers, NoBuffer
  <2> QED BY <1>5, <2>1, <2>2 DEF BufferInv, RefsExact
<1>9. DeletesExact' BY <1>3, <1>4, <1>2 DEF BufferInv, DeletesExact
<1> QED BY <1>6, <1>7, <1>8, <1>9 DEF BufferInv

(* The last owner's thread deletes the buffer. *)
LEMMA DeleteStep ==
    ASSUME BufferInv, NEW t \in ImageThreads, DeleteBuffer(t)
    PROVE  BufferInv'
<1>1. BufferTypeOK /\ allocated \in Nat /\ MaxBuffers \in Nat /\ allocated <= MaxBuffers
  BY ImageAssumption DEF BufferInv, BufferTypeOK
<1> DEFINE d == deleting[t]
<1>2. d \in 1 .. allocated /\ d \in Buffers /\ Dying(d)
  BY <1>1 DEF BufferTypeOK, NoBuffer, DeleteBuffer, Buffers, Dying
<1>3. /\ \A k \in Images : Buf(k)' = Buf(k)
      /\ UNCHANGED <<allocated, refs, selfCopied>>
      /\ deletes' = [deletes EXCEPT ![d] = deletes[d] + 1]
      /\ deleting' = [deleting EXCEPT ![t] = NoBuffer]
  BY DEF DeleteBuffer, Buf
<1> HIDE DEF d
<1>4. \A b : BufOwners(b)' = BufOwners(b) BY <1>3 DEF BufOwners
<1>5. \A u \in ImageThreads : deleting'[u] = IF u = t THEN NoBuffer ELSE deleting[u]
  BY <1>1, <1>3 DEF BufferTypeOK
<1>6. \A b \in Buffers : deletes'[b] = deletes[b] + (IF b = d THEN 1 ELSE 0)
  BY <1>1, <1>2, <1>3 DEF BufferTypeOK
<1>7. BufferTypeOK'
  <2>1. deletes' \in [Buffers -> Nat] BY <1>1, <1>2, <1>3 DEF BufferTypeOK
  <2>2. deleting' \in [ImageThreads -> 0 .. allocated]
    BY <1>1, <1>3 DEF BufferTypeOK, NoBuffer
  <2> QED BY <1>1, <1>3, <2>1, <2>2 DEF BufferTypeOK
<1>8. BuffersFresh' BY <1>1, <1>2, <1>3, <1>6 DEF BufferInv, BuffersFresh, BufferTypeOK
<1>9. RefsExact' BY <1>3, <1>4 DEF BufferInv, RefsExact
<1>10. DyingOnce' BY <1>5 DEF BufferInv, DyingOnce
<1>11. \A b \in 1 .. allocated : Dying(b)' <=> Dying(b) /\ b # d
  <2> SUFFICES ASSUME NEW b \in 1 .. allocated PROVE Dying(b)' <=> Dying(b) /\ b # d
    OBVIOUS
  <2>1. b # NoBuffer BY DEF NoBuffer
  <2>2. \A u \in ImageThreads : deleting[u] = d => u = t
    BY <1>2 DEF BufferInv, DyingOnce, d, NoBuffer
  <2> QED BY <1>5, <2>1, <2>2 DEF Dying, d
<1>12. DeletesExact'
  <2> SUFFICES ASSUME NEW b \in 1 .. allocated
               PROVE  /\ BufOwners(b) # {} \/ b \in selfCopied => deletes'[b] = 0 /\ ~Dying(b)'
                      /\ BufOwners(b) = {} /\ b \notin selfCopied
                           => deletes'[b] = IF Dying(b)' THEN 0 ELSE 1
    BY <1>3, <1>4 DEF DeletesExact
  <2>1. b \in Buffers BY <1>1 DEF Buffers
  <2>2. /\ BufOwners(b) # {} \/ b \in selfCopied => deletes[b] = 0 /\ ~Dying(b)
        /\ BufOwners(b) = {} /\ b \notin selfCopied => deletes[b] = IF Dying(b) THEN 0 ELSE 1
    BY DEF BufferInv, DeletesExact
  <2>3. CASE b = d BY <1>2, <1>6, <1>11, <2>1, <2>2, <2>3
  <2>4. CASE b # d
    <3>1. deletes'[b] = deletes[b] BY <1>1, <1>6, <2>1, <2>4 DEF BufferTypeOK
    <3> QED BY <1>11, <2>2, <2>4, <3>1
  <2> QED BY <2>3, <2>4
<1> QED BY <1>7, <1>8, <1>9, <1>10, <1>12 DEF BufferInv

(* A line is not negative and a factor does not change an order. *)
LEMMA TimesMonotone ==
    ASSUME NEW a \in Int, NEW b \in Int, NEW c \in Int, a <= b, 0 <= c
    PROVE  a * c <= b * c
<1>1. 0 <= (b - a) * c BY SMT
<1>2. (b - a) * c = b * c - a * c BY SMT
<1> QED BY <1>1, <1>2, SMT

(* An object that is constructed is told from one that is not. *)
LEMMA RecordsDiffer == \A m \in MemberRecords : m # NoImage
<1> SUFFICES ASSUME NEW m \in MemberRecords, m = NoImage PROVE FALSE
  OBVIOUS
<1>1. "none" \in DOMAIN m BY DEF NoImage
<1>2. "none" \notin DOMAIN m BY Zenon DEF MemberRecords
<1> QED BY <1>1, <1>2

(* The tables of the image types. *)
LEMMA TypeBytes ==
    ASSUME NEW type \in DOMAIN TypeTable
    PROVE  /\ BytesPerPixel(type) \in Nat /\ BytesPerPixel(type) >= 0
           /\ Channels(type) \in Nat /\ Channels(type) >= 1
<1>1. type \in {"TYPE_8U_C1", "TYPE_8U_C3", "TYPE_8U_C4", "TYPE_16S_C1", "TYPE_16S_C3", "TYPE_16S_C4"}
  BY DEF TypeTable
<1>2. CASE type = "TYPE_8U_C1"
  <2>1. TypeTable.TYPE_8U_C1 = [channels |-> 1, depth |-> 8, bytes |-> 1] BY DEF TypeTable
  <2>2. TypeTable[type] = [channels |-> 1, depth |-> 8, bytes |-> 1] BY ONLY <1>2, <2>1
  <2>3. TypeTable[type].channels = 1 /\ TypeTable[type].bytes = 1 BY ONLY <2>2
  <2>4. BytesPerPixel(type) = 1 BY ONLY <2>3 DEF BytesPerPixel
  <2>5. Channels(type) = 1 BY ONLY <2>3 DEF Channels
  <2> QED BY ONLY <2>4, <2>5
<1>3. CASE type = "TYPE_8U_C3"
  <2>1. TypeTable.TYPE_8U_C3 = [channels |-> 3, depth |-> 8, bytes |-> 3] BY DEF TypeTable
  <2>2. TypeTable[type] = [channels |-> 3, depth |-> 8, bytes |-> 3] BY ONLY <1>3, <2>1
  <2>3. TypeTable[type].channels = 3 /\ TypeTable[type].bytes = 3 BY ONLY <2>2
  <2>4. BytesPerPixel(type) = 3 BY ONLY <2>3 DEF BytesPerPixel
  <2>5. Channels(type) = 3 BY ONLY <2>3 DEF Channels
  <2> QED BY ONLY <2>4, <2>5
<1>4. CASE type = "TYPE_8U_C4"
  <2>1. TypeTable.TYPE_8U_C4 = [channels |-> 4, depth |-> 8, bytes |-> 4] BY DEF TypeTable
  <2>2. TypeTable[type] = [channels |-> 4, depth |-> 8, bytes |-> 4] BY ONLY <1>4, <2>1
  <2>3. TypeTable[type].channels = 4 /\ TypeTable[type].bytes = 4 BY ONLY <2>2
  <2>4. BytesPerPixel(type) = 4 BY ONLY <2>3 DEF BytesPerPixel
  <2>5. Channels(type) = 4 BY ONLY <2>3 DEF Channels
  <2> QED BY ONLY <2>4, <2>5
<1>5. CASE type = "TYPE_16S_C1"
  <2>1. TypeTable.TYPE_16S_C1 = [channels |-> 1, depth |-> 16, bytes |-> 2] BY DEF TypeTable
  <2>2. TypeTable[type] = [channels |-> 1, depth |-> 16, bytes |-> 2] BY ONLY <1>5, <2>1
  <2>3. TypeTable[type].channels = 1 /\ TypeTable[type].bytes = 2 BY ONLY <2>2
  <2>4. BytesPerPixel(type) = 2 BY ONLY <2>3 DEF BytesPerPixel
  <2>5. Channels(type) = 1 BY ONLY <2>3 DEF Channels
  <2> QED BY ONLY <2>4, <2>5
<1>6. CASE type = "TYPE_16S_C3"
  <2>1. TypeTable.TYPE_16S_C3 = [channels |-> 3, depth |-> 16, bytes |-> 6] BY DEF TypeTable
  <2>2. TypeTable[type] = [channels |-> 3, depth |-> 16, bytes |-> 6] BY ONLY <1>6, <2>1
  <2>3. TypeTable[type].channels = 3 /\ TypeTable[type].bytes = 6 BY ONLY <2>2
  <2>4. BytesPerPixel(type) = 6 BY ONLY <2>3 DEF BytesPerPixel
  <2>5. Channels(type) = 3 BY ONLY <2>3 DEF Channels
  <2> QED BY ONLY <2>4, <2>5
<1>7. CASE type = "TYPE_16S_C4"
  <2>1. TypeTable.TYPE_16S_C4 = [channels |-> 4, depth |-> 16, bytes |-> 8] BY DEF TypeTable
  <2>2. TypeTable[type] = [channels |-> 4, depth |-> 16, bytes |-> 8] BY ONLY <1>7, <2>1
  <2>3. TypeTable[type].channels = 4 /\ TypeTable[type].bytes = 8 BY ONLY <2>2
  <2>4. BytesPerPixel(type) = 8 BY ONLY <2>3 DEF BytesPerPixel
  <2>5. Channels(type) = 4 BY ONLY <2>3 DEF Channels
  <2> QED BY ONLY <2>4, <2>5
<1> QED BY <1>1, <1>2, <1>3, <1>4, <1>5, <1>6, <1>7

(* Image i gets members that fit its memory. *)
LEMMA SetStep ==
    ASSUME ImageInv, NEW i \in Images, NEW m \in MemberRecords, NEW from \in Int \X Int,
           image' = [image EXCEPT ![i] = m],
           origin' = [origin EXCEPT ![i] = from],
           user' \in [Images -> ImageThreads],
           bytes' \in [Buffers -> Int],
           \A b \in 1 .. allocated : bytes'[b] = bytes[b],
           MembersOK(m, from, bytes')
    PROVE  /\ ImageTypeOK' /\ ImagesOK'
           /\ Turns(i, m.m_buffer)
<1>1. ImageTypeOK' BY DEF ImageInv, ImageTypeOK
<1>2. \A k \in Images : /\ image'[k] = IF k = i THEN m ELSE image[k]
                        /\ origin'[k] = IF k = i THEN from ELSE origin[k]
  BY DEF ImageInv, ImageTypeOK
<1>3. Turns(i, m.m_buffer) BY <1>2, RecordsDiffer DEF Turns, Buf
<1>4. ASSUME NEW k \in Images, k # i, Constructed(k)
      PROVE  MembersOK(image[k], origin[k], bytes')
  <2>1. MembersOK(image[k], origin[k], bytes) BY <1>4 DEF ImageInv, ImagesOK
  <2>2. Buf(k) = image[k].m_buffer BY <1>4 DEF Buf, Constructed
  <2>3. allocated \in Nat /\ Buf(k) \in 0 .. allocated
    BY ImageAssumption DEF ImageInv, BufferInv, BufferTypeOK
  <2>4. image[k].m_buffer # NoBuffer => bytes'[image[k].m_buffer] = bytes[image[k].m_buffer]
    BY <2>2, <2>3 DEF NoBuffer
  <2> QED BY <2>1, <2>4 DEF MembersOK
<1>5. ImagesOK' BY <1>2, <1>4 DEF ImagesOK, Constructed
<1> QED BY <1>1, <1>3, <1>5

(* The members of an image that owns a new buffer. *)
LEMMA FreshMembers ==
    ASSUME NEW b \in Buffers, NEW size \in Int \X Int, NEW type \in DOMAIN TypeTable,
           NEW stride \in Int, stride >= 0, size[1] * BytesPerPixel(type) <= stride,
           NEW has, has[b] = size[2] * stride
    PROVE  /\ Members(b, b, 0, size, type, stride) \in MemberRecords
           /\ MembersOK(Members(b, b, 0, size, type, stride), <<0, 0>>, has)
<1> DEFINE m == Members(b, b, 0, size, type, stride)
<1>1. b \in 1 .. MaxBuffers /\ b \in 0 .. MaxBuffers /\ b \in Int /\ b # NoBuffer
  BY ImageAssumption DEF Buffers, NoBuffer
<1>2. BytesPerPixel(type) \in Nat BY TypeBytes
<1>3. m \in MemberRecords BY <1>1, <1>2 DEF Members, MemberRecords, ImageTypes
<1>4. /\ m.m_buffer = b /\ m.m_ref = b /\ m.memory = b /\ m.offset = 0
      /\ m.m_size = size /\ m.m_type = type /\ m.m_lineStride = stride
  BY DEF Members
<1> HIDE DEF m
<1>5. TotalSize(m) <= has[b] BY <1>4 DEF TotalSize
<1>6. EndOfMat(m) <= has[b]
  <2>1. EndOfMat(m) = 0 + (size[2] - 1) * stride + size[1] * BytesPerPixel(type)
    BY <1>4 DEF EndOfMat
  <2>2. size[1] \in Int /\ size[2] \in Int OBVIOUS
  <2>3. (size[2] - 1) * stride = size[2] * stride - stride BY <2>2, SMT
  <2>4. size[1] * BytesPerPixel(type) \in Int /\ size[2] * stride \in Int BY <1>2, <2>2
  <2> QED BY <2>1, <2>3, <2>4
<1>7. 0 = 0 * stride + 0 * BytesPerPixel(type) BY <1>2
<1>8. MembersOK(m, <<0, 0>>, has) BY <1>1, <1>4, <1>5, <1>6, <1>7 DEF MembersOK
<1> QED BY <1>3, <1>8 DEF m

(* A rectangle inside a rectangle. *)
LEMMA RoiMembersFit ==
    ASSUME NEW m \in MemberRecords, NEW from \in Int \X Int, NEW has \in [Buffers -> Int],
           NEW roi \in Rois, Inside(roi, m), MembersOK(m, from, has)
    PROVE  /\ RoiMembers(m, roi, m.offset) \in MemberRecords
           /\ MembersOK(RoiMembers(m, roi, m.offset), <<from[1] + roi[1], from[2] + roi[2]>>, has)
           /\ RoiMembers(m, roi, m.offset).m_buffer = m.m_buffer
<1> DEFINE n == RoiMembers(m, roi, m.offset)
<1>1. roi[1] \in Nat /\ roi[2] \in Nat /\ roi[3] \in Nat /\ roi[4] \in Nat
  BY ImageAssumption
<1>2. /\ m.memory # NoBuffer /\ roi[3] <= m.m_size[1] /\ roi[4] <= m.m_size[2]
  BY DEF Inside
<1>3. /\ m.m_type \in DOMAIN TypeTable /\ m.m_lineStride >= 0
      /\ m.m_size[1] * BytesPerPixel(m.m_type) <= m.m_lineStride
      /\ m.offset = from[2] * m.m_lineStride + from[1] * BytesPerPixel(m.m_type)
      /\ m.m_ref = m.m_buffer
      /\ m.m_buffer # NoBuffer => TotalSize(m) <= has[m.m_buffer] /\ EndOfMat(m) <= has[m.m_buffer]
  BY <1>2 DEF MembersOK
<1>4. /\ m.m_buffer \in 0 .. MaxBuffers /\ m.m_ref \in 0 .. MaxBuffers /\ m.memory \in Int
      /\ m.offset \in Int /\ m.m_size \in Int \X Int /\ m.m_type \in ImageTypes /\ m.m_lineStride \in Int
      /\ m.m_size[1] \in Int /\ m.m_size[2] \in Int
  BY DEF MemberRecords
<1> DEFINE bpp == BytesPerPixel(m.m_type)
           stride == m.m_lineStride
<1>5. bpp \in Nat /\ bpp >= 0 BY <1>3, TypeBytes
<1>6. /\ n.m_buffer = m.m_buffer /\ n.m_ref = m.m_ref /\ n.memory = m.memory
      /\ n.offset = m.offset + roi[2] * stride + roi[1] * bpp
      /\ n.m_size = <<roi[3] - roi[1], roi[4] - roi[2]>>
      /\ n.m_type = m.m_type /\ n.m_lineStride = stride
  BY DEF RoiMembers, MemberRecords
<1>7. n \in MemberRecords
  <2>1. m.offset + roi[2] * stride + roi[1] * bpp \in Int BY <1>1, <1>4, <1>5
  <2>2. <<roi[3] - roi[1], roi[4] - roi[2]>> \in Int \X Int BY <1>1
  <2> HIDE DEF bpp, stride
  <2> QED BY <2>1, <2>2 DEF RoiMembers, MemberRecords, bpp, stride
<1>8. BytesPerPixel(n.m_type) = bpp BY <1>6
<1>9. /\ TotalSize(n) = (roi[4] - roi[2]) * stride
      /\ EndOfMat(n) = n.offset + ((roi[4] - roi[2]) - 1) * stride + (roi[3] - roi[1]) * bpp
      /\ TotalSize(m) = m.m_size[2] * stride
      /\ EndOfMat(m) = m.offset + (m.m_size[2] - 1) * stride + m.m_size[1] * bpp
  BY <1>6, <1>8 DEF TotalSize, EndOfMat
<1> HIDE DEF n, bpp, stride
<1>10. stride \in Int /\ stride >= 0 BY <1>3, <1>4 DEF stride
<1>11. roi[3] * bpp <= m.m_size[1] * bpp BY <1>1, <1>2, <1>4, <1>5, TimesMonotone
<1>12. (roi[3] - roi[1]) * bpp <= roi[3] * bpp
  <2>1. roi[3] - roi[1] \in Int /\ roi[3] - roi[1] <= roi[3] /\ roi[3] \in Int /\ bpp \in Int
    BY <1>1, <1>5
  <2> QED BY ONLY <2>1, <1>5, TimesMonotone
<1>13. (roi[4] - 1) * stride <= (m.m_size[2] - 1) * stride
  <2>1. roi[4] - 1 \in Int /\ m.m_size[2] - 1 \in Int /\ roi[4] - 1 <= m.m_size[2] - 1
    BY <1>1, <1>2, <1>4
  <2> QED BY ONLY <2>1, <1>10, TimesMonotone
<1>14. (roi[4] - roi[2]) * stride <= m.m_size[2] * stride
  <2>1. roi[4] - roi[2] \in Int /\ roi[4] - roi[2] <= m.m_size[2] BY <1>1, <1>2, <1>4
  <2> QED BY ONLY <2>1, <1>4, <1>10, TimesMonotone
<1>15. /\ roi[2] * stride + ((roi[4] - roi[2]) - 1) * stride = (roi[4] - 1) * stride
       /\ roi[1] * bpp + (roi[3] - roi[1]) * bpp = roi[3] * bpp
  BY <1>1, <1>5, <1>10, SMT
<1>16. /\ (from[2] + roi[2]) * stride = from[2] * stride + roi[2] * stride
       /\ (from[1] + roi[1]) * bpp = from[1] * bpp + roi[1] * bpp
  BY <1>1, <1>5, <1>10, SMT
<1>17. /\ roi[2] * stride \in Int /\ roi[1] * bpp \in Int /\ (roi[3] - roi[1]) * bpp \in Int
       /\ ((roi[4] - roi[2]) - 1) * stride \in Int /\ (roi[4] - 1) * stride \in Int
       /\ roi[3] * bpp \in Int /\ m.m_size[1] * bpp \in Int /\ (m.m_size[2] - 1) * stride \in Int
       /\ (roi[4] - roi[2]) * stride \in Int /\ m.m_size[2] * stride \in Int
       /\ from[2] * stride \in Int /\ from[1] * bpp \in Int /\ m.offset \in Int
  BY <1>1, <1>4, <1>5, <1>10
<1>18. n.m_size[1] * bpp <= stride
  <2>1. n.m_size[1] = roi[3] - roi[1] BY <1>6
  <2>2. m.m_size[1] * bpp <= stride BY <1>3 DEF bpp, stride
  <2> QED BY <2>1, <2>2, <1>10, <1>11, <1>12, <1>17
<1>19. n.offset = (from[2] + roi[2]) * stride + (from[1] + roi[1]) * bpp
  <2>1. m.offset = from[2] * stride + from[1] * bpp BY <1>3 DEF bpp, stride
  <2> QED BY ONLY <2>1, <1>6, <1>16, <1>17
<1>20. EndOfMat(n) <= EndOfMat(m) BY ONLY <1>6, <1>9, <1>11, <1>13, <1>15, <1>17
<1>21. TotalSize(n) <= TotalSize(m) BY ONLY <1>9, <1>14
<1>22. EndOfMat(m) \in Int /\ TotalSize(m) \in Int /\ EndOfMat(n) \in Int /\ TotalSize(n) \in Int
  BY ONLY <1>6, <1>9, <1>17
<1>23. n.m_buffer # NoBuffer => TotalSize(n) <= has[n.m_buffer] /\ EndOfMat(n) <= has[n.m_buffer]
  <2>1. m.m_buffer # NoBuffer => has[m.m_buffer] \in Int
    BY <1>4, ImageAssumption, SMTT(30) DEF Buffers, NoBuffer
  <2> QED BY ONLY <2>1, <1>3, <1>6, <1>20, <1>21, <1>22
<1>24. MembersOK(n, <<from[1] + roi[1], from[2] + roi[2]>>, has)
  <2>1. n.m_lineStride = stride /\ n.m_type = m.m_type BY <1>6 DEF stride
  <2>2. n.m_buffer # NoBuffer => n.memory # NoBuffer BY <1>2, <1>6
  <2>3. n.m_ref = n.m_buffer BY <1>3, <1>6
  <2> QED BY ONLY <2>1, <2>2, <2>3, <1>3, <1>8, <1>10, <1>18, <1>19, <1>23 DEF MembersOK
<1> QED BY <1>6, <1>7, <1>24 DEF n

(* Every way to allocate. *)
LEMMA AllocatesInv ==
    ASSUME ImageInv, NEW i \in Images, NEW size \in Int \X Int, NEW type \in DOMAIN TypeTable,
           NEW stride \in Int, stride >= 0, size[1] * BytesPerPixel(type) <= stride,
           Allocates(i, size, type, stride)
    PROVE  ImageInv'
<1> DEFINE b == allocated + 1
<1>1. /\ allocated \in Nat /\ MaxBuffers \in Nat /\ allocated < MaxBuffers
      /\ b \in Buffers
      /\ size[2] * stride \in Int
  BY ImageAssumption DEF ImageInv, BufferInv, BufferTypeOK, Allocates, Buffers
<1>2. /\ allocated' = b /\ bytes' = [bytes EXCEPT ![b] = size[2] * stride]
      /\ refs' = [refs EXCEPT ![b] = 1]
      /\ ~Constructed(i)
      /\ image' = [image EXCEPT ![i] = Members(b, b, 0, size, type, stride)]
      /\ origin' = [origin EXCEPT ![i] = <<0, 0>>]
      /\ user' = [user EXCEPT ![i] = "user"]
      /\ UNCHANGED <<deletes, deleting, selfCopied>>
  BY DEF Allocates, Constructs
<1> HIDE DEF b
<1>3. bytes' \in [Buffers -> Int] /\ bytes'[b] = size[2] * stride
  BY <1>1, <1>2 DEF ImageInv, ImageTypeOK
<1>4. \A x \in 1 .. allocated : bytes'[x] = bytes[x]
  BY <1>1, <1>2 DEF ImageInv, ImageTypeOK, b
<1>5. user' \in [Images -> ImageThreads]
  BY <1>2 DEF ImageInv, ImageTypeOK, ImageThreads
<1> DEFINE m == Members(b, b, 0, size, type, stride)
<1>6. m \in MemberRecords /\ MembersOK(m, <<0, 0>>, bytes')
  BY <1>1, <1>3, FreshMembers
<1>7. m.m_buffer = b BY DEF Members
<1>8. image' = [image EXCEPT ![i] = m] BY <1>2
<1> HIDE DEF m
<1>9. <<0, 0>> \in Int \X Int OBVIOUS
<1>10. ImageTypeOK' /\ ImagesOK' /\ Turns(i, b)
  BY ONLY ImageInv, i \in Images, <1>2, <1>3, <1>4, <1>5, <1>6, <1>7, <1>8, <1>9, SetStep
<1>11. Buf(i) = NoBuffer BY <1>2 DEF Buf, Constructed
<1>12. BufferInv'
  <2>1. BufferInv BY DEF ImageInv
  <2>2. /\ allocated' = allocated + 1 /\ Turns(i, allocated + 1)
        /\ refs' = [refs EXCEPT ![allocated + 1] = 1] /\ deleting' = deleting
        /\ deletes' = deletes /\ selfCopied' = selfCopied
    BY <1>2, <1>10 DEF b
  <2> QED BY ONLY <2>1, <2>2, <1>1, <1>11, i \in Images, AllocateStep
<1> QED BY <1>10, <1>12 DEF ImageInv

(* An image that was not constructed gets members that refer to a buffer   *)
(* with an owner, or to none: copies, rectangles, foreign pixels.          *)
LEMMA SharesInv ==
    ASSUME ImageInv, NEW i \in Images, NEW m \in MemberRecords, NEW from \in Int \X Int,
           NEW t \in ImageThreads, Constructs(i, m, from), MembersOK(m, from, bytes),
           m.m_buffer = NoBuffer \/ \E k \in Images : k # i /\ Buf(k) = m.m_buffer,
           refs' = Counted(NoBuffer, m.m_buffer), user' = [user EXCEPT ![i] = t],
           UNCHANGED <<allocated, bytes, deletes, deleting, selfCopied>>
    PROVE  ImageInv'
<1>1. /\ ~Constructed(i) /\ deleting["user"] = NoBuffer
      /\ image' = [image EXCEPT ![i] = m] /\ origin' = [origin EXCEPT ![i] = from]
  BY DEF Constructs, MayCall
<1>2. /\ user' \in [Images -> ImageThreads] /\ bytes' \in [Buffers -> Int]
      /\ \A b \in 1 .. allocated : bytes'[b] = bytes[b]
      /\ MembersOK(m, from, bytes')
  BY DEF ImageInv, ImageTypeOK
<1>3. ImageTypeOK' /\ ImagesOK' /\ Turns(i, m.m_buffer)
  BY ONLY ImageInv, i \in Images, m \in MemberRecords, from \in Int \X Int, <1>1, <1>2, SetStep
<1>4. Buf(i) = NoBuffer BY <1>1 DEF Buf, Constructed
<1>5. "user" \in ImageThreads BY DEF ImageThreads
<1>6. deleting' = [deleting EXCEPT !["user"] =
                     IF Buf(i) # NoBuffer /\ refs[Buf(i)] = 1 THEN Buf(i) ELSE NoBuffer]
  BY <1>1, <1>4, <1>5 DEF ImageInv, BufferInv, BufferTypeOK
<1>7. refs' = Counted(Buf(i), m.m_buffer) BY <1>4
<1>8. BufferInv BY DEF ImageInv
<1>9. allocated' = allocated /\ deletes' = deletes /\ selfCopied' = selfCopied OBVIOUS
<1>10. m.m_buffer = NoBuffer \/ \E k \in Images : k # i /\ Buf(k) = m.m_buffer OBVIOUS
<1>11. BufferInv'
  BY ONLY <1>1, <1>3, <1>5, <1>6, <1>7, <1>8, <1>9, <1>10, i \in Images, MoveStep
<1> QED BY <1>3, <1>11 DEF ImageInv

(* What is known of an image that is constructed. *)
LEMMA ConstructedMembers ==
    ASSUME ImageInv, NEW k \in Images, Constructed(k)
    PROVE  /\ image[k] \in MemberRecords /\ origin[k] \in Int \X Int
           /\ MembersOK(image[k], origin[k], bytes)
           /\ Buf(k) = image[k].m_buffer /\ image[k].m_ref = image[k].m_buffer
  BY DEF ImageInv, ImageTypeOK, ImagesOK, Constructed, Buf, MembersOK

(* The copy constructor, for either thread. *)
LEMMA CopyInv ==
    ASSUME ImageInv, NEW i \in Images, NEW source \in Images, NEW t \in ImageThreads,
           CopyImage(i, source, t)
    PROVE  ImageInv'
<1>1. /\ Constructed(source) /\ Constructs(i, image[source], origin[source])
      /\ refs' = Counted(NoBuffer, image[source].m_ref) /\ user' = [user EXCEPT ![i] = t]
      /\ UNCHANGED <<allocated, bytes, deletes, deleting, selfCopied>>
  BY DEF CopyImage
<1>2. i # source BY <1>1 DEF Constructs
<1>3. /\ image[source] \in MemberRecords /\ origin[source] \in Int \X Int
      /\ MembersOK(image[source], origin[source], bytes)
      /\ Buf(source) = image[source].m_buffer /\ image[source].m_ref = image[source].m_buffer
  BY <1>1, ConstructedMembers
<1>4. \E k \in Images : k # i /\ Buf(k) = image[source].m_buffer BY <1>2, <1>3
<1>5. refs' = Counted(NoBuffer, image[source].m_buffer) BY <1>1, <1>3
<1> QED BY ONLY ImageInv, i \in Images, t \in ImageThreads, <1>1, <1>3, <1>4, <1>5, SharesInv

(* A rectangle of an image. *)
LEMMA RoiInv ==
    ASSUME ImageInv, NEW i \in Images, NEW source \in Images, NEW roi \in Rois,
           CreateRoi(i, source, roi)
    PROVE  ImageInv'
<1> DEFINE m == image[source]
           n == RoiMembers(m, roi, m.offset)
           from == <<origin[source][1] + roi[1], origin[source][2] + roi[2]>>
<1>1. /\ Constructed(source) /\ Inside(roi, m) /\ Constructs(i, n, from)
      /\ refs' = Counted(NoBuffer, m.m_ref) /\ user' = [user EXCEPT ![i] = "user"]
      /\ UNCHANGED <<allocated, bytes, deletes, deleting, selfCopied>>
  BY DEF CreateRoi
<1>2. i # source BY <1>1 DEF Constructs
<1>3. /\ m \in MemberRecords /\ origin[source] \in Int \X Int
      /\ MembersOK(m, origin[source], bytes)
      /\ Buf(source) = m.m_buffer /\ m.m_ref = m.m_buffer
  BY <1>1, ConstructedMembers
<1>4. bytes \in [Buffers -> Int] BY DEF ImageInv, ImageTypeOK
<1>5. n \in MemberRecords BY ONLY <1>1, <1>3, <1>4, roi \in Rois, RoiMembersFit
<1>6. MembersOK(n, from, bytes) BY ONLY <1>1, <1>3, <1>4, roi \in Rois, RoiMembersFit
<1>7. n.m_buffer = m.m_buffer BY ONLY <1>1, <1>3, <1>4, roi \in Rois, RoiMembersFit
<1>8. from \in Int \X Int
  <2>1. roi[1] \in Nat /\ roi[2] \in Nat BY ImageAssumption
  <2> QED BY <1>3, <2>1
<1>9. \E k \in Images : k # i /\ Buf(k) = n.m_buffer BY <1>2, <1>3, <1>7
<1>10. refs' = Counted(NoBuffer, n.m_buffer) BY <1>1, <1>3, <1>7
<1>11. "user" \in ImageThreads BY DEF ImageThreads
<1> HIDE DEF m, n, from
<1> QED BY ONLY ImageInv, i \in Images, <1>1, <1>5, <1>6, <1>8, <1>9, <1>10, <1>11, SharesInv

(* Members without memory. *)
LEMMA NoMemory ==
    ASSUME NEW m \in MemberRecords, m.m_buffer = NoBuffer, m.m_ref = NoBuffer,
           m.memory = NoBuffer, NEW from, NEW has
    PROVE  MembersOK(m, from, has)
  BY DEF MembersOK

(* The default constructor. *)
LEMMA EmptyInv == ASSUME ImageInv, NEW i \in Images, ConstructEmpty(i) PROVE ImageInv'
<1>1. /\ EmptyImage \in MemberRecords /\ EmptyImage.m_buffer = NoBuffer
      /\ EmptyImage.m_ref = NoBuffer /\ EmptyImage.memory = NoBuffer
  BY ImageAssumption DEF EmptyImage, Members, MemberRecords, ImageTypes, NoBuffer
<1>2. MembersOK(EmptyImage, <<0, 0>>, bytes) BY <1>1, NoMemory
<1>3. Counted(NoBuffer, NoBuffer) = refs
  BY ImageAssumption DEF Counted, Buffers, NoBuffer, ImageInv, BufferInv, BufferTypeOK
<1>4. /\ Constructs(i, EmptyImage, <<0, 0>>) /\ user' = [user EXCEPT ![i] = "user"]
      /\ refs' = Counted(NoBuffer, EmptyImage.m_buffer)
      /\ UNCHANGED <<allocated, bytes, deletes, deleting, selfCopied>>
  BY <1>1, <1>3 DEF ConstructEmpty
<1>5. "user" \in ImageThreads /\ <<0, 0>> \in Int \X Int BY DEF ImageThreads
<1> QED BY ONLY ImageInv, i \in Images, <1>1, <1>2, <1>4, <1>5, SharesInv

(* Foreign pixels. *)
LEMMA WrapInv ==
    ASSUME ImageInv, NEW i \in Images, NEW size \in ImageSizes, NEW format \in Formats,
           WrapPixels(i, size, format)
    PROVE  ImageInv'
<1>1. PICK type \in DOMAIN TypeTable :
        Constructs(i, Members(NoBuffer, ForeignPixels, 0, size, type,
                              size[1] * BytesPerPixel(type)), <<0, 0>>)
  BY DEF WrapPixels, TypesFromArgs
<1>2. BytesPerPixel(type) \in Nat /\ size \in Int \X Int /\ size[1] \in Nat
  BY ImageAssumption, TypeBytes
<1> DEFINE stride == size[1] * BytesPerPixel(type)
<1>3. stride \in Int /\ stride >= 0 BY <1>2
<1> HIDE DEF stride
<1> DEFINE m == Members(NoBuffer, ForeignPixels, 0, size, type, stride)
<1>4. /\ m \in MemberRecords /\ m.m_buffer = NoBuffer /\ m.m_ref = NoBuffer
      /\ m.offset = 0 /\ m.m_size = size /\ m.m_type = type /\ m.m_lineStride = stride
  BY <1>2, <1>3, ImageAssumption
  DEF Members, MemberRecords, ImageTypes, NoBuffer, ForeignPixels
<1>5. 0 = 0 * stride + 0 * BytesPerPixel(type) BY <1>2, <1>3
<1>6. Constructs(i, m, <<0, 0>>) BY <1>1 DEF stride
<1> HIDE DEF m
<1>7. MembersOK(m, <<0, 0>>, bytes)
  <2>1. m.m_size[1] * BytesPerPixel(m.m_type) <= m.m_lineStride
    BY <1>3, <1>4 DEF stride
  <2>2. <<0, 0>>[1] = 0 /\ <<0, 0>>[2] = 0 OBVIOUS
  <2> QED BY ONLY <1>3, <1>4, <1>5, <2>1, <2>2 DEF MembersOK
<1>8. Counted(NoBuffer, NoBuffer) = refs
  BY ImageAssumption DEF Counted, Buffers, NoBuffer, ImageInv, BufferInv, BufferTypeOK
<1>9. /\ user' = [user EXCEPT ![i] = "user"] /\ refs' = Counted(NoBuffer, m.m_buffer)
      /\ UNCHANGED <<allocated, bytes, deletes, deleting, selfCopied>>
  BY <1>4, <1>8 DEF WrapPixels
<1>10. "user" \in ImageThreads /\ <<0, 0>> \in Int \X Int BY DEF ImageThreads
<1> QED BY ONLY ImageInv, i \in Images, <1>4, <1>6, <1>7, <1>9, <1>10, SharesInv

(* The destructor. *)
LEMMA DestroyInv == ASSUME ImageInv, NEW i \in Images, DestroyImage(i) PROVE ImageInv'
<1>1. /\ Constructed(i) /\ deleting[user[i]] = NoBuffer
      /\ refs' = Counted(image[i].m_buffer, NoBuffer)
      /\ deleting' = [deleting EXCEPT ![user[i]] =
            IF image[i].m_buffer # NoBuffer /\ refs[image[i].m_buffer] = 1
            THEN image[i].m_buffer ELSE NoBuffer]
      /\ image' = [image EXCEPT ![i] = NoImage]
      /\ origin' = [origin EXCEPT ![i] = <<0, 0>>]
      /\ user' = [user EXCEPT ![i] = "user"]
      /\ UNCHANGED <<allocated, bytes, deletes, selfCopied>>
  BY DEF DestroyImage, MayCall, Leaves
<1>2. Buf(i) = image[i].m_buffer BY <1>1 DEF Buf, Constructed
<1>3. ImageTypeOK' BY <1>1 DEF ImageInv, ImageTypeOK, ImageThreads
<1>4. \A k \in Images : /\ image'[k] = IF k = i THEN NoImage ELSE image[k]
                        /\ origin'[k] = IF k = i THEN <<0, 0>> ELSE origin[k]
  BY <1>1 DEF ImageInv, ImageTypeOK
<1>5. Turns(i, NoBuffer) BY <1>4 DEF Turns, Buf
<1>6. ImagesOK' BY <1>1, <1>4 DEF ImageInv, ImagesOK, Constructed
<1>7. user[i] \in ImageThreads BY DEF ImageInv, ImageTypeOK
<1>8. BufferInv BY DEF ImageInv
<1> DEFINE t == user[i]
           y == NoBuffer
<1>9. /\ t \in ImageThreads /\ Turns(i, y) /\ refs' = Counted(Buf(i), y)
      /\ deleting[t] = NoBuffer /\ y = NoBuffer
      /\ deleting' = [deleting EXCEPT ![t] =
            IF Buf(i) # NoBuffer /\ refs[Buf(i)] = 1 THEN Buf(i) ELSE NoBuffer]
      /\ allocated' = allocated /\ deletes' = deletes /\ selfCopied' = selfCopied
  BY <1>1, <1>2, <1>5, <1>7
<1> HIDE DEF t, y
<1>10. BufferInv' BY ONLY <1>8, <1>9, i \in Images, MoveStep
<1> QED BY <1>3, <1>6, <1>10 DEF ImageInv

(* The user's image i turns to the members m: clear() and operator=. *)
LEMMA ReplaceInv ==
    ASSUME ImageInv, NEW i \in Images, NEW m \in MemberRecords, NEW from \in Int \X Int,
           Constructed(i), MayCall("user"), MembersOK(m, from, bytes),
           m.m_buffer = NoBuffer \/ \E k \in Images : k # i /\ Buf(k) = m.m_buffer,
           refs' = Counted(image[i].m_buffer, m.m_buffer), Leaves("user", image[i].m_buffer),
           image' = [image EXCEPT ![i] = m], origin' = [origin EXCEPT ![i] = from],
           UNCHANGED <<user, allocated, bytes, deletes, selfCopied>>
    PROVE  ImageInv'
<1>1. Buf(i) = image[i].m_buffer BY DEF Buf, Constructed
<1>2. /\ user' \in [Images -> ImageThreads] /\ bytes' \in [Buffers -> Int]
      /\ \A b \in 1 .. allocated : bytes'[b] = bytes[b]
      /\ MembersOK(m, from, bytes')
      /\ image' = [image EXCEPT ![i] = m] /\ origin' = [origin EXCEPT ![i] = from]
  BY DEF ImageInv, ImageTypeOK
<1>3. ImageTypeOK' /\ ImagesOK' /\ Turns(i, m.m_buffer)
  BY ONLY ImageInv, i \in Images, m \in MemberRecords, from \in Int \X Int, <1>2, SetStep
<1>4. /\ "user" \in ImageThreads /\ deleting["user"] = NoBuffer
      /\ deleting' = [deleting EXCEPT !["user"] =
            IF Buf(i) # NoBuffer /\ refs[Buf(i)] = 1 THEN Buf(i) ELSE NoBuffer]
      /\ refs' = Counted(Buf(i), m.m_buffer)
      /\ allocated' = allocated /\ deletes' = deletes /\ selfCopied' = selfCopied
      /\ m.m_buffer = NoBuffer \/ \E k \in Images : k # i /\ Buf(k) = m.m_buffer
  BY <1>1 DEF ImageThreads, MayCall, Leaves
<1>5. BufferInv BY DEF ImageInv
<1>6. BufferInv' BY ONLY <1>3, <1>4, <1>5, i \in Images, MoveStep
<1> QED BY <1>3, <1>6 DEF ImageInv

(* clear() *)
LEMMA ClearInv == ASSUME ImageInv, NEW i \in Images, ClearImage(i) PROVE ImageInv'
<1> DEFINE m == [image[i] EXCEPT !.m_buffer = NoBuffer, !.m_ref = NoBuffer,
                                 !.memory = NoBuffer, !.offset = 0]
<1>1. /\ Constructed(i) /\ MayCall("user")
      /\ refs' = Counted(image[i].m_buffer, NoBuffer) /\ Leaves("user", image[i].m_buffer)
      /\ origin' = [origin EXCEPT ![i] = <<0, 0>>]
      /\ UNCHANGED <<user, allocated, bytes, deletes, selfCopied>>
  BY DEF ClearImage
<1>2. image[i] \in MemberRecords BY <1>1, ConstructedMembers
<1>3. image' = [image EXCEPT ![i] = m] BY <1>2 DEF ClearImage, ImageInv, ImageTypeOK, MemberRecords
<1>4. /\ m \in MemberRecords /\ m.m_buffer = NoBuffer /\ m.m_ref = NoBuffer
      /\ m.memory = NoBuffer
  <2>1. NoBuffer \in 0 .. MaxBuffers /\ NoBuffer \in Int /\ 0 \in Int
    BY ImageAssumption DEF NoBuffer
  <2>2. m \in MemberRecords BY <1>2, <2>1 DEF MemberRecords
  <2>3. m.m_buffer = NoBuffer /\ m.m_ref = NoBuffer /\ m.memory = NoBuffer
    BY <1>2 DEF MemberRecords
  <2> QED BY <2>2, <2>3
<1> HIDE DEF m
<1>5. MembersOK(m, <<0, 0>>, bytes) BY <1>4, NoMemory
<1>6. <<0, 0>> \in Int \X Int /\ refs' = Counted(image[i].m_buffer, m.m_buffer) BY <1>1, <1>4
<1> QED BY ONLY ImageInv, i \in Images, <1>1, <1>3, <1>4, <1>5, <1>6, ReplaceInv

(* operator= *)
LEMMA AssignInv ==
    ASSUME ImageInv, NEW i \in Images, NEW source \in Images, AssignImage(i, source)
    PROVE  ImageInv'
<1>1. /\ i # source /\ Constructed(i) /\ Constructed(source) /\ MayCall("user")
      /\ refs' = Counted(image[i].m_buffer, image[source].m_ref)
      /\ Leaves("user", image[i].m_buffer)
      /\ image' = [image EXCEPT ![i] = image[source]]
      /\ origin' = [origin EXCEPT ![i] = origin[source]]
      /\ UNCHANGED <<user, allocated, bytes, deletes, selfCopied>>
  BY DEF AssignImage
<1>2. /\ image[source] \in MemberRecords /\ origin[source] \in Int \X Int
      /\ MembersOK(image[source], origin[source], bytes)
      /\ Buf(source) = image[source].m_buffer /\ image[source].m_ref = image[source].m_buffer
  BY <1>1, ConstructedMembers
<1>3. \E k \in Images : k # i /\ Buf(k) = image[source].m_buffer BY <1>1, <1>2
<1>4. refs' = Counted(image[i].m_buffer, image[source].m_buffer) BY <1>1, <1>2
<1> QED BY ONLY ImageInv, i \in Images, <1>1, <1>2, <1>3, <1>4, ReplaceInv

(* operator= with the image itself. *)
LEMMA AssignItselfInv == ASSUME ImageInv, NEW i \in Images, AssignItself(i) PROVE ImageInv'
<1>1. /\ Constructed(i) /\ image[i].m_ref # NoBuffer /\ image[i].m_ref \notin selfCopied
      /\ refs' = Counted(NoBuffer, image[i].m_ref)
      /\ selfCopied' = selfCopied \cup {image[i].m_ref}
      /\ UNCHANGED <<image, user, origin, allocated, bytes, deletes, deleting>>
  BY DEF AssignItself
<1>2. Buf(i) = image[i].m_ref BY <1>1, ConstructedMembers
<1>3. /\ Buf(i) # NoBuffer /\ Buf(i) \notin selfCopied /\ refs' = Counted(NoBuffer, Buf(i))
      /\ selfCopied' = selfCopied \cup {Buf(i)}
      /\ allocated' = allocated /\ deleting' = deleting /\ deletes' = deletes
  BY <1>1, <1>2
<1>4. \A k \in Images : Buf(k)' = Buf(k) BY <1>1 DEF Buf
<1>5. BufferInv BY DEF ImageInv
<1>6. BufferInv' BY ONLY <1>3, <1>4, <1>5, i \in Images, SelfStep
<1>7. ImageTypeOK' /\ ImagesOK' BY <1>1 DEF ImageInv, ImageTypeOK, ImagesOK, Constructed
<1> QED BY <1>6, <1>7 DEF ImageInv

(* Initially nothing is constructed. *)
LEMMA InitImageInv == ImageInit => ImageInv
<1> SUFFICES ASSUME ImageInit PROVE ImageInv
  OBVIOUS
<1> USE ImageAssumption DEF ImageInit
<1>1. \A i \in Images : Buf(i) = NoBuffer BY DEF Buf
<1>2. BufferTypeOK BY <1>1 DEF BufferTypeOK, NoBuffer, Buffers
<1>3. BuffersFresh /\ RefsExact /\ DeletesExact /\ DyingOnce
  BY DEF BuffersFresh, RefsExact, DeletesExact, DyingOnce
<1>4. ImageTypeOK BY DEF ImageTypeOK, ImageThreads
<1>5. ImagesOK BY DEF ImagesOK, Constructed
<1> QED BY <1>2, <1>3, <1>4, <1>5 DEF ImageInv, BufferInv

(* Every operation on images keeps the counts and the geometry. *)
LEMMA NextImageInv == ImageInv /\ [ImageNext]_imageVars => ImageInv'
<1> SUFFICES ASSUME ImageInv, [ImageNext]_imageVars PROVE ImageInv'
  OBVIOUS
<1>1. ASSUME NEW i \in Images, NEW size \in ImageSizes, NEW format \in Formats,
             CreateImage(i, size, format)
      PROVE  ImageInv'
  <2>1. PICK type \in DOMAIN TypeTable :
          Allocates(i, size, type, size[1] * Channels(type) * BytesPerPixel(type))
    BY <1>1 DEF CreateImage, TypesFromArgs
  <2>2. /\ BytesPerPixel(type) \in Nat /\ Channels(type) \in Nat /\ Channels(type) >= 1
        /\ size \in Int \X Int /\ size[1] \in Nat
    BY ImageAssumption, TypeBytes
  <2> DEFINE w == size[1]
             c == Channels(type)
             p == BytesPerPixel(type)
             stride == w * c * p
  <2>3. w \in Nat /\ c \in Nat /\ p \in Nat /\ c >= 1 BY <2>2
  <2>4. stride \in Int /\ stride >= 0 /\ w * p <= stride
    <3> HIDE DEF w, c, p
    <3>1. w * c \in Nat /\ w <= w * c BY <2>3, SMT
    <3>2. w * p <= (w * c) * p BY <2>3, <3>1, TimesMonotone
    <3>3. (w * c) * p \in Nat BY <2>3, <3>1
    <3> QED BY <3>2, <3>3
  <2>5. Allocates(i, size, type, stride) BY <2>1
  <2> HIDE DEF stride, c
  <2> QED BY ONLY ImageInv, i \in Images, <2>2, <2>4, <2>5, type \in DOMAIN TypeTable, AllocatesInv
<1>2. ASSUME NEW i \in Images, NEW size \in ImageSizes, NEW format \in Formats,
             NEW padding \in Paddings, CreateImageWithStep(i, size, format, padding)
      PROVE  ImageInv'
  <2>1. PICK type \in DOMAIN TypeTable :
          Allocates(i, size, type, size[1] * BytesPerPixel(type) + padding)
    BY <1>2 DEF CreateImageWithStep, TypesFromArgs
  <2>2. /\ BytesPerPixel(type) \in Nat /\ size \in Int \X Int /\ size[1] \in Nat /\ padding \in Nat
    BY ImageAssumption, TypeBytes
  <2> DEFINE stride == size[1] * BytesPerPixel(type) + padding
  <2>3. stride \in Int /\ stride >= 0 /\ size[1] * BytesPerPixel(type) <= stride
    <3>1. size[1] * BytesPerPixel(type) \in Nat BY <2>2
    <3> QED BY <3>1, <2>2
  <2>4. Allocates(i, size, type, stride) BY <2>1
  <2> HIDE DEF stride
  <2> QED BY ONLY ImageInv, i \in Images, <2>2, <2>3, <2>4, type \in DOMAIN TypeTable, AllocatesInv
<1>3. ASSUME NEW i \in Images, NEW size \in ImageSizes, NEW format \in Formats,
             ReadImage(i, size, format)
      PROVE  ImageInv'
  <2>1. PICK type \in DOMAIN TypeTable :
          Allocates(i, size, type, size[1] * BytesPerPixel(type))
    BY <1>3 DEF ReadImage, FromMat, TypesFromArgs
  <2>2. /\ BytesPerPixel(type) \in Nat /\ size \in Int \X Int /\ size[1] \in Nat
    BY ImageAssumption, TypeBytes
  <2> DEFINE stride == size[1] * BytesPerPixel(type)
  <2>3. stride \in Int /\ stride >= 0 /\ size[1] * BytesPerPixel(type) <= stride
    <3>1. size[1] * BytesPerPixel(type) \in Nat BY <2>2
    <3> QED BY <3>1, <2>2
  <2>4. Allocates(i, size, type, stride) BY <2>1
  <2> HIDE DEF stride
  <2> QED BY ONLY ImageInv, i \in Images, <2>2, <2>3, <2>4, type \in DOMAIN TypeTable, AllocatesInv
<1>4. ASSUME NEW i \in Images, NEW source \in Images, DeepCopy(i, source)
      PROVE  ImageInv'
  <2> DEFINE m == image[source]
  <2>1. /\ Constructed(source) /\ m.m_buffer # NoBuffer
        /\ Allocates(i, m.m_size, m.m_type, m.m_lineStride)
    BY <1>4 DEF DeepCopy
  <2>2. m \in MemberRecords /\ MembersOK(m, origin[source], bytes)
    BY <2>1, ConstructedMembers
  <2>3. /\ m.m_size \in Int \X Int /\ m.m_type \in DOMAIN TypeTable /\ m.m_lineStride \in Int
        /\ m.m_lineStride >= 0 /\ m.m_size[1] * BytesPerPixel(m.m_type) <= m.m_lineStride
    BY <2>1, <2>2 DEF MemberRecords, MembersOK
  <2> HIDE DEF m
  <2> QED BY ONLY ImageInv, i \in Images, <2>1, <2>3, AllocatesInv
<1>5. ASSUME NEW i \in Images, CApi(i) PROVE ImageInv'
  <2>1. "user" \in ImageThreads BY DEF ImageThreads
  <2> QED BY <1>1, <1>2, <1>3, <1>5, <2>1, WrapInv, CopyInv, RoiInv, DestroyInv
      DEF CApi, WriteImageSync, SplitImage
<1>6. ASSUME NEW i \in Images, NEW source \in Images, DartWriteImage(i, source) PROVE ImageInv'
  <2>1. "dispatcher" \in ImageThreads BY DEF ImageThreads
  <2> QED BY <1>6, <2>1, CopyInv DEF DartWriteImage
<1>7. ASSUME NEW t \in ImageThreads, DeleteBuffer(t) PROVE ImageInv'
  <2>1. BufferInv' BY <1>7, DeleteStep DEF ImageInv
  <2>2. UNCHANGED <<image, user, origin, bytes>> BY <1>7 DEF DeleteBuffer
  <2> QED BY <2>1, <2>2 DEF ImageInv, ImageTypeOK, ImagesOK, Constructed
<1>8. CASE UNCHANGED imageVars
  <2>1. UNCHANGED <<image, user, origin, allocated, bytes, refs, deletes, deleting, selfCopied>>
    BY <1>8 DEF imageVars
  <2>2. ImageTypeOK' /\ ImagesOK' BY <2>1 DEF ImageInv, ImageTypeOK, ImagesOK, Constructed
  <2>3. BufferInv'
    BY <2>1 DEF ImageInv, BufferInv, BufferTypeOK, BuffersFresh, RefsExact, DeletesExact,
                DyingOnce, Buf, BufOwners, Dying
  <2> QED BY <2>2, <2>3 DEF ImageInv
<1> QED
  BY <1>4, <1>5, <1>6, <1>7, <1>8, EmptyInv, ClearInv, AssignItselfInv, AssignInv DEF ImageNext

(* The counts say when a buffer is deleted. *)
LEMMA InvBuffersExact == ImageInv => BuffersExact
<1> SUFFICES ASSUME ImageInv, NEW b \in 1 .. allocated
             PROVE  LET owned == \E i \in Images : Constructed(i) /\ image[i].m_buffer = b
                        dying == \E t \in ImageThreads : deleting[t] = b
                    IN  /\ deletes[b] <= 1
                        /\ owned => deletes[b] = 0 /\ ~dying
                        /\ dying => deletes[b] = 0
                        /\ ~owned /\ ~dying => deletes[b] = 1 \/ b \in selfCopied
  BY DEF BuffersExact
<1>1. b # NoBuffer BY DEF NoBuffer
<1>2. BufOwners(b) # {} <=> \E i \in Images : Constructed(i) /\ image[i].m_buffer = b
  BY <1>1 DEF BufOwners, Buf, Constructed
<1>3. Dying(b) <=> \E t \in ImageThreads : deleting[t] = b BY DEF Dying
<1>4. /\ BufOwners(b) # {} \/ b \in selfCopied => deletes[b] = 0 /\ ~Dying(b)
      /\ BufOwners(b) = {} /\ b \notin selfCopied => deletes[b] = IF Dying(b) THEN 0 ELSE 1
  BY DEF ImageInv, BufferInv, DeletesExact
<1> QED BY <1>2, <1>3, <1>4

(* The members say where the pixels are. *)
LEMMA InvPixelsExact == ImageInv => PixelsExact
  BY DEF ImageInv, ImagesOK, MembersOK, PixelsExact, Constructed

-----------------------------------------------------------------------------
(* WebSocketServerLws *)

Stopping == {"stop", "destroy", "forget", "delete", "deleted", "gone"}

ServerTypeOK ==
    /\ at \in {"idle", "start"} \cup Stopping
    /\ created \in 0 .. MaxContexts
    /\ context \in 0 .. created
    /\ live \subseteq 1 .. created
    /\ overwritten \subseteq 1 .. created
    /\ destroys \in [Contexts -> Nat]
    /\ serve \in [Threads -> {"begin", "scanned", "service", "end"}]
    /\ serves \in [Threads -> 0 .. created]

(* Only the owner calls. *)
OthersIdle == \A c \in Callers : c # Owner => pc[c] = "idle"

(* What is known of d->context and of m_stop where the owner is. *)
OwnerPlace ==
    /\ pc[Owner] \in {"init", "create", "assign"} => at = "idle" /\ context # Null
    /\ at = "start" => context # Null
    /\ at \in {"destroy", "forget"} => context # Null
    /\ at \in {"delete", "deleted", "gone"} => context = Null
    /\ at \in Stopping => m_stop
    /\ at = "gone" => pc[Owner] = "idle" /\ \A g \in Threads : ~Alive(g)

(* A context lives until it is destroyed, once; nobody destroys one that   *)
(* was overwritten.                                                        *)
ContextsCounted ==
    /\ \A x \in Contexts : destroys[x] = IF x \in live \/ x > created THEN 0 ELSE 1
    /\ context \notin overwritten /\ Null \notin overwritten
    /\ live = overwritten \cup (IF at = "forget" THEN {} ELSE {context} \ {Null})
    /\ context # Null => (context \in live <=> at # "forget")

(* work() is run by the worker, which has lost its context only after a    *)
(* stop() or an init() over a context.                                     *)
Serving ==
    \A g \in Threads :
        /\ serve[g] # "begin" => exec[g] = "work"
        /\ Alive(g) /\ context = Null => m_stop \/ overwritten # {}

ServerInv ==
    /\ IInv /\ ServerTypeOK /\ OthersIdle /\ OwnerPlace
    /\ ContextsCounted /\ Serving /\ ServesLive

(* The owner's and the worker's steps are steps of the WorkerThread. *)
LEMMA ServerSteps == [ServerNext]_everything => [Next]_vars
<1> SUFFICES ASSUME [ServerNext]_everything PROVE [Next]_vars
  OBVIOUS
<1>1. 0 \in Intervals /\ Owner \in Callers BY ServerAssumption, ConstantsAssumption
<1>2. CASE UNCHANGED everything BY <1>2 DEF everything
<1>3. CASE Methods
  <2>1. CASE StartWorker BY <1>1, <2>1 DEF StartWorker, Next, Call
  <2>2. CASE StopServer BY <1>1, <2>2 DEF StopServer, Next, Call
  <2>3. CASE Destroyed BY <1>1, <2>3 DEF Destroyed, Next, Call
  <2>4. CASE JoinServer BY <1>1, <2>4 DEF JoinServer, Next, Call
  <2>5. CASE CreateContext \/ Register \/ CancelService \/ DestroyContext \/ ForgetContext \/ Delete
    BY <2>5 DEF CreateContext, Register, CancelService, DestroyContext, ForgetContext, Delete
  <2> QED BY <1>3, <2>1, <2>2, <2>3, <2>4, <2>5 DEF Methods
<1>4. CASE Continue(Owner) BY <1>1, <1>4 DEF Next
<1>5. ASSUME NEW g \in Threads, Work(g) PROVE [Next]_vars
  <2>1. CASE Scan(g) \/ EnterService(g) \/ LeaveService(g)
    BY <2>1 DEF Scan, EnterService, LeaveService
  <2>2. CASE WorkReturns(g) BY <2>2 DEF WorkReturns, Next, Run
  <2> QED BY <1>5, <2>1, <2>2 DEF Work
<1>6. ASSUME NEW g \in Threads, Loop(g) \/ SpuriousWakeup(g) \/ Timeout(g) PROVE [Next]_vars
  BY <1>6 DEF Next, Run
<1>7. CASE Gone BY <1>7 DEF Gone, everything
<1> QED BY <1>2, <1>3, <1>4, <1>5, <1>6, <1>7 DEF ServerNext

(* What the loop of exec() does to a thread that is not inside work(). *)
LEMMA LoopMoves ==
    ASSUME IInv, NEW g \in Threads, Loop(g) \/ SpuriousWakeup(g) \/ Timeout(g)
    PROVE  /\ Alive(g) /\ exec[g] # "work"
           /\ pc' = pc /\ m_stop' = m_stop
           /\ \A h \in Threads : h # g => exec'[h] = exec[h]
<1>1. exec \in [Threads -> ExecStates] BY DEF IInv, TypeOK
<1>2. Alive(g) /\ exec[g] # "work"
  BY DEF Loop, ExecStart, ReadInterval, WaitOver, WaitBlock, TimeoutOver, PaceWait,
         SpuriousWakeup, Timeout, Alive
<1>3. pc' = pc /\ m_stop' = m_stop
  BY Zenon DEF Loop, ExecStart, ReadInterval, WaitOver, WaitBlock, TimeoutOver, Proceed, PaceWait,
         SpuriousWakeup, Timeout, callerVars
<1>4. \E s : exec' = [exec EXCEPT ![g] = s]
  BY Zenon DEF Loop, ExecStart, ReadInterval, WaitOver, WaitBlock, TimeoutOver, Proceed, PaceWait,
         SpuriousWakeup, Timeout, ExecGoto
<1>5. \A h \in Threads : h # g => exec'[h] = exec[h] BY <1>1, <1>4
<1> QED BY <1>2, <1>3, <1>5

(* A step that leaves the server, the owner and the flag alone, and in     *)
(* which no thread comes to life or leaves work().                         *)
LEMMA QuietStep ==
    ASSUME ServerInv, IInv', UNCHANGED serverVars, pc' = pc, m_stop' = m_stop,
           \A h \in Threads : Alive(h)' => Alive(h),
           \A h \in Threads : exec[h] = "work" => exec'[h] = "work"
    PROVE  ServerInv'
<1>1. UNCHANGED <<at, context, created, live, serve, serves, overwritten, destroys>>
  BY DEF serverVars
<1>2. ServerTypeOK' BY <1>1 DEF ServerInv, ServerTypeOK
<1>3. OthersIdle' /\ OwnerPlace' BY <1>1 DEF ServerInv, OthersIdle, OwnerPlace
<1>4. ContextsCounted' BY <1>1 DEF ServerInv, ContextsCounted
<1>5. Serving' BY <1>1 DEF ServerInv, Serving
<1>6. ServesLive' BY <1>1 DEF ServerInv, ServesLive
<1> QED BY <1>2, <1>3, <1>4, <1>5, <1>6 DEF ServerInv

(* The owner goes on inside a method of the worker. *)
LEMMA ContinueStep ==
    ASSUME ServerInv, IInv', Continue(Owner), UNCHANGED serverVars
    PROVE  ServerInv'
<1>1. UNCHANGED <<at, context, created, live, serve, serves, overwritten, destroys>>
  BY DEF serverVars
<1>2. /\ pc \in [Callers -> CallerStates] /\ exec \in [Threads -> ExecStates] /\ Owner \in Callers
      /\ pc' \in [Callers -> CallerStates]
  BY ConstantsAssumption DEF ServerInv, IInv, TypeOK
<1>3. ServerTypeOK' BY <1>1 DEF ServerInv, ServerTypeOK
<1>4. ContextsCounted' BY <1>1 DEF ServerInv, ContextsCounted
<1>5. \E s : pc' = [pc EXCEPT ![Owner] = s]
  BY Zenon DEF Continue, InitAlready, InitLock, InitCreate, InitAssign, NotifyAll, JoinWait,
               JoinReset, Goto
<1>6. OthersIdle' BY <1>2, <1>5 DEF ServerInv, OthersIdle
<1>7. CASE InitLock(Owner)
  <2>1. /\ \A g \in Threads : ~Alive(g)
        /\ at = "idle" /\ context # Null /\ exec' = exec
    BY <1>7, NoneAlive DEF InitLock, ServerInv, OwnerPlace, threadVars
  <2>2. OwnerPlace' BY <1>1, <2>1 DEF OwnerPlace, Stopping
  <2>3. Serving' /\ ServesLive'
    <3>1. \A g \in Threads : ~Alive(g)' /\ exec'[g] # "work" BY <2>1 DEF Alive
    <3>2. \A g \in Threads : serve[g] = "begin" BY <2>1 DEF ServerInv, Serving, Alive
    <3> QED BY <1>1, <3>1, <3>2 DEF Serving, ServesLive
  <2> QED BY <1>3, <1>4, <1>6, <2>2, <2>3 DEF ServerInv
<1>8. CASE InitCreate(Owner)
  <2>1. /\ at = "idle" /\ context # Null /\ m_stop' = m_stop
    BY <1>8 DEF InitCreate, ServerInv, OwnerPlace
  <2>2. \A g \in Threads : exec[g] = "work" => exec'[g] = "work"
    <3>1. \A g \in Threads : ~Alive(g) BY <1>2, <1>8 DEF InitCreate, ServerInv, IInv, Creating
    <3> QED BY <3>1 DEF Alive
  <2>3. OwnerPlace' BY <1>1, <2>1 DEF OwnerPlace, Stopping
  <2>4. Serving' BY <1>1, <2>1, <2>2 DEF ServerInv, Serving
  <2>5. ServesLive' BY <1>1, <2>1 DEF ServerInv, ServesLive
  <2> QED BY <1>3, <1>4, <1>6, <2>3, <2>4, <2>5 DEF ServerInv
<1>9. CASE InitAlready(Owner) \/ InitAssign(Owner) \/ NotifyAll(Owner) \/ JoinWait(Owner)
           \/ JoinReset(Owner)
  <2>1. m_stop' = m_stop
    BY <1>9, Zenon DEF InitAlready, InitAssign, NotifyAll, JoinWait, JoinReset
  <2>2. \A h \in Threads : /\ Alive(h)' <=> Alive(h)
                           /\ exec[h] = "work" => exec'[h] = "work"
    <3>1. CASE NotifyAll(Owner)
      BY <1>2, <3>1 DEF NotifyAll, Alive
    <3>2. CASE ~NotifyAll(Owner)
      <4>1. exec' = exec
        BY <1>9, <3>2, Zenon DEF InitAlready, InitAssign, JoinWait, JoinReset, threadVars
      <4> QED BY <4>1 DEF Alive
    <3> QED BY <3>1, <3>2
  <2>3. pc'[Owner] \in {"idle", "reset"} /\ pc[Owner] # "idle"
    BY <1>2, <1>9 DEF InitAlready, InitAssign, NotifyAll, JoinWait, JoinReset, Goto
  <2>4. OwnerPlace' BY <1>1, <2>1, <2>2, <2>3 DEF ServerInv, OwnerPlace
  <2>5. Serving' BY <1>1, <2>1, <2>2 DEF ServerInv, Serving
  <2>6. ServesLive' BY <1>1, <2>1, <2>2 DEF ServerInv, ServesLive
  <2> QED BY <1>3, <1>4, <1>6, <2>4, <2>5, <2>6 DEF ServerInv
<1> QED BY <1>7, <1>8, <1>9 DEF Continue

(* init() of the server creates a context, or fails to. *)
LEMMA CreateStep == ASSUME ServerInv, IInv', CreateContext PROVE ServerInv'
<1>1. /\ at = "idle" /\ pc[Owner] = "idle" /\ created < MaxContexts
      /\ overwritten' = overwritten \cup ({context} \ {Null})
      /\ UNCHANGED <<pc, exec, m_stop, serve, serves, destroys>>
  BY DEF CreateContext, Idle, vars, callerVars, threadVars
<1>2. /\ created \in Nat /\ MaxContexts \in Nat /\ context \in 0 .. created
      /\ live \subseteq 1 .. created /\ overwritten \subseteq 1 .. created
      /\ destroys \in [Contexts -> Nat] /\ serves \in [Threads -> 0 .. created]
  BY ServerAssumption DEF ServerInv, ServerTypeOK
<1>3. \A g \in Threads : Alive(g)' <=> Alive(g) BY <1>1 DEF Alive
<1>4. OthersIdle' BY <1>1 DEF ServerInv, OthersIdle
<1>5. overwritten' \subseteq 1 .. created BY <1>1, <1>2 DEF Null
<1>6. CASE /\ created' = created + 1 /\ context' = created + 1
           /\ live' = live \cup {created + 1} /\ at' = "start"
  <2>1. ServerTypeOK'
    <3>1. 0 .. created \subseteq 0 .. (created + 1) /\ 1 .. created \subseteq 1 .. (created + 1)
      BY <1>2
    <3>2. serves' \in [Threads -> 0 .. (created + 1)] BY <1>1, <1>2, <3>1
    <3> QED BY <1>1, <1>2, <1>5, <1>6, <3>1, <3>2 DEF ServerInv, ServerTypeOK
  <2>2. OwnerPlace' BY <1>1, <1>2, <1>6 DEF OwnerPlace, Stopping, Null
  <2>3. ContextsCounted'
    <3>1. \A x \in Contexts : destroys'[x] = IF x \in live' \/ x > created' THEN 0 ELSE 1
      BY <1>1, <1>2, <1>6 DEF ServerInv, ContextsCounted, Contexts
    <3>2. /\ live' = overwritten' \cup {context'}
          /\ context' \notin overwritten' /\ Null \notin overwritten' /\ context' # Null
      BY <1>1, <1>2, <1>5, <1>6 DEF ServerInv, ContextsCounted, Null
    <3> QED BY <1>6, <3>1, <3>2 DEF ContextsCounted
  <2>4. Serving' BY <1>1, <1>2, <1>6 DEF ServerInv, Serving, Null
  <2>5. ServesLive' BY <1>1, <1>3, <1>6 DEF ServerInv, ServesLive
  <2> QED BY <1>4, <2>1, <2>2, <2>3, <2>4, <2>5 DEF ServerInv
<1>7. CASE context' = Null /\ UNCHANGED <<created, live, at>>
  <2>1. ServerTypeOK' BY <1>1, <1>2, <1>5, <1>7 DEF ServerInv, ServerTypeOK, Null
  <2>2. OwnerPlace' BY <1>1, <1>7 DEF OwnerPlace, Stopping
  <2>3. ContextsCounted'
    BY <1>1, <1>2, <1>7 DEF ServerInv, ContextsCounted, Null
  <2>4. Serving'
    <3> SUFFICES ASSUME NEW g \in Threads
                 PROVE  /\ serve[g] # "begin" => exec[g] = "work"
                        /\ Alive(g) => m_stop \/ overwritten' # {}
      BY <1>1, <1>3, <1>7 DEF Serving
    <3>1. /\ serve[g] # "begin" => exec[g] = "work"
          /\ Alive(g) /\ context = Null => m_stop \/ overwritten # {}
      BY DEF ServerInv, Serving
    <3> QED BY <1>1, <3>1
  <2>5. ServesLive' BY <1>1, <1>3, <1>7 DEF ServerInv, ServesLive
  <2> QED BY <1>4, <2>1, <2>2, <2>3, <2>4, <2>5 DEF ServerInv
<1> QED BY <1>6, <1>7 DEF CreateContext

(* The calls of the worker's methods by the server's. *)
LEMMA CallStep ==
    ASSUME ServerInv, IInv', StartWorker \/ StopServer \/ Destroyed \/ JoinServer
    PROVE  ServerInv'
<1>1. /\ pc \in [Callers -> CallerStates] /\ Owner \in Callers
  BY ConstantsAssumption DEF ServerInv, IInv, TypeOK
<1>2. /\ pc[Owner] = "idle" /\ exec' = exec /\ m_stop' \in {m_stop, TRUE}
      /\ UNCHANGED <<context, created, live, serve, serves, overwritten, destroys>>
  BY DEF StartWorker, StopServer, Destroyed, JoinServer, Idle, InitInterval, Stop, JoinBegin,
         serverVars, vars, threadVars, callerVars
<1>3. \E s : pc' = [pc EXCEPT ![Owner] = s]
  <2>1. CASE pc' = pc BY <1>1, <2>1
  <2>2. CASE pc' # pc
    BY <2>2 DEF StartWorker, StopServer, Destroyed, JoinServer, InitInterval, Stop, JoinBegin,
           Goto, vars, callerVars
  <2> QED BY <2>1, <2>2
<1>4. OthersIdle' BY <1>1, <1>3 DEF ServerInv, OthersIdle
<1>5. \A g \in Threads : Alive(g)' <=> Alive(g) BY <1>2 DEF Alive
<1>6. Serving'
  <2>1. m_stop => m_stop' BY <1>2
  <2>2. \A g \in Threads : /\ serve[g] # "begin" => exec[g] = "work"
                           /\ Alive(g) /\ context = Null => m_stop \/ overwritten # {}
    BY DEF ServerInv, Serving
  <2> QED BY ONLY <1>2, <1>5, <2>1, <2>2 DEF Serving
<1>7. m_mutex = Free /\ (m_thread = Null => \A g \in Threads : ~Alive(g))
  <2>1. \A c \in Callers : pc[c] = "idle" BY <1>2 DEF ServerInv, OthersIdle
  <2>2. m_mutex = Free BY <2>1 DEF ServerInv, IInv, MutexHeld, TypeOK
  <2> QED BY <2>2, NoneAlive DEF ServerInv
<1>8. /\ at' \in {at, "idle", "stop", "gone"}
      /\ at' = "forget" => at = "forget"
      /\ at = "forget" => at' = "forget"
      /\ at' \in Stopping => m_stop'
      /\ at' = "gone" => pc'[Owner] = "idle" /\ \A g \in Threads : ~Alive(g)'
      /\ at' \in {"gone", "deleted"} => at \in {"deleted", "gone"}
      /\ at' \in {"destroy", "delete", "start"} => at' = at
      /\ pc'[Owner] \in {"init", "create", "assign"} => at = "start" /\ at' = "idle"
  <2>1. CASE StartWorker
    <3>1. at = "start" /\ at' = "idle" BY <2>1 DEF StartWorker
    <3> QED BY <3>1 DEF Stopping
  <2>2. CASE StopServer
    <3>1. at = "idle" /\ at' = "stop" /\ m_stop' = TRUE /\ pc'[Owner] = "notify"
      BY <1>1, <2>2 DEF StopServer, Stop, Goto, Idle
    <3> QED BY <3>1
  <2>3. CASE Destroyed
    <3>1. CASE JoinBegin(Owner) /\ at' = at
      <4>1. at = "deleted" /\ at' = at /\ m_stop' = m_stop /\ pc'[Owner] = "joining"
        BY <1>1, <2>3, <3>1 DEF Destroyed, JoinBegin, Goto
      <4> QED BY <4>1 DEF ServerInv, OwnerPlace, Stopping
    <3>2. CASE m_thread = Null /\ at' = "gone" /\ UNCHANGED vars
      <4>1. at = "deleted" /\ m_stop' = m_stop /\ pc' = pc
        BY <2>3, <3>2 DEF Destroyed, vars, callerVars
      <4> QED BY <1>2, <1>5, <1>7, <3>2, <4>1 DEF ServerInv, OwnerPlace, Stopping
    <3> QED BY <2>3, <3>1, <3>2 DEF Destroyed
  <2>4. CASE JoinServer
    <3>1. at = "idle" /\ at' = at /\ pc'[Owner] = "joining"
      BY <1>1, <2>4 DEF JoinServer, JoinBegin, Goto, Idle, serverVars
    <3> QED BY <3>1 DEF Stopping
  <2> QED BY <2>1, <2>2, <2>3, <2>4
<1>9. ServerTypeOK'
  <2>1. at' \in {"idle", "start"} \cup Stopping BY <1>8 DEF ServerInv, ServerTypeOK, Stopping
  <2> QED BY <1>2, <2>1 DEF ServerInv, ServerTypeOK
<1>10. OwnerPlace' BY <1>2, <1>8 DEF ServerInv, OwnerPlace
<1>11. ContextsCounted' BY <1>2, <1>8 DEF ServerInv, ContextsCounted
<1>12. ServesLive'
  <2>1. at' \in {"deleted", "gone"} => m_stop' BY <1>8 DEF Stopping
  <2>2. m_stop => m_stop' BY <1>2
  <2> QED BY <1>2, <2>1, <2>2 DEF ServerInv, ServesLive
<1> QED BY <1>4, <1>6, <1>9, <1>10, <1>11, <1>12 DEF ServerInv

(* What the owner does alone: handlers, and the context after stop(). *)
LEMMA OwnerStep ==
    ASSUME ServerInv, IInv',
           Register \/ CancelService \/ DestroyContext \/ ForgetContext \/ Delete
    PROVE  ServerInv'
<1>1. UNCHANGED <<pc, exec, m_stop, created, serve, serves, overwritten>>
  BY DEF Register, CancelService, DestroyContext, ForgetContext, Delete, vars, callerVars,
         threadVars
<1>2. /\ created \in Nat /\ context \in 0 .. created /\ live \subseteq 1 .. created
      /\ MaxContexts \in Nat /\ created <= MaxContexts /\ destroys \in [Contexts -> Nat]
  BY ServerAssumption DEF ServerInv, ServerTypeOK
<1>3. \A g \in Threads : Alive(g)' <=> Alive(g) BY <1>1 DEF Alive
<1>4. OthersIdle' BY <1>1 DEF ServerInv, OthersIdle
<1>5. CASE Register
  <2>1. UNCHANGED <<at, context, live, destroys>> BY <1>5 DEF Register
  <2> QED BY <1>1, <1>3, <1>4, <2>1
      DEF ServerInv, ServerTypeOK, OwnerPlace, ContextsCounted, Serving, ServesLive
<1>6. CASE CancelService
  <2>1. /\ at = "stop" /\ UNCHANGED <<context, live, destroys>>
        /\ at' = IF context # Null THEN "destroy" ELSE AfterStop
    BY <1>6 DEF CancelService
  <2>2. at' \in {"destroy", "delete", "idle"} /\ (at' = "destroy" <=> context # Null)
    BY <2>1 DEF AfterStop
  <2>3. m_stop BY <2>1 DEF ServerInv, OwnerPlace, Stopping
  <2>4. pc[Owner] \notin {"init", "create", "assign"} BY <2>1 DEF ServerInv, OwnerPlace
  <2>5. ServerTypeOK' BY <1>1, <2>1, <2>2 DEF ServerInv, ServerTypeOK, Stopping
  <2>6. OwnerPlace' BY <1>1, <2>1, <2>2, <2>3, <2>4 DEF OwnerPlace
  <2>7. ContextsCounted' BY <1>1, <2>1, <2>2 DEF ServerInv, ContextsCounted
  <2>8. Serving' /\ ServesLive' BY <1>1, <1>3, <2>1, <2>2 DEF ServerInv, Serving, ServesLive
  <2> QED BY <1>4, <2>5, <2>6, <2>7, <2>8 DEF ServerInv
<1>7. CASE DestroyContext
  <2>1. /\ at = "destroy" /\ at' = "forget" /\ context' = context /\ live' = live \ {context}
        /\ destroys' = [x \in Contexts |-> IF x = context THEN destroys[x] + 1 ELSE destroys[x]]
    BY <1>7 DEF DestroyContext, Destroys
  <2>2. m_stop /\ context # Null /\ context \in live
    BY <2>1 DEF ServerInv, OwnerPlace, Stopping, ContextsCounted
  <2>3. ServerTypeOK'
    <3>1. destroys' \in [Contexts -> Nat] BY <1>2, <2>1
    <3> QED BY <1>1, <2>1, <3>1 DEF ServerInv, ServerTypeOK, Stopping
  <2>4. OwnerPlace' BY <1>1, <2>1, <2>2 DEF ServerInv, OwnerPlace
  <2>5. ContextsCounted'
    <3>1. \A x \in Contexts : destroys'[x] = IF x \in live' \/ x > created' THEN 0 ELSE 1
      BY <1>1, <1>2, <2>1, <2>2 DEF ServerInv, ContextsCounted
    <3> QED BY <1>1, <2>1, <3>1 DEF ServerInv, ContextsCounted
  <2>6. Serving' BY <1>1, <1>3, <2>1 DEF ServerInv, Serving
  <2>7. ServesLive' BY <1>1, <1>3, <2>1, <2>2 DEF ServerInv, ServesLive
  <2> QED BY <1>4, <2>3, <2>4, <2>5, <2>6, <2>7 DEF ServerInv
<1>8. CASE ForgetContext
  <2>1. /\ at = "forget" /\ at' = AfterStop /\ context' = Null /\ UNCHANGED <<live, destroys>>
    BY <1>8 DEF ForgetContext
  <2>2. at' \in {"delete", "idle"} BY <2>1 DEF AfterStop
  <2>3. /\ m_stop /\ context # Null /\ context \notin live
        /\ pc[Owner] \notin {"init", "create", "assign"}
    BY <2>1 DEF ServerInv, OwnerPlace, Stopping, ContextsCounted
  <2>4. ServerTypeOK' BY <1>1, <1>2, <2>1, <2>2 DEF ServerInv, ServerTypeOK, Stopping, Null
  <2>5. OwnerPlace' BY <1>1, <2>1, <2>2, <2>3 DEF OwnerPlace
  <2>6. ContextsCounted' BY <1>1, <2>1, <2>3 DEF ServerInv, ContextsCounted
  <2>7. Serving' BY <1>1, <1>3, <2>1, <2>3 DEF ServerInv, Serving
  <2>8. ServesLive' BY <1>1, <1>3, <2>1, <2>2 DEF ServerInv, ServesLive
  <2> QED BY <1>4, <2>4, <2>5, <2>6, <2>7, <2>8 DEF ServerInv
<1>9. CASE Delete
  <2>1. at = "delete" /\ at' = "deleted" /\ context' = context BY <1>9 DEF Delete
  <2>2. m_stop /\ context = Null BY <2>1 DEF ServerInv, OwnerPlace, Stopping
  <2>3. UNCHANGED <<live, destroys>> BY <1>9, <2>2 DEF Delete
  <2>4. ServerTypeOK' BY <1>1, <2>1, <2>3 DEF ServerInv, ServerTypeOK, Stopping
  <2>5. OwnerPlace' BY <1>1, <2>1, <2>2 DEF ServerInv, OwnerPlace
  <2>6. ContextsCounted' BY <1>1, <2>1, <2>2, <2>3 DEF ServerInv, ContextsCounted
  <2>7. Serving' BY <1>1, <1>3, <2>1 DEF ServerInv, Serving
  <2>8. ServesLive' BY <1>1, <1>3, <2>1, <2>2, <2>3 DEF ServerInv, ServesLive
  <2> QED BY <1>4, <2>4, <2>5, <2>6, <2>7, <2>8 DEF ServerInv
<1> QED BY <1>5, <1>6, <1>7, <1>8, <1>9

(* work() *)
LEMMA WorkStep ==
    ASSUME ServerInv, IInv', NEW g \in Threads, Work(g)
    PROVE  ServerInv'
<1>1. UNCHANGED <<at, context, created, live, overwritten, destroys, pc, m_stop>>
  BY DEF Work, Scan, EnterService, LeaveService, WorkReturns, FinishWork, vars, callerVars
<1>2. /\ serve \in [Threads -> {"begin", "scanned", "service", "end"}]
      /\ serves \in [Threads -> 0 .. created] /\ context \in 0 .. created /\ created \in Nat
      /\ exec \in [Threads -> ExecStates]
  BY ServerAssumption DEF ServerInv, ServerTypeOK, IInv, TypeOK
<1>3. exec[g] = "work"
  BY DEF ServerInv, Serving, Work, Scan, EnterService, LeaveService, WorkReturns
<1>4. \A h \in Threads : /\ Alive(h)' => Alive(h)
                         /\ h # g => serve'[h] = serve[h] /\ serves'[h] = serves[h] /\ exec'[h] = exec[h]
  <2>1. CASE Scan(g) \/ EnterService(g) \/ LeaveService(g)
    BY <1>2, <2>1 DEF Scan, EnterService, LeaveService, vars, threadVars, Alive
  <2>2. CASE WorkReturns(g)
    <3>1. \E s : exec' = [exec EXCEPT ![g] = s]
      BY <2>2, Zenon DEF WorkReturns, FinishWork, ExecGoto
    <3>2. \A h \in Threads : h # g => exec'[h] = exec[h] BY <1>2, <3>1
    <3> QED BY <1>2, <1>3, <2>2, <3>2 DEF WorkReturns, Alive
  <2> QED BY <2>1, <2>2 DEF Work
<1>5. /\ serve'[g] # "begin" => exec'[g] = "work"
      /\ serve'[g] = "service" => serves'[g] = context
      /\ serve' \in [Threads -> {"begin", "scanned", "service", "end"}]
      /\ serves' \in [Threads -> 0 .. created]
  <2>1. CASE Scan(g) BY <1>2, <1>3, <2>1 DEF Scan, vars, threadVars
  <2>2. CASE EnterService(g) BY <1>2, <1>3, <2>2 DEF EnterService, vars, threadVars
  <2>3. CASE LeaveService(g) BY <1>2, <1>3, <2>3 DEF LeaveService, vars, threadVars, Null
  <2>4. CASE WorkReturns(g) BY <1>2, <2>4 DEF WorkReturns
  <2> QED BY <2>1, <2>2, <2>3, <2>4 DEF Work
<1>6. ServerTypeOK' BY <1>1, <1>5 DEF ServerInv, ServerTypeOK
<1>7. OthersIdle' /\ ContextsCounted' BY <1>1 DEF ServerInv, OthersIdle, ContextsCounted
<1>8. OwnerPlace' BY <1>1, <1>4 DEF ServerInv, OwnerPlace
<1>9. Serving' BY <1>1, <1>4, <1>5 DEF ServerInv, Serving
<1>10. ServesLive'
  <2>1. Alive(g) BY <1>3 DEF Alive
  <2>2. context = Null => m_stop \/ overwritten # {} BY <2>1 DEF ServerInv, Serving
  <2>3. context # Null => context \in live \/ m_stop
    BY DEF ServerInv, ContextsCounted, OwnerPlace, Stopping
  <2> QED BY <1>1, <1>4, <1>5, <2>2, <2>3 DEF ServerInv, ServesLive
<1> QED BY <1>6, <1>7, <1>8, <1>9, <1>10 DEF ServerInv

(* A server that is constructed. *)
LEMMA InitServerInv == ServerInit => ServerInv
<1> SUFFICES ASSUME ServerInit PROVE ServerInv
  OBVIOUS
<1>1. Init /\ IInv BY InitIInv DEF ServerInit
<1>2. \A g \in Threads : ~Alive(g) BY <1>1 DEF Init, Alive
<1>3. ServerTypeOK BY ServerAssumption DEF ServerInit, ServerTypeOK, Contexts, Null
<1>4. OthersIdle /\ OwnerPlace
  BY <1>1, ConstantsAssumption DEF ServerInit, Init, OthersIdle, OwnerPlace, Stopping
<1>5. ContextsCounted /\ Serving /\ ServesLive
  BY <1>2 DEF ServerInit, ContextsCounted, Serving, ServesLive, Contexts
<1> QED BY <1>1, <1>3, <1>4, <1>5 DEF ServerInv

(* Every step of the owner and of the worker keeps ServerInv. *)
LEMMA NextServerInv == ServerInv /\ [ServerNext]_everything => ServerInv'
<1> SUFFICES ASSUME ServerInv, [ServerNext]_everything PROVE ServerInv'
  OBVIOUS
<1>1. IInv' BY ServerSteps, NextIInv DEF ServerInv
<1>2. ASSUME NEW g \in Threads, Loop(g) \/ SpuriousWakeup(g) \/ Timeout(g), UNCHANGED serverVars
      PROVE  ServerInv'
  <2>1. IInv BY DEF ServerInv
  <2>2. /\ Alive(g) /\ exec[g] # "work" /\ pc' = pc /\ m_stop' = m_stop
        /\ \A h \in Threads : h # g => exec'[h] = exec[h]
    BY ONLY <1>2, <2>1, LoopMoves, g \in Threads
  <2>3. \A h \in Threads : Alive(h)' => Alive(h) BY <2>2 DEF Alive
  <2>4. \A h \in Threads : exec[h] = "work" => exec'[h] = "work" BY <2>2
  <2> QED BY ONLY <1>1, <1>2, <2>2, <2>3, <2>4, ServerInv, QuietStep
<1>3. CASE UNCHANGED everything
  <2>1. UNCHANGED serverVars /\ pc' = pc /\ m_stop' = m_stop /\ exec' = exec
    BY <1>3 DEF everything, vars, callerVars, threadVars
  <2>2. \A h \in Threads : Alive(h)' => Alive(h) BY <2>1 DEF Alive
  <2>3. \A h \in Threads : exec[h] = "work" => exec'[h] = "work" BY <2>1
  <2> QED BY ONLY <1>1, <2>1, <2>2, <2>3, ServerInv, QuietStep
<1>4. CASE Methods
  BY <1>1, <1>4, CreateStep, CallStep, OwnerStep DEF Methods
<1> QED BY <1>1, <1>2, <1>3, <1>4, ContinueStep, WorkStep DEF ServerNext, Gone

(* The contexts that are destroyed and left behind. *)
LEMMA InvContextsOwned == ServerInv => ContextsOwned
<1> SUFFICES ASSUME ServerInv PROVE ContextsOwned
  OBVIOUS
<1>1. \A x \in Contexts : destroys[x] <= 1 BY DEF ServerInv, ContextsCounted
<1>2. /\ context \notin overwritten
      /\ live = overwritten \cup (IF at = "forget" THEN {} ELSE {context} \ {Null})
  BY DEF ServerInv, ContextsCounted
<1>3. at = "gone" => \A g \in Threads : ~Alive(g)
  BY DEF ServerInv, OwnerPlace
<1>4. at \in {"deleted", "gone"} => context = Null
  BY DEF ServerInv, OwnerPlace
<1> QED BY <1>1, <1>2, <1>3, <1>4 DEF ContextsOwned

-----------------------------------------------------------------------------
(* SocketTransfer *)

TransferTypeOK ==
    /\ written \in Nat
    /\ inKernel \in Seq(Nat \X Nat)
    /\ received \in Seq(Nat)
    /\ empties \in Nat /\ buffer \in Nat /\ result \in Int
    /\ refused \in Nat
    /\ raised \in Nat /\ told \in Nat
    /\ socketError \in BOOLEAN

(* The pieces in the kernel are in order, none of their bytes was          *)
(* received, and none is empty unless an empty datagram was written.       *)
PiecesOrdered ==
    /\ \A i \in 1 .. Len(inKernel) :
          /\ 1 <= inKernel[i][1] /\ inKernel[i][1] <= inKernel[i][2] + 1
          /\ empties = 0 => inKernel[i][1] <= inKernel[i][2]
          /\ inKernel[i][2] <= written
          /\ \A j \in 1 .. Len(inKernel) : i < j => inKernel[i][2] < inKernel[j][1]
          /\ \A k \in 1 .. Len(received) : received[k] < inKernel[i][1]
    /\ \A k \in 1 .. Len(received) : received[k] <= written
    /\ \A k, l \in 1 .. Len(received) : k < l => received[k] < received[l]

(* Of a stream the pieces follow each other and what was received. *)
StreamWhole ==
    ~Datagrams =>
        /\ empties = 0
        /\ \A k \in 1 .. Len(received) : received[k] = k
        /\ inKernel = <<>> => Len(received) = written
        /\ inKernel # <<>> => /\ inKernel[1][1] = Len(received) + 1
                              /\ inKernel[Len(inKernel)][2] = written
        /\ \A i \in 1 .. Len(inKernel) - 1 : inKernel[i + 1][1] = inKernel[i][2] + 1

ResultsExact ==
    /\ result = 0 /\ buffer > 0 /\ ~nonBlocking =>
          (~writing /\ inKernel = <<>>) \/ (Datagrams /\ empties > 0)
    /\ told + (IF socketError THEN 1 ELSE 0) = raised

TransferInv == TransferTypeOK /\ PiecesOrdered /\ StreamWhole /\ ResultsExact

(* Initially nothing is written and nothing failed. *)
LEMMA InitTransferInv == TransferInit => TransferInv
<1> SUFFICES ASSUME TransferInit PROVE TransferInv
  OBVIOUS
<1> USE DEF TransferInit
<1>1. TransferTypeOK
  <2>1. socketError \in BOOLEAN BY Zenon
  <2> QED BY <2>1 DEF TransferTypeOK, Pending
<1>2. PiecesOrdered /\ StreamWhole BY DEF PiecesOrdered, StreamWhole
<1>3. ResultsExact BY DEF ResultsExact, Pending
<1> QED BY <1>1, <1>2, <1>3 DEF TransferInv

(* The kernel takes bytes of the writer. *)
LEMMA TakesStep ==
    ASSUME TransferInv, NEW n \in Nat, Takes(n), ~Datagrams => n # 0
    PROVE  TransferInv'
<1> DEFINE L == Len(inKernel)
           piece == <<written + 1, written + n>>
<1>1. /\ writing /\ written' = written + n
      /\ inKernel' = Append(inKernel, piece)
      /\ empties' = IF n = 0 THEN empties + 1 ELSE empties
      /\ UNCHANGED <<socketType, nonBlocking, received, buffer, result, writing, refused, errorVars>>
  BY DEF Takes, options, answers
<1>2. /\ written \in Nat /\ inKernel \in Seq(Nat \X Nat) /\ received \in Seq(Nat) /\ L \in Nat
      /\ n >= 0 /\ n \in Nat /\ empties \in Nat /\ (empties' = 0 => empties = 0 /\ n >= 1)
      /\ empties' \in Nat /\ empties' >= empties
  BY <1>1 DEF TransferInv, TransferTypeOK
<1>3. /\ Len(inKernel') = L + 1 /\ inKernel' \in Seq(Nat \X Nat) /\ inKernel' # <<>>
      /\ \A i \in 1 .. L : inKernel'[i] = inKernel[i]
      /\ inKernel'[L + 1] = piece
  <2>1. piece \in Nat \X Nat BY <1>2
  <2> HIDE DEF piece
  <2>2. Len(inKernel') = L + 1 /\ inKernel' \in Seq(Nat \X Nat) BY <1>1, <1>2, <2>1
  <2>3. \A i \in 1 .. L : inKernel'[i] = inKernel[i] BY <1>1, <1>2, <2>1
  <2>4. inKernel'[L + 1] = piece BY <1>1, <1>2, <2>1
  <2>5. inKernel' # <<>> BY <2>2, <1>2
  <2> QED BY <2>2, <2>3, <2>4, <2>5
<1>4. piece[1] = written + 1 /\ piece[2] = written + n OBVIOUS
<1> HIDE DEF piece, L
<1>5. /\ received' = received /\ socketType' = socketType /\ errorVars' = errorVars
      /\ nonBlocking' = nonBlocking /\ result' = result /\ writing' = writing /\ refused' = refused
      /\ buffer' = buffer
  BY <1>1
<1>6. TransferTypeOK'
  BY <1>1, <1>2, <1>3, <1>5 DEF TransferInv, TransferTypeOK, errorVars
<1>7. \A i \in 1 .. L : /\ 1 <= inKernel[i][1] /\ inKernel[i][1] <= inKernel[i][2] + 1
                        /\ empties = 0 => inKernel[i][1] <= inKernel[i][2]
                        /\ inKernel[i][2] <= written
                        /\ inKernel[i][1] \in Nat /\ inKernel[i][2] \in Nat
                        /\ \A j \in 1 .. L : i < j => inKernel[i][2] < inKernel[j][1]
                        /\ \A k \in 1 .. Len(received) : received[k] < inKernel[i][1]
  <2>1. \A i \in 1 .. L : inKernel[i] \in Nat \X Nat BY <1>2 DEF L
  <2>2. \A i \in 1 .. L : inKernel[i][1] \in Nat /\ inKernel[i][2] \in Nat BY <2>1
  <2>3. PiecesOrdered BY DEF TransferInv
  <2> QED BY ONLY <2>2, <2>3 DEF PiecesOrdered, L
<1>8. \A k \in 1 .. Len(received) : received[k] \in Nat /\ received[k] <= written
  BY <1>2 DEF TransferInv, PiecesOrdered
<1>9. PiecesOrdered'
  <2>1. ASSUME NEW i \in 1 .. L + 1
        PROVE  /\ 1 <= inKernel'[i][1] /\ inKernel'[i][1] <= inKernel'[i][2] + 1
               /\ empties' = 0 => inKernel'[i][1] <= inKernel'[i][2]
               /\ inKernel'[i][2] <= written + n
               /\ \A j \in 1 .. L + 1 : i < j => inKernel'[i][2] < inKernel'[j][1]
               /\ \A k \in 1 .. Len(received) : received[k] < inKernel'[i][1]
    <3>1. CASE i = L + 1
      BY <1>2, <1>3, <1>4, <1>8, <3>1, SMTT(30) DEF L
    <3>2. CASE i \in 1 .. L
      <4>1. ASSUME NEW j \in 1 .. L + 1, i < j PROVE inKernel'[i][2] < inKernel'[j][1]
        <5>1. CASE j = L + 1
          <6>1. inKernel'[i] = inKernel[i] BY <1>3, <3>2
          <6>2. inKernel[i][2] <= written /\ inKernel[i][2] \in Nat BY <1>7, <3>2
          <6>3. inKernel'[j][1] = written + 1 BY <1>3, <1>4, <5>1
          <6> QED BY ONLY <1>2, <6>1, <6>2, <6>3, SMTT(30)
        <5>2. CASE j \in 1 .. L BY <1>2, <1>3, <1>7, <3>2, <4>1, <5>2
        <5> QED BY <1>2, <5>1, <5>2
      <4>2. inKernel'[i] = inKernel[i] BY <1>3, <3>2
      <4>3. /\ 1 <= inKernel[i][1] /\ inKernel[i][1] <= inKernel[i][2] + 1
            /\ empties = 0 => inKernel[i][1] <= inKernel[i][2]
            /\ inKernel[i][2] <= written /\ inKernel[i][2] \in Nat
            /\ \A k \in 1 .. Len(received) : received[k] < inKernel[i][1]
        BY <1>7, <3>2
      <4>4. inKernel'[i][2] <= written + n BY ONLY <1>2, <4>2, <4>3
      <4>5. \A j \in 1 .. L + 1 : i < j => inKernel'[i][2] < inKernel'[j][1] BY ONLY <4>1
      <4> QED BY ONLY <1>2, <4>2, <4>3, <4>4, <4>5
    <3>3. i = L + 1 \/ i \in 1 .. L BY ONLY <1>2, i \in 1 .. L + 1
    <3> QED BY ONLY <3>1, <3>2, <3>3
  <2>2. \A k \in 1 .. Len(received) : received[k] <= written + n BY <1>2, <1>8
  <2> QED BY <1>1, <1>3, <1>5, <2>1, <2>2 DEF PiecesOrdered, TransferInv
<1>10. StreamWhole'
  <2> SUFFICES ASSUME ~Datagrams
               PROVE  /\ empties' = 0
                      /\ \A k \in 1 .. Len(received) : received[k] = k
                      /\ inKernel'[1][1] = Len(received) + 1
                      /\ inKernel'[Len(inKernel')][2] = written + n
                      /\ \A i \in 1 .. Len(inKernel') - 1 : inKernel'[i + 1][1] = inKernel'[i][2] + 1
    BY <1>1, <1>3, <1>5 DEF StreamWhole, Datagrams
  <2>0. empties' = 0 BY <1>1 DEF TransferInv, StreamWhole
  <2>1. /\ \A k \in 1 .. Len(received) : received[k] = k
        /\ inKernel = <<>> => Len(received) = written
        /\ inKernel # <<>> => inKernel[1][1] = Len(received) + 1 /\ inKernel[L][2] = written
        /\ \A i \in 1 .. L - 1 : inKernel[i + 1][1] = inKernel[i][2] + 1
    BY DEF TransferInv, StreamWhole, L
  <2>2. inKernel = <<>> <=> L = 0 BY <1>2 DEF L
  <2>3. inKernel'[1][1] = Len(received) + 1
    <3>1. CASE L = 0 BY <1>2, <1>3, <1>4, <2>1, <2>2, <3>1
    <3>2. CASE L # 0
      <4>1. 1 \in 1 .. L BY ONLY <1>2, <3>2
      <4>2. inKernel'[1] = inKernel[1] BY ONLY <1>3, <4>1
      <4> QED BY ONLY <2>1, <2>2, <3>2, <4>2
    <3> QED BY <3>1, <3>2
  <2>4. inKernel'[Len(inKernel')][2] = written + n BY <1>2, <1>3, <1>4
  <2>5. ASSUME NEW i \in 1 .. L PROVE inKernel'[i + 1][1] = inKernel'[i][2] + 1
    <3>1. CASE i = L
      <4>1. L # 0 BY ONLY <1>2, <3>1, i \in 1 .. L
      <4>2. inKernel'[i] = inKernel[L] /\ inKernel'[i + 1] = piece BY ONLY <1>3, <3>1, i \in 1 .. L
      <4> QED BY ONLY <1>4, <2>1, <2>2, <4>1, <4>2
    <3>2. CASE i \in 1 .. L - 1
      <4>1. inKernel'[i + 1] = inKernel[i + 1] /\ inKernel'[i] = inKernel[i] BY <1>2, <1>3, <3>2
      <4> QED BY <2>1, <3>2, <4>1
    <3> QED BY <1>2, <3>1, <3>2
  <2> QED BY <1>2, <1>3, <2>0, <2>1, <2>3, <2>4, <2>5
<1>11. ResultsExact'
  BY <1>1, <1>2, <1>5 DEF TransferInv, TransferTypeOK, ResultsExact, errorVars, Datagrams
<1> QED BY <1>6, <1>9, <1>10, <1>11 DEF TransferInv

(* A read takes the first piece, or the beginning of it. *)
LEMMA ReceiveStep ==
    ASSUME TransferInv, NEW size \in Nat, ReceivePiece(size)
    PROVE  TransferInv'
<1> DEFINE L == Len(inKernel)
           R == Len(received)
           piece == Head(inKernel)
           a == piece[1]
           b == piece[2]
           n == Least(size, b - a + 1)
           rest == <<a + n, b>>
<1>1. /\ inKernel # <<>> /\ result' = n /\ buffer' = size
      /\ received' = received \o Numbers(<<a, a + n - 1>>)
      /\ inKernel' = IF Datagrams \/ rest[1] > rest[2] THEN Tail(inKernel)
                     ELSE <<rest>> \o Tail(inKernel)
      /\ UNCHANGED <<socketType, nonBlocking, written, empties, writing, refused, errorVars>>
  BY DEF ReceivePiece, Returns, options
<1>2. /\ written \in Nat /\ inKernel \in Seq(Nat \X Nat) /\ received \in Seq(Nat)
      /\ L \in Nat /\ R \in Nat /\ L >= 1 /\ piece = inKernel[1] /\ piece \in Nat \X Nat
  BY <1>1 DEF TransferInv, TransferTypeOK
<1>3. \A i \in 1 .. L : /\ 1 <= inKernel[i][1] /\ inKernel[i][1] <= inKernel[i][2] + 1
                        /\ empties = 0 => inKernel[i][1] <= inKernel[i][2]
                        /\ inKernel[i][2] <= written
                        /\ inKernel[i][1] \in Nat /\ inKernel[i][2] \in Nat
                        /\ \A j \in 1 .. L : i < j => inKernel[i][2] < inKernel[j][1]
                        /\ \A k \in 1 .. R : received[k] < inKernel[i][1]
  BY <1>2, SMTT(30) DEF TransferInv, PiecesOrdered
<1>4. /\ a \in Nat /\ b \in Nat /\ 1 <= a /\ a <= b + 1 /\ b <= written
      /\ empties = 0 => a <= b
      /\ a = inKernel[1][1] /\ b = inKernel[1][2]
      /\ \A i \in 2 .. L : b < inKernel[i][1]
      /\ \A k \in 1 .. R : received[k] < a
  <2>1. 1 \in 1 .. L BY <1>2
  <2>2. \A i \in 2 .. L : i \in 1 .. L /\ 1 < i BY <1>2
  <2> QED BY <1>2, <1>3, <2>1, <2>2
<1> HIDE DEF a, b, piece
<1>5. n \in Nat /\ 0 <= n /\ a + n - 1 <= b /\ (n = 0 => size = 0 \/ a = b + 1)
  <2>1. n = size \/ n = b - a + 1 BY DEF Least
  <2>2. n <= b - a + 1
    <3>1. size \in Int /\ b - a + 1 \in Int BY <1>4
    <3> QED BY <3>1 DEF Least
  <2> HIDE DEF n
  <2>3. b - a + 1 \in Nat BY ONLY <1>4
  <2>4. n \in Nat /\ 0 <= n BY ONLY <2>1, <2>3, size \in Nat
  <2>5. n = 0 => size = 0 \/ b - a + 1 = 0 BY ONLY <2>1
  <2> QED BY ONLY <1>4, <2>2, <2>4, <2>5
<1>6. \A k \in 1 .. R : received[k] \in Nat /\ received[k] <= written
  BY <1>2 DEF TransferInv, PiecesOrdered
<1> HIDE DEF n, L, R
<1>7. /\ received' \in Seq(Nat) /\ Len(received') = R + n
      /\ \A k \in 1 .. R : received'[k] = received[k]
      /\ \A k \in R + 1 .. R + n : received'[k] = a + (k - R) - 1
  <2> DEFINE new == Numbers(<<a, a + n - 1>>)
  <2>1. new = [i \in 1 .. n |-> a + i - 1]
    <3>1. <<a, a + n - 1>>[2] - <<a, a + n - 1>>[1] + 1 = n BY <1>4, <1>5
    <3> QED BY <3>1 DEF Numbers
  <2>2. new \in Seq(Nat) /\ Len(new) = n /\ \A i \in 1 .. n : new[i] = a + i - 1
    <3>1. \A i \in 1 .. n : a + i - 1 \in Nat BY ONLY <1>4, <1>5
    <3>2. new \in [1 .. n -> Nat] BY ONLY <2>1, <3>1
    <3>3. \A i \in 1 .. n : new[i] = a + i - 1 BY ONLY <2>1
    <3> HIDE DEF new
    <3>4. new \in Seq(Nat) BY ONLY <1>5, <3>2
    <3>5. Len(new) = n BY ONLY <1>5, <3>2
    <3> QED BY ONLY <3>3, <3>4, <3>5
  <2>3. received' = received \o new BY <1>1
  <2> HIDE DEF new
  <2>4. received' \in Seq(Nat) /\ Len(received') = R + n
    BY ONLY <1>2, <2>2, <2>3, ConcatProperties DEF R
  <2>5. \A k \in 1 .. R : received'[k] = received[k] BY <1>2, <1>5, <2>2, <2>3 DEF R
  <2>6. \A k \in R + 1 .. R + n : received'[k] = new[k - R] BY <1>2, <1>5, <2>2, <2>3, SMTT(30) DEF R
  <2>7. \A k \in R + 1 .. R + n : k - R \in 1 .. n BY <1>2, <1>5
  <2> QED BY <2>2, <2>4, <2>5, <2>6, <2>7
<1>8. /\ Tail(inKernel) \in Seq(Nat \X Nat) /\ Len(Tail(inKernel)) = L - 1
      /\ \A i \in 1 .. L - 1 : Tail(inKernel)[i] = inKernel[i + 1]
  BY <1>1, <1>2 DEF L
<1>9. \/ /\ Len(inKernel') = L - 1 /\ inKernel' \in Seq(Nat \X Nat)
         /\ \A i \in 1 .. L - 1 : inKernel'[i] = inKernel[i + 1]
         /\ Datagrams \/ a + n - 1 = b
      \/ /\ Len(inKernel') = L /\ inKernel' \in Seq(Nat \X Nat)
         /\ inKernel'[1] = rest /\ a + n <= b
         /\ \A i \in 2 .. L : inKernel'[i] = inKernel[i]
  <2>0. rest[1] = a + n /\ rest[2] = b /\ rest \in Nat \X Nat BY <1>4, <1>5
  <2> HIDE DEF rest
  <2>1. CASE Datagrams \/ rest[1] > rest[2]
    <3>1. inKernel' = Tail(inKernel) BY <1>1, <2>1
    <3>2. Datagrams \/ a + n - 1 = b BY <1>4, <1>5, <2>0, <2>1
    <3> QED BY <1>8, <3>1, <3>2
  <2>2. CASE ~(Datagrams \/ rest[1] > rest[2])
    <3>1. inKernel' = <<rest>> \o Tail(inKernel) BY <1>1, <2>2
    <3>2. a + n <= b BY <1>4, <1>5, <2>0, <2>2
    <3>3. Len(inKernel') = L /\ inKernel' \in Seq(Nat \X Nat) /\ inKernel'[1] = rest
      BY <1>2, <1>8, <2>0, <3>1
    <3>4. \A i \in 2 .. L : inKernel'[i] = Tail(inKernel)[i - 1]
      BY <1>2, <1>8, <2>0, <3>1
    <3>5. \A i \in 2 .. L : inKernel'[i] = inKernel[i]
      <4>1. \A i \in 2 .. L : i - 1 \in 1 .. L - 1 /\ (i - 1) + 1 = i BY <1>2
      <4> QED BY <1>8, <3>4, <4>1
    <3> QED BY <3>2, <3>3, <3>5
  <2> QED BY <2>1, <2>2
<1>10. rest[1] = a + n /\ rest[2] = b OBVIOUS
<1> HIDE DEF rest
<1>11. UNCHANGED <<socketType, nonBlocking, written, empties, writing, refused,
                   socketError, raised, told>>
  BY <1>1 DEF errorVars
<1>12. TransferTypeOK'
  <2>1. inKernel' \in Seq(Nat \X Nat) BY <1>9
  <2> QED BY <1>1, <1>5, <1>7, <1>11, <2>1 DEF TransferInv, TransferTypeOK
<1>13. /\ \A k \in 1 .. R + n : received'[k] \in Nat /\ received'[k] <= a + n - 1
       /\ \A k, l \in 1 .. R + n : k < l => received'[k] < received'[l]
  <2>1. \A k \in 1 .. R + n : k \in 1 .. R \/ k \in R + 1 .. R + n BY <1>2, <1>5
  <2>2. \A k \in 1 .. R : received'[k] \in Nat /\ received'[k] < a BY <1>4, <1>6, <1>7
  <2>3. \A k \in R + 1 .. R + n : received'[k] \in Nat /\ received'[k] >= a /\ received'[k] <= a + n - 1
    <3> SUFFICES ASSUME NEW k \in R + 1 .. R + n
                 PROVE  received'[k] \in Nat /\ received'[k] >= a /\ received'[k] <= a + n - 1
      OBVIOUS
    <3>1. received'[k] = a + (k - R) - 1 BY ONLY <1>7, k \in R + 1 .. R + n
    <3>2. k \in Int /\ k >= R + 1 /\ k <= R + n BY ONLY <1>2, <1>5, k \in R + 1 .. R + n
    <3> QED BY ONLY <1>2, <1>4, <1>5, <3>1, <3>2, SMTT(30)
  <2>4. ASSUME NEW k \in 1 .. R + n, NEW l \in 1 .. R + n, k < l
        PROVE  received'[k] < received'[l]
    <3>1. CASE l \in 1 .. R
      <4>1. k \in 1 .. R BY <1>2, <2>4, <3>1
      <4>2. received[k] < received[l] BY <2>4, <3>1, <4>1 DEF TransferInv, PiecesOrdered, R
      <4> QED BY <1>7, <3>1, <4>1, <4>2
    <3>2. CASE l \in R + 1 .. R + n /\ k \in 1 .. R BY <2>2, <2>3, <3>2, <1>4
    <3>3. CASE l \in R + 1 .. R + n /\ k \in R + 1 .. R + n
      <4>1. received'[k] = a + (k - R) - 1 /\ received'[l] = a + (l - R) - 1 BY ONLY <1>7, <3>3
      <4>2. k \in Int /\ l \in Int BY ONLY <3>3
      <4> QED BY ONLY <1>2, <1>4, <2>4, <4>1, <4>2
    <3> QED BY <2>1, <3>1, <3>2, <3>3
  <2> QED BY <1>2, <1>4, <1>5, <2>1, <2>2, <2>3, <2>4, SMTT(30)
<1>14. PiecesOrdered'
  <2>1. ASSUME NEW i \in 1 .. Len(inKernel')
        PROVE  /\ 1 <= inKernel'[i][1] /\ inKernel'[i][1] <= inKernel'[i][2] + 1
               /\ empties' = 0 => inKernel'[i][1] <= inKernel'[i][2]
               /\ inKernel'[i][2] <= written
               /\ \A j \in 1 .. Len(inKernel') : i < j => inKernel'[i][2] < inKernel'[j][1]
               /\ a + n <= inKernel'[i][1]
    <3>1. CASE /\ Len(inKernel') = L - 1
               /\ \A k \in 1 .. L - 1 : inKernel'[k] = inKernel[k + 1]
      <4>1. \A k \in 1 .. L - 1 : k + 1 \in 1 .. L /\ k + 1 \in 2 .. L BY ONLY <1>2, SMTT(30)
      <4>2. i \in 1 .. L - 1 BY <3>1
      <4>3. a + n <= inKernel[i + 1][1]
        <5>1. i + 1 \in 2 .. L /\ i + 1 \in 1 .. L BY ONLY <4>1, <4>2
        <5>2. b < inKernel[i + 1][1] /\ inKernel[i + 1][1] \in Nat BY ONLY <1>3, <1>4, <5>1
        <5>3. a \in Nat /\ b \in Nat BY ONLY <1>4
        <5>4. a + n <= b + 1 BY ONLY <1>5, <5>3
        <5>5. b + 1 <= inKernel[i + 1][1] BY ONLY <5>2, <5>3
        <5> HIDE DEF a, b, n
        <5> QED BY ONLY <1>5, <5>2, <5>3, <5>4, <5>5
      <4>4. \A j \in 1 .. L - 1 : i < j => inKernel'[i][2] < inKernel'[j][1]
        <5> SUFFICES ASSUME NEW j \in 1 .. L - 1, i < j PROVE inKernel'[i][2] < inKernel'[j][1]
          OBVIOUS
        <5>1. inKernel'[i] = inKernel[i + 1] /\ inKernel'[j] = inKernel[j + 1]
          BY ONLY <3>1, <4>2, j \in 1 .. L - 1
        <5>2. i + 1 \in 1 .. L /\ j + 1 \in 1 .. L BY ONLY <4>1, <4>2, j \in 1 .. L - 1
        <5>3. i + 1 < j + 1 BY ONLY <1>2, <4>2, i < j, j \in 1 .. L - 1
        <5> QED BY ONLY <1>3, <5>1, <5>2, <5>3
      <4> QED BY <1>3, <1>11, <3>1, <4>1, <4>2, <4>3, <4>4
    <3>2. CASE /\ Len(inKernel') = L /\ inKernel'[1] = rest /\ a + n <= b
               /\ \A k \in 2 .. L : inKernel'[k] = inKernel[k]
      <4>0. i \in 1 .. L BY <3>2
      <4>1. CASE i = 1
        <5>1. \A j \in 1 .. L : 1 < j => j \in 2 .. L BY <1>2
        <5>2. inKernel'[i][1] = a + n /\ inKernel'[i][2] = b BY ONLY <1>10, <3>2, <4>1
        <5>3. \A j \in 1 .. L : i < j => b < inKernel'[j][1] BY ONLY <1>4, <3>2, <4>1, <5>1
        <5> QED BY ONLY <1>2, <1>4, <1>5, <3>2, <5>2, <5>3, SMTT(30)
      <4>2. CASE i # 1
        <5>1. i \in 2 .. L /\ \A j \in 1 .. L : i < j => j \in 2 .. L BY <1>2, <4>0, <4>2
        <5>2. a + n <= inKernel[i][1]
          <6>1. b < inKernel[i][1] /\ inKernel[i][1] \in Nat BY ONLY <1>3, <1>4, <4>0, <5>1
          <6>2. a \in Nat /\ b \in Nat BY ONLY <1>4
          <6>3. a + n <= b + 1 BY ONLY <1>5, <6>2
          <6> HIDE DEF a, b, n
          <6> QED BY ONLY <1>5, <6>1, <6>2, <6>3
        <5> QED BY <1>3, <1>11, <3>2, <4>0, <5>1, <5>2
      <4> QED BY <4>1, <4>2
    <3> QED BY <1>9, <3>1, <3>2
  <2>2. \A i \in 1 .. Len(inKernel') : inKernel'[i][1] \in Nat
    <3>1. inKernel' \in Seq(Nat \X Nat) BY <1>9
    <3> QED BY <3>1
  <2>3. \A i \in 1 .. Len(inKernel') : \A k \in 1 .. R + n : received'[k] < inKernel'[i][1]
    <3> SUFFICES ASSUME NEW i \in 1 .. Len(inKernel'), NEW k \in 1 .. R + n
                 PROVE  received'[k] < inKernel'[i][1]
      OBVIOUS
    <3>1. a + n <= inKernel'[i][1] /\ inKernel'[i][1] \in Nat BY <2>1, <2>2
    <3>2. received'[k] \in Nat /\ received'[k] <= a + n - 1 BY <1>13
    <3> QED BY <1>4, <1>5, <3>1, <3>2, SMTT(30)
  <2>4. \A k \in 1 .. R + n : received'[k] <= written
    <3>1. a + n - 1 <= written BY <1>2, <1>4, <1>5
    <3> QED BY <1>2, <1>4, <1>5, <1>13, <3>1, SMTT(30)
  <2> QED BY <1>7, <1>11, <1>13, <2>1, <2>3, <2>4 DEF PiecesOrdered
<1>15. StreamWhole'
  <2> SUFFICES ASSUME ~Datagrams
               PROVE  /\ empties = 0
                      /\ \A k \in 1 .. R + n : received'[k] = k
                      /\ inKernel' = <<>> => R + n = written
                      /\ inKernel' # <<>> => /\ inKernel'[1][1] = R + n + 1
                                             /\ inKernel'[Len(inKernel')][2] = written
                      /\ \A i \in 1 .. Len(inKernel') - 1 : inKernel'[i + 1][1] = inKernel'[i][2] + 1
    BY <1>7, <1>11 DEF StreamWhole, Datagrams
  <2>0. empties = 0 BY DEF TransferInv, StreamWhole
  <2>1. /\ \A k \in 1 .. R : received[k] = k
        /\ a = R + 1 /\ inKernel[L][2] = written
        /\ \A i \in 1 .. L - 1 : inKernel[i + 1][1] = inKernel[i][2] + 1
    BY <1>1, <1>4 DEF TransferInv, StreamWhole, L, R
  <2>2. \A k \in 1 .. R + n : received'[k] = k
    <3>1. \A k \in 1 .. R + n : k \in 1 .. R \/ k \in R + 1 .. R + n BY <1>2, <1>5
    <3>2. \A k \in R + 1 .. R + n : a + (k - R) - 1 = k
      <4>1. R \in Nat /\ n \in Nat /\ a = R + 1 BY <1>2, <1>5, <2>1
      <4> QED BY ONLY <4>1
    <3> QED BY <1>7, <2>1, <3>1, <3>2
  <2>3. CASE /\ Len(inKernel') = L - 1 /\ inKernel' \in Seq(Nat \X Nat)
             /\ \A i \in 1 .. L - 1 : inKernel'[i] = inKernel[i + 1]
             /\ a + n - 1 = b
    <3>1. inKernel' = <<>> <=> L = 1 BY <1>2, <2>3
    <3>2. CASE L = 1
      <4>1. R + n = written BY <1>2, <1>4, <1>5, <2>1, <2>3, <3>2
      <4> QED BY <2>0, <2>2, <2>3, <3>1, <3>2, <4>1
    <3>3. CASE L # 1
      <4>1. L - 1 \in 1 .. L - 1 /\ 1 \in 1 .. L - 1 /\ (L - 1) + 1 = L BY <1>2, <3>3
      <4>2. inKernel'[1] = inKernel[2] /\ inKernel'[L - 1] = inKernel[L]
        <5>1. inKernel'[1] = inKernel[1 + 1] /\ inKernel'[L - 1] = inKernel[(L - 1) + 1]
          BY <2>3, <4>1
        <5> QED BY <4>1, <5>1
      <4>3. inKernel[2][1] = b + 1
        <5>1. inKernel[1 + 1][1] = inKernel[1][2] + 1 BY <2>1, <4>1
        <5> QED BY <1>4, <5>1
      <4>4. inKernel'[1][1] = R + n + 1
        <5>1. inKernel'[1][1] = b + 1 BY ONLY <4>2, <4>3
        <5> QED BY ONLY <1>2, <1>4, <1>5, <2>1, <2>3, <5>1
      <4>5. inKernel'[Len(inKernel')][2] = written BY <2>1, <2>3, <4>2
      <4>6. ASSUME NEW i \in 1 .. (L - 1) - 1 PROVE inKernel'[i + 1][1] = inKernel'[i][2] + 1
        <5>1. i \in 1 .. L - 1 /\ i + 1 \in 1 .. L - 1 BY <1>2
        <5> QED BY <2>1, <2>3, <5>1
      <4> QED BY <2>0, <2>2, <2>3, <3>1, <3>3, <4>4, <4>5, <4>6
    <3> QED BY <3>2, <3>3
  <2>4. CASE /\ Len(inKernel') = L /\ inKernel' \in Seq(Nat \X Nat)
             /\ inKernel'[1] = rest /\ a + n <= b
             /\ \A i \in 2 .. L : inKernel'[i] = inKernel[i]
    <3>1. inKernel' # <<>> BY <1>2, <2>4
    <3>2. inKernel'[1][1] = R + n + 1 BY <1>2, <1>5, <1>10, <2>1, <2>4
    <3>3. inKernel'[L][2] = written
      <4>1. CASE L = 1 BY <1>4, <1>10, <2>1, <2>4, <4>1
      <4>2. CASE L # 1 BY <1>2, <2>1, <2>4, <4>2
      <4> QED BY <4>1, <4>2
    <3>4. ASSUME NEW i \in 1 .. L - 1 PROVE inKernel'[i + 1][1] = inKernel'[i][2] + 1
      <4>1. inKernel'[i + 1] = inKernel[i + 1]
        <5>1. i + 1 \in 2 .. L BY ONLY <1>2, i \in 1 .. L - 1
        <5> QED BY ONLY <2>4, <5>1
      <4>2. inKernel'[i][2] = inKernel[i][2]
        <5>1. CASE i = 1 BY <1>4, <1>10, <2>4, <5>1
        <5>2. CASE i # 1
          <6>1. i \in 2 .. L BY ONLY <1>2, <5>2, i \in 1 .. L - 1
          <6> QED BY ONLY <2>4, <6>1
        <5> QED BY <5>1, <5>2
      <4> QED BY <2>1, <4>1, <4>2
    <3> QED BY <2>0, <2>2, <2>4, <3>1, <3>2, <3>3, <3>4
  <2> QED BY <1>9, <2>0, <2>3, <2>4
<1>16. ResultsExact'
  <2>1. ASSUME n = 0, size > 0 PROVE Datagrams /\ empties > 0
    <3>1. a = b + 1 BY <1>5, <2>1
    <3>2. empties # 0 BY <1>4, <3>1
    <3>3. empties \in Nat BY DEF TransferInv, TransferTypeOK
    <3>4. Datagrams BY <3>2 DEF TransferInv, StreamWhole
    <3> QED BY <3>2, <3>3, <3>4
  <2> QED BY <1>1, <1>11, <2>1 DEF TransferInv, ResultsExact, Datagrams
<1> QED BY <1>12, <1>14, <1>15, <1>16 DEF TransferInv

(* The other calls leave the data alone. *)
LEMMA NextTransferInv == TransferInv /\ [TransferNext]_transferVars => TransferInv'
<1> SUFFICES ASSUME TransferInv, [TransferNext]_transferVars PROVE TransferInv'
  OBVIOUS
<1>0. 0 .. MaxBuffer \subseteq Nat BY TransferAssumption
<1>1. ASSUME NEW size \in 0 .. MaxBuffer, NEW taken \in 0 .. size, WriteBuffer(size, taken)
      PROVE  TransferInv'
  <2>1. taken \in Nat /\ size \in Nat BY <1>0
  <2>2. Takes(taken) /\ (~Datagrams => taken # 0) BY <1>1, <2>1 DEF WriteBuffer
  <2> QED BY <2>1, <2>2, TakesStep
<1>2. ASSUME NEW size \in 0 .. MaxBuffer, ReceivePiece(size) PROVE TransferInv'
  BY <1>0, <1>2, ReceiveStep
<1>3. ASSUME UNCHANGED <<socketType, written, inKernel, empties, received>>,
             TransferTypeOK', ResultsExact'
      PROVE  TransferInv'
  BY <1>3 DEF TransferInv, PiecesOrdered, StreamWhole, Datagrams
<1>4. ASSUME NEW size \in 0 .. MaxBuffer, SendTo(size) PROVE TransferInv'
  <2>1. size \in Nat /\ Datagrams BY <1>0, <1>4 DEF SendTo, Datagrams, MapType
  <2>2. CASE Takes(size) BY <2>1, <2>2, TakesStep
  <2>3. CASE ~Takes(size)
    <3>1. /\ refused' = refused + 1
          /\ UNCHANGED <<socketType, nonBlocking, buffer, result, written, inKernel, empties,
                         received, writing, socketError, raised, told>>
      BY <1>4, <2>3 DEF SendTo, options, answers, transferData, errorVars
    <3>2. TransferTypeOK' BY <3>1 DEF TransferInv, TransferTypeOK
    <3>3. ResultsExact' BY <3>1 DEF TransferInv, TransferTypeOK, ResultsExact, Datagrams
    <3> QED BY <1>3, <3>1, <3>2, <3>3
  <2> QED BY <2>2, <2>3
<1>5. CASE CloseWriter
  <2>1. /\ writing /\ writing' = FALSE
        /\ UNCHANGED <<socketType, nonBlocking, buffer, result, written, inKernel, empties,
                       received, refused, socketError, raised, told>>
    BY <1>5 DEF CloseWriter, options, answers, errorVars
  <2>2. TransferTypeOK' BY <2>1 DEF TransferInv, TransferTypeOK
  <2>3. ResultsExact' BY <2>1 DEF TransferInv, ResultsExact, Datagrams
  <2> QED BY <1>3, <2>1, <2>2, <2>3
<1>6. ASSUME NEW size \in 0 .. MaxBuffer, ReceiveEnd(size) \/ ReceiveNothing(size)
      PROVE  TransferInv'
  <2>1. /\ result' = 0 /\ buffer' = size /\ inKernel = <<>> /\ (nonBlocking \/ ~writing)
        /\ UNCHANGED <<socketType, nonBlocking, written, inKernel, empties, received, writing,
                       refused, socketError, raised, told>>
    BY <1>6 DEF ReceiveEnd, ReceiveNothing, Returns, options, transferData, errorVars
  <2>2. TransferTypeOK' BY <1>0, <2>1 DEF TransferInv, TransferTypeOK
  <2>3. ResultsExact' BY <2>1 DEF TransferInv, ResultsExact, Datagrams
  <2> QED BY <1>3, <2>1, <2>2, <2>3
<1>7. ASSUME \/ SocketErrorRead \/ RaiseError
             \/ \E size \in 0 .. MaxBuffer : ReceiveFails(size)
      PROVE  TransferInv'
  <2>1. /\ \/ result' = result /\ buffer' = buffer
           \/ result' = Failed /\ buffer' \in Nat
        /\ UNCHANGED <<socketType, nonBlocking, written, inKernel, empties, received, writing,
                       refused>>
    BY <1>0, <1>7 DEF ReceiveFails, SocketErrorRead, RaiseError, Returns, options, answers,
       transferData
  <2>2. \/ UNCHANGED <<socketError, raised, told>>
        \/ /\ socketError' = FALSE /\ raised' = raised
           /\ told' = told + IF socketError THEN 1 ELSE 0
        \/ ~socketError /\ socketError' = TRUE /\ raised' = raised + 1 /\ told' = told
    BY <1>7 DEF ReceiveFails, SocketErrorRead, RaiseError, TellsError, errorVars
  <2>3. /\ raised \in Nat /\ told \in Nat /\ socketError \in BOOLEAN
        /\ told + (IF socketError THEN 1 ELSE 0) = raised
    BY DEF TransferInv, TransferTypeOK, ResultsExact
  <2>4. /\ raised' \in Nat /\ told' \in Nat
        /\ told' + (IF socketError' THEN 1 ELSE 0) = raised'
    BY ONLY <2>2, <2>3
  <2>5. socketError' \in BOOLEAN BY ONLY <2>2, <2>3
  <2>6. TransferTypeOK' BY <2>1, <2>4, <2>5 DEF TransferInv, TransferTypeOK, Failed
  <2>7. ResultsExact'
    <3>1. result' = 0 => result = 0 /\ buffer' = buffer BY <2>1 DEF Failed
    <3> QED BY <2>1, <2>4, <3>1 DEF TransferInv, ResultsExact, Datagrams
  <2> QED BY <1>3, <2>1, <2>6, <2>7
<1>8. CASE UNCHANGED transferVars
  <2>1. UNCHANGED <<socketType, nonBlocking, buffer, result, written, inKernel, empties, received,
                    writing, refused, socketError, raised, told>>
    BY <1>8 DEF transferVars, options, answers, transferData, errorVars
  <2> QED BY <1>3, <2>1 DEF TransferInv, TransferTypeOK, ResultsExact, Datagrams
<1> QED BY <1>1, <1>2, <1>4, <1>5, <1>6, <1>7, <1>8 DEF TransferNext

(* What the reader is told. *)
LEMMA InvTransferExact == TransferInv => TransferExact
  BY DEF TransferInv, PiecesOrdered, StreamWhole, ResultsExact, TransferExact

-----------------------------------------------------------------------------
(* The tables of SqliteDatabase *)

(* While the rows have one width, the table has it too, and value c of row *)
(* r is at the place the reader computes.                                  *)
TableTypeOK ==
    /\ table \in [nrOfColumns : Nat, columnNames : Nat, data : Seq(STRING)]
    /\ given \in Seq(Seq(STRING))

RowsPlaced ==
    LET n == table.nrOfColumns
    IN  SameWidth =>
            /\ \A r \in 1 .. Len(given) : Len(given[r]) = n
            /\ Len(table.data) = Len(given) * n
            /\ table.columnNames = n
            /\ given = <<>> => n = 0
            /\ \A r \in 1 .. Len(given) : \A c \in 1 .. n :
                  table.data[(r - 1) * n + c] = given[r][c]

TableInv == TableTypeOK /\ RowsPlaced

(* A table without columns is none. *)
LEMMA NoTableNoColumns ==
    ASSUME NEW t \in [nrOfColumns : Nat, columnNames : Nat, data : Seq(STRING)],
           t.nrOfColumns = 0, t.columnNames = 0, Len(t.data) = 0
    PROVE  t = NoTable
<1>1. t.data = <<>> OBVIOUS
<1> QED BY <1>1 DEF NoTable

(* The places of the rows that are there are inside the table. *)
LEMMA PlaceInside ==
    ASSUME NEW n \in Nat, NEW R \in Nat, NEW r \in 1 .. R, NEW c \in 1 .. n
    PROVE  (r - 1) * n + c \in 1 .. R * n
<1>1. r \in Int /\ r >= 1 /\ r <= R /\ c \in Int /\ c >= 1 /\ c <= n OBVIOUS
<1>2. r * n <= R * n BY <1>1, TimesMonotone
<1>3. (r - 1) * n = r * n - n BY <1>1, SMT
<1>4. 0 <= (r - 1) * n
  <2>1. 0 * n <= (r - 1) * n BY <1>1, TimesMonotone
  <2> QED BY <2>1
<1>5. r * n \in Int /\ R * n \in Int /\ (r - 1) * n \in Int BY <1>1
<1> QED BY ONLY <1>1, <1>2, <1>3, <1>4, <1>5, n \in Nat

(* The table of a query that begins, and of none. *)
LEMMA EmptyTable == ASSUME table = NoTable, given = <<>> PROVE TableInv
<1>1. TableTypeOK BY DEF TableTypeOK, NoTable
<1>2. table.nrOfColumns = 0 /\ table.columnNames = 0 /\ table.data = <<>> BY DEF NoTable
<1>3. Len(given) = 0 /\ Len(table.data) = 0 BY <1>2
<1>4. RowsPlaced BY <1>2, <1>3 DEF RowsPlaced
<1> QED BY <1>1, <1>4 DEF TableInv

(* A row is added at the end. *)
LEMMA RowStep ==
    ASSUME TableInv, NEW row \in Rows, ExecRow(row)
    PROVE  TableInv'
<1> DEFINE n == table.nrOfColumns
           R == Len(given)
           d == table.data
<1>1. table' = CallbackFunc(table, row) /\ given' = Append(given, row) BY DEF ExecRow
<1>2. row \in Seq(STRING) BY SqliteAssumption
<1>3. /\ table \in [nrOfColumns : Nat, columnNames : Nat, data : Seq(STRING)]
      /\ given \in Seq(Seq(STRING)) /\ n \in Nat /\ R \in Nat /\ d \in Seq(STRING)
      /\ table.columnNames \in Nat
  BY DEF TableInv, TableTypeOK
<1>4. /\ given' \in Seq(Seq(STRING)) /\ Len(given') = R + 1
      /\ \A r \in 1 .. R : given'[r] = given[r]
      /\ given'[R + 1] = row
  BY <1>1, <1>2, <1>3
<1>5. /\ table'.nrOfColumns = IF row = <<>> \/ table # NoTable THEN n ELSE Len(row)
      /\ table'.columnNames = IF row = <<>> \/ table # NoTable THEN table.columnNames ELSE Len(row)
      /\ table'.data = d \o row
      /\ table' \in [nrOfColumns : Nat, columnNames : Nat, data : Seq(STRING)]
  <2>1. CASE row = <<>>
    <3>1. table' = table BY <1>1, <2>1 DEF CallbackFunc
    <3>2. d \o row = d BY <1>3, <2>1
    <3> QED BY <1>3, <2>1, <3>1, <3>2
  <2>2. CASE row # <<>> /\ table = NoTable
    <3>1. table' = [nrOfColumns |-> Len(row), columnNames |-> Len(row), data |-> d \o row]
      BY <1>1, <2>2 DEF CallbackFunc
    <3>2. d \o row \in Seq(STRING) /\ Len(row) \in Nat BY <1>2, <1>3
    <3> QED BY <2>2, <3>1, <3>2
  <2>3. CASE row # <<>> /\ table # NoTable
    <3>1. table' = [nrOfColumns |-> n, columnNames |-> table.columnNames, data |-> d \o row]
      BY <1>1, <2>3 DEF CallbackFunc
    <3>2. d \o row \in Seq(STRING) BY <1>2, <1>3
    <3> QED BY <1>3, <2>3, <3>1, <3>2
  <2> QED BY <2>1, <2>2, <2>3
<1>6. TableTypeOK' BY <1>4, <1>5 DEF TableTypeOK
<1>7. ASSUME SameWidth'
      PROVE  /\ \A r \in 1 .. R + 1 : Len(given'[r]) = table'.nrOfColumns
             /\ Len(table'.data) = (R + 1) * table'.nrOfColumns
             /\ table'.columnNames = table'.nrOfColumns
             /\ \A r \in 1 .. R + 1 : \A c \in 1 .. table'.nrOfColumns :
                   table'.data[(r - 1) * table'.nrOfColumns + c] = given'[r][c]
  <2>1. \A r, s \in 1 .. R + 1 : Len(given'[r]) = Len(given'[s]) BY <1>4, <1>7 DEF SameWidth
  <2>2. \A r \in 1 .. R : r \in 1 .. R + 1 BY <1>3
  <2>3. R + 1 \in 1 .. R + 1 BY <1>3
  <2>4. \A r \in 1 .. R : Len(given[r]) = Len(row) BY <1>4, <2>1, <2>2, <2>3
  <2>5. SameWidth BY <2>4 DEF SameWidth
  <2>6. /\ \A r \in 1 .. R : Len(given[r]) = n
        /\ Len(d) = R * n /\ table.columnNames = n /\ (given = <<>> => n = 0)
        /\ \A r \in 1 .. R : \A c \in 1 .. n : d[(r - 1) * n + c] = given[r][c]
    BY <2>5 DEF TableInv, RowsPlaced
  <2> DEFINE w == Len(row)
  <2>7. w \in Nat /\ (w = 0 <=> row = <<>>) BY <1>2
  <2>8. R > 0 => n = w
    <3> SUFFICES ASSUME R > 0 PROVE n = w
      OBVIOUS
    <3>1. 1 \in 1 .. R BY <1>3
    <3> QED BY <2>4, <2>6, <3>1
  <2>9. R = 0 => n = 0 BY <1>3, <2>6
  <2>10. n = 0 => table = NoTable
    <3> SUFFICES ASSUME n = 0 PROVE table = NoTable
      OBVIOUS
    <3>1. Len(d) = 0 BY <1>3, <2>6
    <3> QED BY <1>3, <2>6, <3>1, NoTableNoColumns
  <2>11. n # 0 => table # NoTable BY DEF NoTable
  <2>12. table'.nrOfColumns = w /\ table'.columnNames = w
    <3>1. CASE R = 0
      BY <1>5, <2>6, <2>7, <2>9, <2>10, <3>1
    <3>2. CASE R > 0
      BY <1>5, <2>6, <2>7, <2>8, <2>10, <2>11, <3>2
    <3> QED BY <1>3, <3>1, <3>2
  <2>13. R * n = R * w
    <3>1. CASE R = 0 BY <1>3, <2>7, <3>1
    <3>2. CASE R > 0 BY <2>8, <3>2
    <3> QED BY <1>3, <3>1, <3>2
  <2>14. /\ Len(d \o row) = R * w + w
         /\ \A i \in 1 .. R * w : (d \o row)[i] = d[i]
         /\ \A c \in 1 .. w : (d \o row)[R * w + c] = row[c]
    <3> HIDE DEF d, w, n
    <3>1. Len(d) = R * w /\ R * w \in Nat BY <1>3, <2>6, <2>7, <2>13
    <3>2. Len(row) = w BY DEF w
    <3> DEFINE m == R * w
    <3> HIDE DEF m
    <3>3. m \in Nat /\ Len(d) = m BY <3>1 DEF m
    <3>4. Len(d \o row) = m + w BY ONLY <1>2, <1>3, <2>7, <3>2, <3>3, ConcatProperties
    <3>5. \A i \in 1 .. m : (d \o row)[i] = d[i] BY ONLY <1>2, <1>3, <2>7, <3>2, <3>3
    <3>6. \A c \in 1 .. w : (d \o row)[m + c] = row[c] BY ONLY <1>2, <1>3, <2>7, <3>2, <3>3
    <3> QED BY <3>4, <3>5, <3>6 DEF m
  <2>15. \A r \in 1 .. R + 1 : r \in 1 .. R \/ r = R + 1 BY <1>3
  <2>16. \A r \in 1 .. R + 1 : Len(given'[r]) = w BY <1>4, <2>4, <2>15
  <2>17. Len(table'.data) = (R + 1) * w
    <3>1. (R + 1) * w = R * w + w BY <1>3, <2>7, SMT
    <3> QED BY <1>5, <2>14, <3>1
  <2>18. ASSUME NEW r \in 1 .. R + 1, NEW c \in 1 .. w
         PROVE  table'.data[(r - 1) * w + c] = given'[r][c]
    <3>1. CASE r = R + 1
      <4>1. (r - 1) * w + c = R * w + c BY <1>3, <3>1
      <4> QED BY <1>4, <1>5, <2>14, <3>1, <4>1
    <3>2. CASE r \in 1 .. R
      <4> HIDE DEF w, n, R, d
      <4>0. R > 0 BY <1>3, <3>2
      <4>1. n = w BY <2>8, <4>0
      <4>2. (r - 1) * w + c \in 1 .. R * w BY ONLY <1>3, <2>7, <3>2, c \in 1 .. w, PlaceInside
      <4>3. table'.data[(r - 1) * w + c] = d[(r - 1) * w + c] BY <1>5, <2>14, <4>2
      <4>4. d[(r - 1) * w + c] = given[r][c] BY <2>6, <3>2, <4>1
      <4>5. given'[r] = given[r] BY <1>4, <3>2
      <4> QED BY <4>3, <4>4, <4>5
    <3> QED BY <2>15, <3>1, <3>2
  <2> HIDE DEF w
  <2> QED BY <2>12, <2>16, <2>17, <2>18
<1>8. given' # <<>> BY <1>3, <1>4
<1>9. RowsPlaced' BY <1>4, <1>7, <1>8 DEF RowsPlaced
<1> QED BY <1>6, <1>9 DEF TableInv

(* Every step of exec() keeps the places. *)
LEMMA NextTableInv == TableInv /\ [SqliteNext]_sqliteVars => TableInv'
<1> SUFFICES ASSUME TableInv, [SqliteNext]_sqliteVars PROVE TableInv'
  OBVIOUS
<1>1. ASSUME UNCHANGED <<table, given>> PROVE TableInv'
  BY <1>1 DEF TableInv, TableTypeOK, RowsPlaced, SameWidth
<1>2. ASSUME table' = NoTable, given' = <<>> PROVE TableInv'
  <2>1. TableTypeOK' BY <1>2 DEF TableTypeOK, NoTable
  <2>2. table'.nrOfColumns = 0 /\ table'.columnNames = 0 /\ table'.data = <<>> BY <1>2 DEF NoTable
  <2>3. Len(given') = 0 /\ Len(table'.data) = 0 BY <1>2, <2>2
  <2>4. RowsPlaced' BY <2>2, <2>3 DEF RowsPlaced
  <2> QED BY <2>1, <2>4 DEF TableInv
<1>3. ASSUME Exec \/ \E row \in Rows : ExecNull(row) PROVE TableInv'
  BY <1>2, <1>3 DEF Exec, ExecNull
<1>4. ASSUME NEW row \in Rows, ExecRow(row) PROVE TableInv' BY <1>4, RowStep
<1>5. ASSUME NEW failed \in BOOLEAN, ExecReturns(failed) PROVE TableInv'
  <2>1. CASE failed BY <1>2, <1>5, <2>1 DEF ExecReturns
  <2>2. CASE ~failed BY <1>1, <1>5, <2>2 DEF ExecReturns
  <2> QED BY <2>1, <2>2
<1>6. ASSUME NEW path \in Paths,
             CreateDatabase(path) \/ CreateFails(path) \/ SetPath(path) \/ RemoveFile(path)
      PROVE  UNCHANGED <<table, given>>
  BY <1>6 DEF CreateDatabase, CreateFails, SetPath, RemoveFile, queryVars
<1>7. ASSUME OpenDatabase \/ OpenExhausted \/ CloseDatabase \/ DestroyDatabase \/ Insert
             \/ UNCHANGED sqliteVars
      PROVE  UNCHANGED <<table, given>>
  BY <1>7 DEF OpenDatabase, OpenExhausted, CloseDatabase, DestroyDatabase, Insert, queryVars,
         sqliteVars
<1> QED BY <1>1, <1>3, <1>4, <1>5, <1>6, <1>7 DEF SqliteNext

(* Value for value, a row of the table is the row that was given. *)
LEMMA InvTableRowMajor == TableInv => TableRowMajor
<1> DEFINE n == table.nrOfColumns
           R == Len(given)
           d == table.data
<1> SUFFICES ASSUME TableInv, SameWidth
             PROVE  /\ Len(d) = n * R
                    /\ table.columnNames = n
                    /\ \A r \in 1 .. R : SubSeq(d, (r - 1) * n + 1, r * n) = given[r]
  BY DEF TableRowMajor
<1>1. /\ given \in Seq(Seq(STRING)) /\ n \in Nat /\ R \in Nat /\ d \in Seq(STRING)
  BY DEF TableInv, TableTypeOK
<1>2. /\ \A r \in 1 .. R : Len(given[r]) = n
      /\ Len(d) = R * n /\ table.columnNames = n
      /\ \A r \in 1 .. R : \A c \in 1 .. n : d[(r - 1) * n + c] = given[r][c]
  BY DEF TableInv, RowsPlaced
<1> HIDE DEF n, R, d
<1>3. Len(d) = n * R BY <1>1, <1>2, SMT
<1>4. ASSUME NEW r \in 1 .. R PROVE SubSeq(d, (r - 1) * n + 1, r * n) = given[r]
  <2> DEFINE lo == (r - 1) * n
             s == SubSeq(d, lo + 1, r * n)
  <2>1. r \in Int /\ lo \in Int /\ r * n = lo + n /\ r * n \in Int BY <1>1, SMT
  <2>2. s = SubSeq(d, lo + 1, lo + n) BY <2>1
  <2>3. \A i \in lo + 1 .. lo + n : d[i] \in STRING
    <3> SUFFICES ASSUME NEW i \in lo + 1 .. lo + n PROVE d[i] \in STRING
      OBVIOUS
    <3> HIDE DEF lo
    <3>1. i - lo \in 1 .. n /\ lo + (i - lo) = i BY <1>1, <2>1
    <3> DEFINE c == i - lo
    <3>2. c \in 1 .. n BY <3>1
    <3> HIDE DEF c
    <3>3. (r - 1) * n + c \in 1 .. R * n BY ONLY <1>1, <3>2, r \in 1 .. R, PlaceInside
    <3>4. i \in 1 .. Len(d) BY <1>2, <3>1, <3>3 DEF c, lo
    <3> QED BY <1>1, <3>4
  <2> HIDE DEF lo
  <2>4. /\ SubSeq(d, lo + 1, lo + n) \in Seq(STRING)
        /\ Len(SubSeq(d, lo + 1, lo + n)) = IF lo + 1 <= lo + n THEN (lo + n) - (lo + 1) + 1 ELSE 0
        /\ \A i \in 1 .. (lo + n) - (lo + 1) + 1 : SubSeq(d, lo + 1, lo + n)[i] = d[lo + 1 + i - 1]
    <3>1. lo + 1 \in Int /\ lo + n \in Int BY <1>1, <2>1
    <3> QED BY ONLY <2>3, <3>1, SubSeqProperties
  <2> HIDE DEF s
  <2>5. s \in Seq(STRING) /\ Len(s) = n
    BY ONLY <1>1, <2>1, <2>2, <2>4
  <2>6. \A i \in 1 .. n : s[i] = given[r][i]
    <3> SUFFICES ASSUME NEW i \in 1 .. n PROVE s[i] = given[r][i]
      OBVIOUS
    <3>1. (lo + n) - (lo + 1) + 1 = n /\ lo + 1 + i - 1 = lo + i BY ONLY <1>1, <2>1, i \in 1 .. n
    <3>2. s[i] = d[lo + i] BY ONLY <2>2, <2>4, <3>1, i \in 1 .. n
    <3>3. d[lo + i] = given[r][i] BY <1>2 DEF lo
    <3> QED BY ONLY <3>2, <3>3
  <2>7. given[r] \in Seq(STRING) /\ Len(given[r]) = n BY <1>1, <1>2 DEF R
  <2>8. s = given[r]
    <3> DEFINE g == given[r]
    <3> HIDE DEF g
    <3>1. g \in Seq(STRING) /\ Len(s) = Len(g) /\ \A i \in 1 .. Len(s) : s[i] = g[i]
      BY <2>5, <2>6, <2>7 DEF g
    <3>2. s \in Seq(STRING) BY <2>5
    <3>3. s = g BY ONLY <3>1, <3>2, SeqEqual
    <3> QED BY <3>3 DEF g
  <2> QED BY <2>8 DEF s, lo
<1> QED BY <1>2, <1>3, <1>4 DEF n, R, d

-----------------------------------------------------------------------------
(* Thread::setPriority *)

(* A member of an enumeration is numbered by its place. *)
LEMMA EnumeratorValue ==
    ASSUME NEW category, NEW i \in DOMAIN Enumerators[category], NEW name,
           Enumerators[category][i] = name,
           \A j \in DOMAIN Enumerators[category] : Enumerators[category][j] = name => j = i
    PROVE  MakeErrorCode(category, name) = [category |-> category, value |-> i - 1]
<1>1. (CHOOSE j \in DOMAIN Enumerators[category] : Enumerators[category][j] = name) = i
  OBVIOUS
<1> QED BY <1>1 DEF MakeErrorCode

(* The posix codes that setPriority() returns. *)
LEMMA PriorityErrors ==
    /\ PriorityError("ESRCH") = [category |-> "posix", value |-> 6]
    /\ PriorityError("EINVAL") = [category |-> "posix", value |-> 2]
    /\ PriorityError("EPERM") = [category |-> "posix", value |-> 5]
    /\ PriorityError("ENOTSUP") = [category |-> "posix", value |-> 3]
<1> DEFINE E == Enumerators["posix"]
<1>1. E = PosixErrorCodes BY DEF Enumerators
<1>2. DOMAIN E = 1 .. 7 BY <1>1 DEF PosixErrorCodes
<1>3. /\ E[1] = "InvalidDomain" /\ E[2] = "InvalidType" /\ E[3] = "Invalid"
      /\ E[4] = "OperationNotSupported" /\ E[5] = "UnixSocketPathTooLong"
      /\ E[6] = "PermissionDenied" /\ E[7] = "NotFound"
  BY <1>1 DEF PosixErrorCodes
<1> HIDE DEF E
<1>4. \A j \in 1 .. 7 : j = 1 \/ j = 2 \/ j = 3 \/ j = 4 \/ j = 5 \/ j = 6 \/ j = 7
  OBVIOUS
<1>5. \A i, j \in 1 .. 7 : E[i] = E[j] => i = j BY <1>3, <1>4
<1>6. ASSUME NEW i \in 1 .. 7
      PROVE  MakeErrorCode("posix", E[i]) = [category |-> "posix", value |-> i - 1]
  BY <1>2, <1>5, EnumeratorValue DEF E
<1>7. MakeErrorCode("posix", E[7]) = [category |-> "posix", value |-> 6] BY <1>6
<1>8. MakeErrorCode("posix", E[3]) = [category |-> "posix", value |-> 2] BY <1>6
<1>9. MakeErrorCode("posix", E[6]) = [category |-> "posix", value |-> 5] BY <1>6
<1>10. MakeErrorCode("posix", E[4]) = [category |-> "posix", value |-> 3] BY <1>6
<1> QED BY <1>3, <1>7, <1>8, <1>9, <1>10 DEF PriorityError

PriorityInv ==
    /\ platform = "posix" =>
        /\ scheduling \in [PriorityThreads -> UNION {{Policy(p)} : p \in Priority}]
        /\ granted \in [PriorityThreads -> Priority]
        /\ \A t \in PriorityThreads : scheduling[t] = Policy(granted[t])
        /\ \/ refusal = "none" /\ answer = NoErrorCode
           \/ /\ refusal \in {"ESRCH", "EINVAL", "EPERM", "ENOTSUP"}
              /\ answer = PriorityError(refusal)

(* The threads begin with the normal priority. *)
LEMMA InitPriorityInv == PriorityInit => PriorityInv
  BY DEF PriorityInit, PriorityInv, Scheduled, Priority, NoErrorCode

(* Whoever calls, the thread that is given is the one that is scheduled.   *)
LEMMA NextPriorityInv == PriorityInv /\ [PriorityNext]_priorityVars => PriorityInv'
<1> SUFFICES ASSUME PriorityInv, [PriorityNext]_priorityVars PROVE PriorityInv'
  OBVIOUS
<1>1. CASE UNCHANGED priorityVars BY <1>1 DEF PriorityInv, priorityVars
<1>2. ASSUME NEW t \in PriorityThreads, NEW priority \in Priority, PosixSetPriority(t, priority)
      PROVE  PriorityInv'
  <2>1. platform = "posix" BY <1>2 DEF PosixSetPriority
  <2>2. CASE Granted(t, t, priority)
    BY <2>1, <2>2 DEF Granted, PriorityInv, Scheduled
  <2>3. CASE \E errno \in {"ESRCH", "EINVAL", "EPERM", "ENOTSUP"} :
                Refused(errno, PriorityError(errno))
    BY <2>1, <2>3 DEF Refused, PriorityInv
  <2> QED BY <1>2, <2>2, <2>3 DEF PosixSetPriority
<1>3. ASSUME NEW caller \in PriorityThreads, NEW t \in PriorityThreads,
             NEW priority \in Priority, Win32SetPriority(caller, t, priority)
      PROVE  PriorityInv'
  <2>1. platform' = "win32" BY <1>3 DEF Win32SetPriority, Granted, Refused
  <2> QED BY <2>1 DEF PriorityInv
<1> QED BY <1>1, <1>2, <1>3 DEF PriorityNext, SetPriority

(* An answer tests as an error exactly when the system refused, and the    *)
(* conditions of EINVAL and ENOTSUP are those of the errno.                *)
LEMMA InvPriorityExact == PriorityInv => PriorityExact
<1> SUFFICES ASSUME PriorityInv, platform = "posix"
             PROVE  /\ \A t \in PriorityThreads : scheduling[t] = Policy(granted[t])
                    /\ IsSet(answer) <=> refusal # "none"
                    /\ refusal \in {"EINVAL", "ENOTSUP"} =>
                          DefaultErrorCondition(answer) = LastSystemError(refusal)
  BY DEF PriorityExact
<1>1. \A t \in PriorityThreads : scheduling[t] = Policy(granted[t])
  BY DEF PriorityInv
<1>2. IsSet(answer) <=> refusal # "none"
  BY PriorityErrors DEF PriorityInv, IsSet, NoErrorCode
<1>3. DefaultErrorCondition([category |-> "posix", value |-> 2]) = LastSystemError("EINVAL")
  BY DEF DefaultErrorCondition, PosixConditions
<1>4. DefaultErrorCondition([category |-> "posix", value |-> 3]) = LastSystemError("ENOTSUP")
  BY DEF DefaultErrorCondition, PosixConditions
<1>5. refusal \in {"EINVAL", "ENOTSUP"} => answer = PriorityError(refusal)
  BY DEF PriorityInv
<1> QED BY <1>1, <1>2, <1>3, <1>4, <1>5, PriorityErrors

-----------------------------------------------------------------------------
(* The functions on strings.  Induction is replaced by a counterexample:   *)
(* of the places where a claim about a recursive function fails, the first *)
(* one, or the last one, is contradicted by the place next to it.          *)

(* A set of numbers that is not empty has a first one. *)
LEMMA FirstOf ==
    ASSUME NEW T, T \subseteq Nat, T # {}
    PROVE  \E i \in T : \A j \in T : i <= j
<1> DEFINE R == OpToRel(<, Nat)
<1>1. PICK x \in T : \A y \in T : <<y, x>> \notin R
  <2> HIDE DEF R
  <2>1. IsWellFoundedOn(R, Nat)
    BY NatLessThanWellFounded, Zenon DEF R
  <2> QED BY <2>1, WFMin
<1>2. \A y \in T : ~(y < x)
  BY <1>1 DEF OpToRel
<1> QED BY <1>2

(* A bounded one has a last one. *)
LEMMA LastOf ==
    ASSUME NEW n \in Nat, NEW T, T \subseteq 0 .. n, T # {}
    PROVE  \E i \in T : \A j \in T : j <= i
<1> DEFINE D == {n - i : i \in T}
<1>1. D \subseteq Nat /\ D # {}
  <2>1. \A i \in T : n - i \in Nat
    OBVIOUS
  <2> QED BY <2>1
<1>2. PICK d \in D : \A e \in D : d <= e
  <2> HIDE DEF D
  <2> QED BY <1>1, FirstOf
<1>3. PICK i \in T : d = n - i
  OBVIOUS
<1>4. \A j \in T : n - i <= n - j
  BY <1>2, <1>3
<1> QED BY <1>3, <1>4

-----------------------------------------------------------------------------
(* What a part of a text is. *)
LEMMA PartOf ==
    ASSUME NEW S, NEW s \in Seq(S), NEW m \in 1 .. Len(s) + 1, NEW n \in m - 1 .. Len(s)
    PROVE  /\ SubSeq(s, m, n) \in Seq(S)
           /\ Len(SubSeq(s, m, n)) = n - m + 1
           /\ \A i \in 1 .. n - m + 1 : SubSeq(s, m, n)[i] = s[m + i - 1]
<1>1. Len(s) \in Nat /\ m \in Int /\ n \in Int /\ m - 1 <= n
  OBVIOUS
<1>2. \A i \in m .. n : i \in 1 .. Len(s)
  BY <1>1
<1>3. \A i \in m .. n : s[i] \in S
  BY <1>2
<1>4. /\ SubSeq(s, m, n) \in Seq(S)
      /\ Len(SubSeq(s, m, n)) = IF m <= n THEN n - m + 1 ELSE 0
      /\ \A i \in 1 .. n - m + 1 : SubSeq(s, m, n)[i] = s[m + i - 1]
  BY <1>1, <1>3, SubSeqProperties
<1>5. (IF m <= n THEN n - m + 1 ELSE 0) = n - m + 1
  BY <1>1
<1> QED BY <1>4, <1>5

(* Where a string occurs, its characters are. *)
LEMMA OccursExact ==
    ASSUME NEW S, NEW s \in Seq(S), NEW t \in Seq(S), NEW pos \in Nat \ {0},
           pos + Len(t) - 1 <= Len(s)
    PROVE  OccursAt(s, t, pos) <=> \A k \in 1 .. Len(t) : s[pos + k - 1] = t[k]
<1> DEFINE w == SubSeq(s, pos, pos + Len(t) - 1)
<1>1. Len(s) \in Nat /\ Len(t) \in Nat
  OBVIOUS
<1>2. pos \in 1 .. Len(s) + 1 /\ pos + Len(t) - 1 \in pos - 1 .. Len(s)
      /\ (pos + Len(t) - 1) - pos + 1 = Len(t)
  BY <1>1
<1>3. w \in Seq(S) /\ Len(w) = Len(t) /\ \A k \in 1 .. Len(t) : w[k] = s[pos + k - 1]
  BY <1>2, PartOf
<1>4. OccursAt(s, t, pos) <=> w = t
  BY DEF OccursAt
<1> HIDE DEF w
<1>5. w = t <=> \A k \in 1 .. Len(t) : w[k] = t[k]
  BY <1>3, SeqEqual
<1> QED BY <1>3, <1>4, <1>5

(* What find() returns. *)
LEMMA FindExact ==
    ASSUME NEW S, NEW s \in Seq(S), NEW t \in Seq(S), NEW pos \in Nat \ {0}
    PROVE  \/ /\ FindFrom(s, t, pos) = 0
              /\ \A i \in pos .. Len(s) - Len(t) + 1 : ~OccursAt(s, t, i)
           \/ /\ FindFrom(s, t, pos) \in pos .. Len(s) - Len(t) + 1
              /\ OccursAt(s, t, FindFrom(s, t, pos))
              /\ \A i \in pos .. Len(s) - Len(t) + 1 : OccursAt(s, t, i) => FindFrom(s, t, pos) <= i
<1> DEFINE found == {i \in pos .. Len(s) - Len(t) + 1 : OccursAt(s, t, i)}
<1>1. FindFrom(s, t, pos) = IF found = {} THEN 0 ELSE CHOOSE i \in found : \A j \in found : i <= j
  BY DEF FindFrom
<1>2. CASE found = {}
  BY <1>1, <1>2
<1>3. CASE found # {}
  <2>1. found \subseteq Nat
    <3>1. Len(s) \in Nat /\ Len(t) \in Nat
      OBVIOUS
    <3> QED BY <3>1
  <2>2. \E i \in found : \A j \in found : i <= j
    <3> HIDE DEF found
    <3> QED BY <1>3, <2>1, FirstOf, Zenon
  <2>3. FindFrom(s, t, pos) \in found /\ \A j \in found : FindFrom(s, t, pos) <= j
    <3> HIDE DEF found
    <3> QED BY <1>1, <1>3, <2>2
  <2> QED BY <2>3
<1> QED BY <1>2, <1>3

-----------------------------------------------------------------------------
(* trimPrefix() removes the prefix, once, and nothing when it is not there. *)
LEMMA PrefixTrimmed ==
    ASSUME NEW S, NEW s \in Seq(S), NEW t \in Seq(S)
    PROVE  s = IF StartsWith(s, t) THEN t \o TrimPrefix(s, t) ELSE TrimPrefix(s, t)
<1>1. CASE StartsWith(s, t)
  <2>1. Len(s) \in Nat /\ Len(t) \in Nat /\ Len(t) <= Len(s) /\ SubSeq(s, 1, Len(t)) = t
    <3>1. 1 + Len(t) - 1 = Len(t)
      OBVIOUS
    <3> QED BY <1>1, <3>1 DEF StartsWith, OccursAt
  <2>2. TrimPrefix(s, t) = SubSeq(s, Len(t) + 1, Len(s))
    BY <1>1 DEF TrimPrefix
  <2>3. 1 \in 1 .. Len(s) + 1 /\ Len(t) \in 1 - 1 .. Len(s) /\ Len(s) \in Len(t) .. Len(s)
    BY <2>1
  <2>4. SubSeq(s, 1, Len(t)) \o SubSeq(s, Len(t) + 1, Len(s)) = SubSeq(s, 1, Len(s))
    BY <2>3, ConcatAdjacentSubSeq, Zenon
  <2>5. SubSeq(s, 1, Len(s)) = s
    BY SubSeqFull
  <2> QED BY <1>1, <2>1, <2>2, <2>4, <2>5, Zenon
<1>2. CASE ~StartsWith(s, t)
  BY <1>2 DEF TrimPrefix
<1> QED BY <1>1, <1>2

(* trimSuffix() does the same at the end, also with an empty suffix. *)
LEMMA SuffixTrimmed ==
    ASSUME NEW S, NEW s \in Seq(S), NEW t \in Seq(S)
    PROVE  s = IF EndsWith(s, t) THEN TrimSuffix(s, t) \o t ELSE TrimSuffix(s, t)
<1> DEFINE k == Len(s) - Len(t)
<1>1. CASE EndsWith(s, t) /\ t # <<>>
  <2>1. Len(s) \in Nat /\ Len(t) \in Nat /\ Len(t) <= Len(s) /\ SubSeq(s, k + 1, Len(s)) = t
    <3>1. Len(s) \in Nat /\ Len(t) \in Nat
      OBVIOUS
    <3>2. (k + 1) + Len(t) - 1 = Len(s)
      BY <3>1
    <3> QED BY <1>1, <3>1, <3>2 DEF EndsWith, OccursAt
  <2>2. TrimSuffix(s, t) = SubSeq(s, 1, k)
    BY <1>1 DEF TrimSuffix
  <2>3. 1 \in 1 .. Len(s) + 1 /\ k \in 1 - 1 .. Len(s) /\ Len(s) \in k .. Len(s)
    BY <2>1
  <2>4. SubSeq(s, 1, k) \o SubSeq(s, k + 1, Len(s)) = SubSeq(s, 1, Len(s))
    BY <2>3, ConcatAdjacentSubSeq
  <2>5. SubSeq(s, 1, Len(s)) = s
    BY SubSeqFull
  <2> QED BY <1>1, <2>1, <2>2, <2>4, <2>5, Zenon
<1>2. CASE t = <<>>
  <2>1. TrimSuffix(s, t) = s
    BY <1>2 DEF TrimSuffix
  <2> QED BY <1>2, <2>1, ConcatEmptySeq
<1>3. CASE ~EndsWith(s, t)
  BY <1>3 DEF TrimSuffix
<1> QED BY <1>1, <1>2, <1>3

(* The spaces at both ends are removed, and nothing else. *)
LEMMA SpacesTrimmed ==
    ASSUME NEW S, NEW s \in Seq(S)
    PROVE  \E i \in 0 .. Len(s), j \in 1 .. Len(s) + 1 :
              LET r == TrimWhitespace(s)
              IN  /\ i < j
                  /\ s = SubSeq(s, 1, i) \o r \o SubSeq(s, j, Len(s))
                  /\ \A k \in (1 .. i) \cup (j .. Len(s)) : IsSpace(s[k])
                  /\ r # <<>> => ~IsSpace(r[1]) /\ ~IsSpace(r[Len(r)])
<1> DEFINE n == Len(s)
           inner == {i \in 1 .. n : ~IsSpace(s[i])}
<1>1. n \in Nat
  OBVIOUS
<1>2. CASE inner = {}
  <2>1. TrimWhitespace(s) = <<>>
    BY <1>2 DEF TrimWhitespace
  <2>2. SubSeq(s, 1, n) = s /\ SubSeq(s, n + 1, n) = <<>>
    BY <1>1, SubSeqFull, SubSeqEmpty
  <2>3. s = SubSeq(s, 1, n) \o <<>> \o SubSeq(s, n + 1, n)
    <3>1. s \o <<>> = s
      BY ConcatEmptySeq
    <3> QED BY <2>2, <3>1
  <2>4. \A k \in (1 .. n) \cup (n + 1 .. n) : IsSpace(s[k])
    BY <1>1, <1>2
  <2>5. n \in 0 .. n /\ n + 1 \in 1 .. n + 1 /\ n < n + 1
    BY <1>1
  <2> QED BY <2>1, <2>3, <2>4, <2>5
<1>3. CASE inner # {}
  <2> DEFINE a == CHOOSE i \in inner : \A j \in inner : i <= j
             b == CHOOSE i \in inner : \A j \in inner : i >= j
             r == SubSeq(s, a, b)
  <2>1. inner \subseteq Nat /\ inner \subseteq 0 .. n
    BY <1>1
  <2>2. a \in inner /\ \A j \in inner : a <= j
    <3> HIDE DEF inner
    <3>1. \E i \in inner : \A j \in inner : i <= j
      BY <1>3, <2>1, FirstOf
    <3> QED BY <3>1
  <2>3. b \in inner /\ \A j \in inner : b >= j
    <3> HIDE DEF inner
    <3>1. PICK i \in inner : \A j \in inner : j <= i
      BY <1>1, <1>3, <2>1, LastOf
    <3>2. \A j \in inner : i >= j
      BY <1>1, <2>1, <3>1
    <3> QED BY <3>2
  <2>4. TrimWhitespace(s) = r
    BY <1>3, Zenon DEF TrimWhitespace
  <2> HIDE DEF a, b
  <2>5. a \in 1 .. n /\ b \in 1 .. n /\ a <= b /\ ~IsSpace(s[a]) /\ ~IsSpace(s[b])
    BY <1>1, <2>1, <2>2, <2>3
  <2>6. /\ a - 1 \in 0 .. n /\ b + 1 \in 1 .. n + 1 /\ a - 1 < b + 1
        /\ a \in 1 .. n + 1 /\ b \in a - 1 .. n /\ 1 \in 1 .. n + 1
        /\ a - 1 \in 1 - 1 .. n /\ b \in a - 1 .. n /\ b \in 1 - 1 .. n /\ n \in b .. n
        /\ (a - 1) + 1 = a
    BY <1>1, <2>5
  <2>7. s = SubSeq(s, 1, a - 1) \o r \o SubSeq(s, b + 1, n)
    <3>1. SubSeq(s, 1, a - 1) \o SubSeq(s, (a - 1) + 1, b) = SubSeq(s, 1, b)
      BY <2>6, ConcatAdjacentSubSeq
    <3>2. SubSeq(s, 1, b) \o SubSeq(s, b + 1, n) = SubSeq(s, 1, n)
      BY <2>6, ConcatAdjacentSubSeq
    <3>3. SubSeq(s, 1, n) = s
      BY SubSeqFull
    <3> QED BY <2>6, <3>1, <3>2, <3>3, Zenon
  <2>8. ASSUME NEW k \in (1 .. a - 1) \cup (b + 1 .. n) PROVE IsSpace(s[k])
    <3>1. k \in 1 .. n /\ (k < a \/ k > b)
      BY <1>1, <2>5
    <3>2. k \notin inner
      BY <1>1, <2>2, <2>3, <2>5, <3>1
    <3> QED BY <3>1, <3>2
  <2>9. ~IsSpace(r[1]) /\ ~IsSpace(r[Len(r)])
    <3>1. Len(r) = b - a + 1 /\ \A i \in 1 .. b - a + 1 : r[i] = s[a + i - 1]
      BY <2>6, PartOf
    <3>2. 1 \in 1 .. b - a + 1 /\ b - a + 1 \in 1 .. b - a + 1 /\ a + 1 - 1 = a
          /\ a + (b - a + 1) - 1 = b
      BY <1>1, <2>5
    <3>3. r[1] = s[a] /\ r[Len(r)] = s[b]
      BY <3>1, <3>2
    <3> QED BY <2>5, <3>3
  <2> HIDE DEF inner, r
  <2> QED BY <2>4, <2>6, <2>7, <2>8, <2>9
<1> QED BY <1>2, <1>3

(* A text contains a string when a beginning of it ends with the string.   *)
LEMMA ContainsExact ==
    ASSUME NEW S, NEW s \in Seq(S), NEW t \in Seq(S)
    PROVE  ContainsString(s, t) <=> \E i \in 0 .. Len(s) : EndsWith(SubSeq(s, 1, i), t)
<1> DEFINE n == Len(s)
           k == Len(t)
<1>1. n \in Nat /\ k \in Nat
  OBVIOUS
<1>2. ContainsString(s, t) <=> \E p \in 1 .. n - k + 1 : OccursAt(s, t, p)
  <2>1. 1 \in Nat \ {0}
    OBVIOUS
  <2>2. FindFrom(s, t, 1) \in 1 .. n - k + 1 => FindFrom(s, t, 1) # 0
    BY <1>1
  <2> QED BY <2>1, <2>2, FindExact DEF ContainsString
<1>3. ASSUME NEW i \in 0 .. n, k <= i
      PROVE  OccursAt(SubSeq(s, 1, i), t, i - k + 1) <=> OccursAt(s, t, i - k + 1)
  <2> DEFINE u == SubSeq(s, 1, i)
             p == i - k + 1
  <2>1. 1 \in 1 .. n + 1 /\ i \in 1 - 1 .. n /\ i - 1 + 1 = i
    BY <1>1
  <2>2. u \in Seq(S) /\ Len(u) = i /\ \A m \in 1 .. i : u[m] = s[1 + m - 1]
    BY <2>1, PartOf
  <2>3. p \in Nat \ {0} /\ p + k - 1 = i /\ p + k - 1 <= n
    BY <1>1, <1>3
  <2> HIDE DEF u, p
  <2>4. OccursAt(s, t, p) <=> \A m \in 1 .. k : s[p + m - 1] = t[m]
    BY <2>3, OccursExact
  <2>5. OccursAt(u, t, p) <=> \A m \in 1 .. k : u[p + m - 1] = t[m]
    <3>1. p + Len(t) - 1 <= Len(u)
      BY <1>1, <2>2, <2>3
    <3>2. u \in Seq(S) /\ p \in Nat \ {0}
      BY <2>2, <2>3
    <3> HIDE DEF k, n
    <3>3. OccursAt(u, t, p) <=> \A m \in 1 .. Len(t) : u[p + m - 1] = t[m]
      BY <3>1, <3>2, OccursExact
    <3> QED BY <3>3 DEF k
  <2>6. ASSUME NEW m \in 1 .. k PROVE u[p + m - 1] = s[p + m - 1]
    <3>1. p + m - 1 \in 1 .. i /\ 1 + (p + m - 1) - 1 = p + m - 1
      BY <1>1, <2>3
    <3> QED BY <2>2, <3>1
  <2>7. OccursAt(u, t, p) <=> OccursAt(s, t, p)
    BY <2>4, <2>5, <2>6
  <2> QED BY <2>7 DEF u, p
<1>4. ASSUME NEW i \in 0 .. n
      PROVE  EndsWith(SubSeq(s, 1, i), t) <=> k <= i /\ OccursAt(SubSeq(s, 1, i), t, i - k + 1)
  <2>1. 1 \in 1 .. n + 1 /\ i \in 1 - 1 .. n /\ i - 1 + 1 = i
    BY <1>1
  <2>2. Len(SubSeq(s, 1, i)) = i
    BY <2>1, PartOf
  <2> QED BY <2>2 DEF EndsWith
<1>5. ASSUME NEW p \in 1 .. n - k + 1, OccursAt(s, t, p)
      PROVE  \E i \in 0 .. n : EndsWith(SubSeq(s, 1, i), t)
  <2>1. p + k - 1 \in 0 .. n /\ k <= p + k - 1 /\ (p + k - 1) - k + 1 = p
    BY <1>1
  <2> QED BY <1>3, <1>4, <1>5, <2>1
<1>6. ASSUME NEW i \in 0 .. n, EndsWith(SubSeq(s, 1, i), t)
      PROVE  \E p \in 1 .. n - k + 1 : OccursAt(s, t, p)
  <2>1. k <= i /\ OccursAt(s, t, i - k + 1)
    BY <1>3, <1>4, <1>6
  <2>2. i - k + 1 \in 1 .. n - k + 1
    BY <1>1, <2>1
  <2> QED BY <2>1, <2>2
<1> QED BY <1>2, <1>5, <1>6

(* toUpper() gives what it gives for the lower case text. *)
LEMMA CasesExact ==
    ASSUME NEW S, NEW s \in Seq(S)
    PROVE  ToUpper(ToLower(s)) = ToUpper(s)
<1>1. Len(s) \in Nat
  OBVIOUS
<1>2. Len(ToLower(s)) = Len(s) /\ \A i \in 1 .. Len(s) : ToLower(s)[i] = LowerOf(s[i])
  BY <1>1 DEF ToLower
<1>3. \A c : UpperOf(LowerOf(c)) = UpperOf(c)
  BY DEF UpperOf, LowerOf
<1> QED BY <1>2, <1>3 DEF ToUpper

(* The trims and the searches do what their names say. *)
LEMMA TrimsHold ==
    ASSUME text \in Seq(Alphabet), pattern \in Seq(Alphabet) PROVE TrimsExact
  BY PrefixTrimmed, SuffixTrimmed, SpacesTrimmed, ContainsExact, CasesExact DEF TrimsExact

-----------------------------------------------------------------------------
(* The powers of the unit grow. *)
LEMMA PowerExact ==
    /\ Power[0] = 1 /\ Power[1] = Unit
    /\ \A i \in 0 .. 5 : Power[i] \in Nat \ {0}
    /\ \A i \in 0 .. 4 : Power[i] < Power[i + 1]
<1> DEFINE Is(f) == f = [i \in 0 .. 5 |-> IF i = 0 THEN 1 ELSE Unit * f[i - 1]]
           p1 == Unit * 1
           p2 == Unit * p1
           p3 == Unit * p2
           p4 == Unit * p3
           p5 == Unit * p4
           g == [i \in 0 .. 5 |-> CASE i = 0 -> 1 [] i = 1 -> p1 [] i = 2 -> p2 [] i = 3 -> p3
                                    [] i = 4 -> p4 [] OTHER -> p5]
<1>1. \A i \in 0 .. 5 : i = 0 \/ i = 1 \/ i = 2 \/ i = 3 \/ i = 4 \/ i = 5
  OBVIOUS
<1>2. Unit \in Nat /\ Unit > 1
  BY StringAssumption
<1>3. ASSUME NEW x \in Nat \ {0} PROVE Unit * x \in Nat \ {0} /\ x < Unit * x
  BY <1>2
<1>4. p1 = Unit /\ {p1, p2, p3, p4, p5} \subseteq Nat \ {0}
      /\ 1 < p1 /\ p1 < p2 /\ p2 < p3 /\ p3 < p4 /\ p4 < p5
  <2>1. 1 \in Nat \ {0} /\ p1 = Unit
    BY <1>2
  <2>2. p1 \in Nat \ {0} /\ 1 < p1
    BY <1>3, <2>1
  <2> HIDE DEF p1
  <2>3. p2 \in Nat \ {0} /\ p1 < p2
    BY <1>3, <2>2
  <2> HIDE DEF p2
  <2>4. p3 \in Nat \ {0} /\ p2 < p3
    BY <1>3, <2>3
  <2> HIDE DEF p3
  <2>5. p4 \in Nat \ {0} /\ p3 < p4
    BY <1>3, <2>4
  <2> HIDE DEF p4
  <2>6. p5 \in Nat \ {0} /\ p4 < p5
    BY <1>3, <2>5
  <2> QED BY <2>1, <2>2, <2>3, <2>4, <2>5, <2>6
<1>5. Is(g)
  <2> HIDE DEF p1, p2, p3, p4, p5
  <2>1. g[0] = 1 /\ g[1] = p1 /\ g[2] = p2 /\ g[3] = p3 /\ g[4] = p4 /\ g[5] = p5
    OBVIOUS
  <2>2. p1 = Unit * 1 /\ p2 = Unit * p1 /\ p3 = Unit * p2 /\ p4 = Unit * p3 /\ p5 = Unit * p4
    BY DEF p1, p2, p3, p4, p5
  <2>3. \A i \in 0 .. 5 : g[i] = IF i = 0 THEN 1 ELSE Unit * g[i - 1]
    <3> HIDE DEF g
    <3> QED BY <1>1, <2>1, <2>2
  <2>4. g = [i \in 0 .. 5 |-> g[i]]
    OBVIOUS
  <2> HIDE DEF g
  <2> QED BY <2>3, <2>4
<1>6. Is(Power)
  <2>1. Power = CHOOSE f : Is(f)
    BY DEF Power
  <2> HIDE DEF Is, g
  <2> QED BY <1>5, <2>1
<1>7. \A i \in 0 .. 5 : Power[i] = IF i = 0 THEN 1 ELSE Unit * Power[i - 1]
  <2> DEFINE P == Power
  <2>1. P = [i \in 0 .. 5 |-> IF i = 0 THEN 1 ELSE Unit * P[i - 1]]
    BY <1>6
  <2> HIDE DEF P
  <2>2. \A i \in 0 .. 5 : P[i] = IF i = 0 THEN 1 ELSE Unit * P[i - 1]
    BY <2>1
  <2> QED BY <2>2 DEF P
<1>8. Power[0] = 1 /\ Power[1] = p1 /\ Power[2] = p2 /\ Power[3] = p3 /\ Power[4] = p4 /\ Power[5] = p5
  <2>1. Power[0] = 1 /\ Power[1] = Unit * Power[0] /\ Power[2] = Unit * Power[1]
        /\ Power[3] = Unit * Power[2] /\ Power[4] = Unit * Power[3] /\ Power[5] = Unit * Power[4]
    BY <1>7
  <2> QED BY <2>1
<1> HIDE DEF p1, p2, p3, p4, p5
<1>9. \A i \in 0 .. 5 : Power[i] \in Nat \ {0}
  BY <1>1, <1>4, <1>8
<1>10. \A i \in 0 .. 4 : Power[i] < Power[i + 1]
  BY <1>4, <1>8
<1> QED BY <1>4, <1>8, <1>9, <1>10

(* The loop stops at the last power that a size exceeds. *)
LEMMA SuffixOfSize ==
    ASSUME NEW size \in Nat
    PROVE  SuffixIndex(size) =
              LET exceeded == {i \in 1 .. 4 : size > Power[i]}
              IN  IF exceeded = {} THEN 0 ELSE CHOOSE i \in exceeded : \A j \in exceeded : j <= i
<1> DEFINE Is(f) == f = [i \in 0 .. 4 |-> IF i < 4 /\ size > Power[i + 1] THEN f[i + 1] ELSE i]
           q4 == 4
           q3 == IF size > Power[4] THEN q4 ELSE 3
           q2 == IF size > Power[3] THEN q3 ELSE 2
           q1 == IF size > Power[2] THEN q2 ELSE 1
           q0 == IF size > Power[1] THEN q1 ELSE 0
           g == [i \in 0 .. 4 |-> CASE i = 0 -> q0 [] i = 1 -> q1 [] i = 2 -> q2 [] i = 3 -> q3
                                    [] OTHER -> q4]
           F == CHOOSE f : Is(f)
           exceeded == {i \in 1 .. 4 : size > Power[i]}
<1>1. Is(g)
  <2> HIDE DEF q0, q1, q2, q3, q4
  <2>1. g[0] = q0 /\ g[1] = q1 /\ g[2] = q2 /\ g[3] = q3 /\ g[4] = q4
    OBVIOUS
  <2>2. \A i \in 0 .. 4 : i = 0 \/ i = 1 \/ i = 2 \/ i = 3 \/ i = 4
    OBVIOUS
  <2>3. \A i \in 0 .. 4 : g[i] = IF i < 4 /\ size > Power[i + 1] THEN g[i + 1] ELSE i
    <3> HIDE DEF g
    <3> QED BY <2>1, <2>2 DEF q0, q1, q2, q3, q4
  <2>4. g = [i \in 0 .. 4 |-> g[i]]
    OBVIOUS
  <2> HIDE DEF g
  <2> QED BY <2>3, <2>4
<1>2. Is(F)
  <2> HIDE DEF Is, g
  <2> QED BY <1>1
<1>3. SuffixIndex(size) = F[0]
  BY DEF SuffixIndex
<1> HIDE DEF F
<1>4. \A i \in 0 .. 4 : F[i] = IF i < 4 /\ size > Power[i + 1] THEN F[i + 1] ELSE i
  BY <1>2
<1>5. F[4] = 4 /\ F[3] = (IF size > Power[4] THEN F[4] ELSE 3)
      /\ F[2] = (IF size > Power[3] THEN F[3] ELSE 2)
      /\ F[1] = (IF size > Power[2] THEN F[2] ELSE 1)
      /\ F[0] = (IF size > Power[1] THEN F[1] ELSE 0)
  BY <1>4
<1> DEFINE a == Power[1]
           b == Power[2]
           c == Power[3]
           d == Power[4]
<1>6. {a, b, c, d} \subseteq Nat /\ a < b /\ b < c /\ c < d
  BY PowerExact
<1>7. \A i \in 1 .. 4 : i \in exceeded <=>
          \/ i = 1 /\ size > a
          \/ i = 2 /\ size > b
          \/ i = 3 /\ size > c
          \/ i = 4 /\ size > d
  OBVIOUS
<1>8. exceeded \subseteq 1 .. 4
  OBVIOUS
<1>9. F[0] = IF size > d THEN 4 ELSE IF size > c THEN 3 ELSE IF size > b THEN 2
             ELSE IF size > a THEN 1 ELSE 0
  BY <1>5, <1>6
<1> HIDE DEF a, b, c, d, exceeded
<1>10. CASE exceeded = {}
  <2>1. ~(size > a) /\ ~(size > b) /\ ~(size > c) /\ ~(size > d)
    BY <1>7, <1>10
  <2> QED BY <1>3, <1>9, <1>10, <2>1 DEF exceeded
<1>11. CASE exceeded # {}
  <2>1. F[0] \in exceeded /\ \A j \in exceeded : j <= F[0]
    <3>1. \A j \in exceeded : j \in 1 .. 4
      BY <1>8
    <3>2. CASE size > d
      BY <1>7, <1>9, <3>1, <3>2
    <3>3. CASE ~(size > d) /\ size > c
      BY <1>6, <1>7, <1>9, <3>1, <3>3
    <3>4. CASE ~(size > d) /\ ~(size > c) /\ size > b
      BY <1>6, <1>7, <1>9, <3>1, <3>4
    <3>5. CASE ~(size > d) /\ ~(size > c) /\ ~(size > b) /\ size > a
      BY <1>6, <1>7, <1>9, <3>1, <3>5
    <3>6. size > a
      <4>1. PICK j \in exceeded : TRUE
        BY <1>11
      <4>2. \/ j = 1 /\ size > a
            \/ j = 2 /\ size > b
            \/ j = 3 /\ size > c
            \/ j = 4 /\ size > d
        <5>1. j \in 1 .. 4
          BY <3>1
        <5> QED BY <1>7, <4>1, <5>1
      <4>3. {a, b, c, d} \subseteq Nat /\ size \in Nat
        BY <1>6
      <4> QED BY <1>6, <4>2, <4>3
    <3> QED BY <3>2, <3>3, <3>4, <3>5, <3>6
  <2>2. \A i \in exceeded : (\A j \in exceeded : j <= i) => i = F[0]
    <3> DEFINE m == F[0]
    <3>1. m \in exceeded /\ \A j \in exceeded : j <= m
      BY <2>1
    <3> HIDE DEF m
    <3>2. \A i \in exceeded : i \in Int
      BY <1>8
    <3>3. \A i \in exceeded : (\A j \in exceeded : j <= i) => i = m
      BY <3>1, <3>2
    <3> QED BY <3>3 DEF m
  <2>3. F[0] = CHOOSE i \in exceeded : \A j \in exceeded : j <= i
    BY <2>1, <2>2
  <2> QED BY <1>3, <1>11, <2>3 DEF exceeded
<1> QED BY <1>10, <1>11

(* humanFileSize() chooses the suffix of the units that a size exceeds. *)
LEMMA SuffixHolds == ASSUME pattern \in Seq(Alphabet) PROVE SuffixExact
<1> SUFFICES ASSUME NEW k \in 0 .. 5
             PROVE  LET fileSize == Power[k] - 1 + Len(pattern)
                        exceeded == {i \in 1 .. 4 : fileSize > Power[i]}
                    IN  SuffixIndex(fileSize) =
                          IF exceeded = {} THEN 0
                          ELSE CHOOSE i \in exceeded : \A j \in exceeded : j <= i
  BY DEF SuffixExact
<1>1. Power[k] - 1 + Len(pattern) \in Nat
  <2> DEFINE p == Power[k]
  <2>1. p \in Nat \ {0} /\ Len(pattern) \in Nat
    BY PowerExact
  <2> HIDE DEF p
  <2>2. p - 1 + Len(pattern) \in Nat
    BY <2>1
  <2> QED BY <2>2 DEF p
<1> QED BY <1>1, SuffixOfSize

-----------------------------------------------------------------------------
(* Splitting and joining *)

(* f[p] is the list of the parts from p on, where next[p] is the place of  *)
(* the part that follows the one at p, or 0.                               *)
IsList(f, part, next, n, N) ==
    f = [p \in n .. N |-> IF next[p] = 0 THEN <<part[p]>> ELSE <<part[p]>> \o f[next[p]]]

(* There is such a function: the lists are made from the last one on.      *)
LEMMA ListsExist ==
    ASSUME NEW N \in Nat, NEW part, NEW next,
           \A p \in 1 .. N : next[p] = 0 \/ next[p] \in p + 1 .. N
    PROVE  \E f : IsList(f, part, next, 1, N)
<1> USE DEF IsList
<1> DEFINE Is(f, n) == IsList(f, part, next, n, N)
           Bad == {n \in 1 .. N + 1 : ~\E f : Is(f, n)}
<1>1. CASE Bad = {}
  <2>1. 1 \in 1 .. N + 1
    OBVIOUS
  <2>2. \E f : Is(f, 1)
    BY <1>1, <2>1
  <2> QED BY <2>2
<1>2. CASE Bad # {}
  <2>1. Bad \subseteq 0 .. N + 1 /\ N + 1 \in Nat
    OBVIOUS
  <2>2. PICK n \in Bad : \A m \in Bad : m <= n
    <3> HIDE DEF Bad
    <3> QED BY <1>2, <2>1, LastOf
  <2>3. n \in 1 .. N + 1 /\ ~\E f : Is(f, n)
    OBVIOUS
  <2>4. CASE n = N + 1
    <3> DEFINE g == [p \in n .. N |-> 0]
    <3>1. n .. N = {}
      BY <2>4
    <3>2. Is(g, n)
      BY <3>1
    <3> QED BY <2>3, <3>2
  <2>5. CASE n # N + 1
    <3>1. n \in 1 .. N /\ n + 1 \in 1 .. N + 1 /\ ~(n + 1 <= n)
      BY <2>3, <2>5
    <3>2. n + 1 \notin Bad
      BY <2>2, <3>1
    <3>3. PICK f : Is(f, n + 1)
      BY <3>1, <3>2
    <3> DEFINE g == [p \in n .. N |-> IF p = n
                                      THEN (IF next[n] = 0 THEN <<part[n]>>
                                            ELSE <<part[n]>> \o f[next[n]])
                                      ELSE f[p]]
    <3>4. ASSUME NEW p \in n .. N
          PROVE  g[p] = IF next[p] = 0 THEN <<part[p]>> ELSE <<part[p]>> \o g[next[p]]
      <4>1. p \in 1 .. N /\ (next[p] = 0 \/ next[p] \in p + 1 .. N)
        BY <3>1
      <4>2. next[p] # 0 => next[p] \in n .. N /\ next[p] # n
        BY <3>1, <4>1
      <4>3. next[p] # 0 => g[next[p]] = f[next[p]]
        BY <4>2
      <4>4. CASE p = n
        <5>1. g[p] = IF next[n] = 0 THEN <<part[n]>> ELSE <<part[n]>> \o f[next[n]]
          BY <4>4
        <5> HIDE DEF g
        <5> QED BY <4>3, <4>4, <5>1
      <4>5. CASE p # n
        <5>1. p \in n + 1 .. N
          BY <3>1, <4>5
        <5>2. f[p] = IF next[p] = 0 THEN <<part[p]>> ELSE <<part[p]>> \o f[next[p]]
          BY <3>3, <5>1
        <5>3. g[p] = f[p]
          BY <4>5
        <5> HIDE DEF g
        <5> QED BY <4>3, <5>2, <5>3
      <4> QED BY <4>4, <4>5
    <3>5. g = [p \in n .. N |-> g[p]]
      OBVIOUS
    <3> HIDE DEF g
    <3>6. Is(g, n)
      BY <3>4, <3>5
    <3> QED BY <2>3, <3>6
  <2> QED BY <2>4, <2>5
<1> QED BY <1>1, <1>2

(* f[i] is the first i parts of q, joined with d. *)
IsJoin(f, q, d, n) == f = [i \in 1 .. n |-> IF i = 1 THEN q[1] ELSE f[i - 1] \o d \o q[i]]

(* The same for what Joined() evaluates. *)
JoinsTo(f, q, d, S) ==
    /\ Joined(q, d) = f[Len(q)]
    /\ \A i \in 1 .. Len(q) :
          /\ f[i] \in Seq(S)
          /\ f[i] = IF i = 1 THEN q[1] ELSE f[i - 1] \o d \o q[i]

(* There is such a function: the parts are joined one after the other. *)
LEMMA JoinExists ==
    ASSUME NEW q, NEW d, NEW N \in Nat
    PROVE  \E f : IsJoin(f, q, d, N)
<1> USE DEF IsJoin
<1> DEFINE Is(f, n) == IsJoin(f, q, d, n)
           Bad == {n \in Nat : ~\E f : Is(f, n)}
<1>1. CASE Bad = {}
  BY <1>1
<1>2. CASE Bad # {}
  <2>1. Bad \subseteq Nat
    OBVIOUS
  <2>2. PICK n \in Bad : \A m \in Bad : n <= m
    <3> HIDE DEF Bad
    <3> QED BY <1>2, <2>1, FirstOf
  <2>3. n \in Nat /\ ~\E f : Is(f, n)
    OBVIOUS
  <2>4. CASE n = 0
    <3> DEFINE g == [i \in 1 .. n |-> 0]
    <3>1. 1 .. n = {}
      BY <2>4
    <3>2. Is(g, n)
      BY <3>1
    <3> QED BY <2>3, <3>2
  <2>5. CASE n # 0
    <3>1. n - 1 \in Nat /\ ~(n <= n - 1)
      BY <2>3, <2>5
    <3>2. n - 1 \notin Bad
      BY <2>2, <3>1
    <3>3. PICK f : Is(f, n - 1)
      BY <3>1, <3>2
    <3> DEFINE g == [i \in 1 .. n |-> IF i = n
                                      THEN (IF n = 1 THEN q[1] ELSE f[n - 1] \o d \o q[n])
                                      ELSE f[i]]
    <3>4. ASSUME NEW i \in 1 .. n
          PROVE  g[i] = IF i = 1 THEN q[1] ELSE g[i - 1] \o d \o q[i]
      <4>1. i # 1 => i - 1 \in 1 .. n /\ i - 1 # n
        BY <2>3
      <4>2. i # 1 => g[i - 1] = f[i - 1]
        BY <4>1
      <4>3. CASE i = n
        <5>1. g[i] = IF n = 1 THEN q[1] ELSE f[n - 1] \o d \o q[n]
          BY <4>3
        <5> HIDE DEF g
        <5> QED BY <4>2, <4>3, <5>1
      <4>4. CASE i # n
        <5>1. i \in 1 .. n - 1
          BY <2>3, <4>4
        <5>2. f[i] = IF i = 1 THEN q[1] ELSE f[i - 1] \o d \o q[i]
          BY <3>3, <5>1
        <5>3. g[i] = f[i]
          BY <4>4
        <5> HIDE DEF g
        <5> QED BY <4>2, <5>2, <5>3
      <4> QED BY <4>3, <4>4
    <3>5. g = [i \in 1 .. n |-> g[i]]
      OBVIOUS
    <3> HIDE DEF g
    <3>6. Is(g, n)
      BY <3>4, <3>5
    <3> QED BY <2>3, <3>6
  <2> QED BY <2>4, <2>5
<1> QED BY <1>1, <1>2

(* What Joined() computes, part by part. *)
LEMMA JoinedBy ==
    ASSUME NEW S, NEW d \in Seq(S), NEW q \in Seq(Seq(S)), q # <<>>
    PROVE  \E f : JoinsTo(f, q, d, S)
<1> DEFINE F == CHOOSE f : IsJoin(f, q, d, Len(q))
<1>1. Len(q) \in Nat
  OBVIOUS
<1>2. \E f : IsJoin(f, q, d, Len(q))
  BY <1>1, JoinExists
<1>3. IsJoin(F, q, d, Len(q))
  BY <1>2
<1>4. Joined(q, d) = F[Len(q)]
  BY DEF Joined, IsJoin
<1> HIDE DEF F
<1>5. \A i \in 1 .. Len(q) : F[i] = IF i = 1 THEN q[1] ELSE F[i - 1] \o d \o q[i]
  BY <1>3 DEF IsJoin
<1> DEFINE Bad == {i \in 1 .. Len(q) : F[i] \notin Seq(S)}
<1>6. CASE Bad # {}
  <2>1. Bad \subseteq Nat
    OBVIOUS
  <2>2. PICK i \in Bad : \A m \in Bad : i <= m
    <3> HIDE DEF Bad
    <3> QED BY <1>6, <2>1, FirstOf
  <2>3. i \in 1 .. Len(q) /\ F[i] \notin Seq(S)
    OBVIOUS
  <2>4. q[1] \in Seq(S) /\ q[i] \in Seq(S)
    <3>1. 1 \in 1 .. Len(q) /\ i \in 1 .. Len(q)
      BY <1>1, <2>3
    <3> QED BY <3>1
  <2>5. i # 1
    BY <1>5, <2>3, <2>4
  <2>6. i - 1 \in 1 .. Len(q) /\ ~(i <= i - 1)
    BY <1>1, <2>3, <2>5
  <2>7. F[i - 1] \in Seq(S)
    BY <2>2, <2>6
  <2>8. F[i - 1] \o d \in Seq(S)
    BY <2>7, ConcatProperties
  <2>9. F[i - 1] \o d \o q[i] \in Seq(S)
    BY <2>4, <2>8, ConcatProperties
  <2> QED BY <1>5, <2>3, <2>5, <2>9
<1>7. CASE Bad = {}
  BY <1>4, <1>5, <1>7 DEF JoinsTo
<1> QED BY <1>6, <1>7

(* One part alone is the join. *)
LEMMA JoinedOne ==
    ASSUME NEW S, NEW d \in Seq(S), NEW x \in Seq(S)
    PROVE  Joined(<<x>>, d) = x
<1> DEFINE w == <<x>>
<1>1. w \in Seq(Seq(S)) /\ w # <<>> /\ Len(w) = 1 /\ w[1] = x /\ 1 \in 1 .. 1
  OBVIOUS
<1> HIDE DEF w
<1>2. PICK f : JoinsTo(f, w, d, S)
  BY <1>1, JoinedBy
<1>3. Joined(w, d) = x
  BY <1>1, <1>2 DEF JoinsTo
<1> QED BY <1>3 DEF w

(* The delimiter d and a part z join y also behind a. *)
Regrouped(a, y, d, z, S) == ((a \o y) \o d) \o z = a \o ((y \o d) \o z)

(* Joining is associative. *)
LEMMA Regroup ==
    ASSUME NEW S, NEW a \in Seq(S), NEW y \in Seq(S), NEW d \in Seq(S), NEW z \in Seq(S)
    PROVE  Regrouped(a, y, d, z, S)
<1>1. y \o d \in Seq(S)
  BY ConcatProperties
<1>2. (a \o y) \o d = a \o (y \o d)
  BY ConcatAssociative
<1>3. (a \o (y \o d)) \o z = a \o ((y \o d) \o z)
  BY <1>1, ConcatAssociative, SMTT(20)
<1> QED BY <1>2, <1>3 DEF Regrouped

(* J joins the n parts of q, and K the same parts behind one in front. *)
JoinsBehind(J, K, q, d, n, S) ==
    /\ d \in Seq(S) /\ n \in Nat \ {0} /\ K[1] \in Seq(S)
    /\ \A i \in 1 .. n : /\ q[i] \in Seq(S)
                         /\ J[i] \in Seq(S)
                         /\ J[i] = IF i = 1 THEN q[1] ELSE J[i - 1] \o d \o q[i]
                         /\ K[i + 1] = K[i] \o d \o q[i]

(* The one in front, the delimiter, and the join of the others. *)
Behind(J, K, d, n) == K[n + 1] = K[1] \o d \o J[n]

(* What a part in front does to the joins of the parts behind it. *)
LEMMA JoinedShift ==
    ASSUME NEW S, NEW d, NEW n, NEW q, NEW J, NEW K, JoinsBehind(J, K, q, d, n, S)
    PROVE  Behind(J, K, d, n)
<1>a. d \in Seq(S) /\ n \in Nat \ {0} /\ K[1] \in Seq(S)
  BY DEF JoinsBehind
<1>0. \A i \in 1 .. n : /\ q[i] \in Seq(S)
                        /\ J[i] \in Seq(S)
                        /\ J[i] = IF i = 1 THEN q[1] ELSE J[i - 1] \o d \o q[i]
                        /\ K[i + 1] = K[i] \o d \o q[i]
  BY DEF JoinsBehind
<1>1. K[1] \o d \in Seq(S)
  BY <1>a, ConcatProperties
<1>2. PICK a \in Seq(S) : a = K[1] \o d
  BY <1>1
<1> DEFINE Bad == {i \in 1 .. n : K[i + 1] # a \o J[i]}
<1>4. CASE Bad # {}
  <2>1. Bad \subseteq Nat
    <3>1. Bad \subseteq 1 .. n
      BY Zenon
    <3> HIDE DEF Bad
    <3> QED BY <1>a, <3>1
  <2>2. PICK i \in Bad : \A m \in Bad : i <= m
    <3> HIDE DEF Bad
    <3> QED BY <1>4, <2>1, FirstOf
  <2>3. i \in 1 .. n /\ K[i + 1] # a \o J[i]
    OBVIOUS
  <2>4. K[i + 1] = K[i] \o d \o q[i]
    BY <1>0, <2>3
  <2>5. CASE i = 1
    <3>1. J[1] = q[1]
      BY <1>0, <2>3, <2>5
    <3> QED BY <1>2, <2>3, <2>4, <2>5, <3>1
  <2>6. CASE i # 1
    <3>1. i - 1 \in 1 .. n /\ ~(i <= i - 1) /\ (i - 1) + 1 = i
      BY <1>a, <2>3, <2>6
    <3>2. K[i] = a \o J[i - 1]
      BY <2>2, <3>1
    <3>3. J[i] = J[i - 1] \o d \o q[i] /\ J[i - 1] \in Seq(S) /\ q[i] \in Seq(S)
      BY <1>0, <2>3, <2>6, <3>1
    <3>4. K[i + 1] = ((a \o J[i - 1]) \o d) \o q[i]
      BY <2>4, <3>2
    <3>5. ((a \o J[i - 1]) \o d) \o q[i] = a \o ((J[i - 1] \o d) \o q[i])
      <4>1. Regrouped(a, J[i - 1], d, q[i], S)
        BY <1>a, <3>3, Regroup
      <4> QED BY <4>1 DEF Regrouped
    <3> QED BY <2>3, <3>3, <3>4, <3>5
  <2> QED BY <2>5, <2>6
<1>5. CASE Bad = {}
  <2>1. n \in 1 .. n
    BY <1>a
  <2> QED BY <1>2, <1>5, <2>1 DEF Behind
<1> QED BY <1>4, <1>5

(* A part in front of others is followed by the delimiter and their join. *)
LEMMA JoinedMore ==
    ASSUME NEW S, NEW d \in Seq(S), NEW x \in Seq(S), NEW q \in Seq(Seq(S)), q # <<>>
    PROVE  Joined(<<x>> \o q, d) = x \o d \o Joined(q, d)
<1> DEFINE w == <<x>> \o q
           n == Len(q)
<1>1. n \in Nat /\ n > 0
  BY EmptySeq
<1>2. w \in Seq(Seq(S)) /\ Len(w) = n + 1 /\ w[1] = x /\ \A i \in 1 .. n : w[i + 1] = q[i]
  <2>1. <<x>> \in Seq(Seq(S)) /\ Len(<<x>>) = 1 /\ <<x>>[1] = x
    OBVIOUS
  <2>2. w \in Seq(Seq(S)) /\ Len(w) = 1 + n
        /\ \A i \in 1 .. 1 + n : w[i] = IF i <= 1 THEN <<x>>[i] ELSE q[i - 1]
    BY <2>1, ConcatProperties
  <2> HIDE DEF w
  <2>3. ASSUME NEW i \in 1 .. n PROVE w[i + 1] = q[i]
    <3>1. i + 1 \in 1 .. 1 + n /\ ~(i + 1 <= 1) /\ (i + 1) - 1 = i
      BY <1>1
    <3> QED BY <2>2, <3>1
  <2>4. 1 \in 1 .. 1 + n /\ 1 + n = n + 1
    BY <1>1
  <2> QED BY <2>1, <2>2, <2>3, <2>4
<1> HIDE DEF w
<1>3. w # <<>>
  <2>1. Len(<<>>) = 0 /\ n + 1 # 0
    BY <1>1
  <2> QED BY <1>2, <2>1
<1>4. PICK J : /\ Joined(q, d) = J[n]
               /\ \A i \in 1 .. n : /\ J[i] \in Seq(S)
                                    /\ J[i] = IF i = 1 THEN q[1] ELSE J[i - 1] \o d \o q[i]
  <2>1. PICK f : JoinsTo(f, q, d, S)
    BY JoinedBy
  <2> QED BY <2>1 DEF JoinsTo
<1>5. PICK K : /\ Joined(w, d) = K[n + 1]
               /\ \A i \in 1 .. n + 1 : /\ K[i] \in Seq(S)
                                        /\ K[i] = IF i = 1 THEN w[1] ELSE K[i - 1] \o d \o w[i]
  <2>1. PICK f : JoinsTo(f, w, d, S)
    BY <1>2, <1>3, JoinedBy
  <2> QED BY <1>2, <2>1 DEF JoinsTo
<1> DEFINE Bad == {i \in 1 .. n : K[i + 1] # x \o d \o J[i]}
<1>6. ASSUME NEW i \in 1 .. n
      PROVE  /\ q[i] \in Seq(S)
             /\ K[i + 1] = K[i] \o d \o q[i]
  <2>1. q[i] \in Seq(S)
    OBVIOUS
  <2>2. i + 1 \in 1 .. n + 1 /\ i + 1 # 1 /\ (i + 1) - 1 = i
    BY <1>1
  <2>3. K[i + 1] = K[i] \o d \o q[i]
    BY <1>2, <1>5, <2>2
  <2> QED BY <2>1, <2>3
<1>7. K[1] = x
  <2>1. 1 \in 1 .. n + 1
    BY <1>1
  <2> QED BY <1>2, <1>5, <2>1
<1>8. K[n + 1] = x \o d \o J[n]
  <2> HIDE DEF n
  <2>1. JoinsBehind(J, K, q, d, n, S)
    <3>1. d \in Seq(S) /\ n \in Nat \ {0} /\ K[1] \in Seq(S)
      BY <1>1, <1>7
    <3>2. \A i \in 1 .. n : q[i] \in Seq(S) /\ K[i + 1] = K[i] \o d \o q[i]
      BY <1>6
    <3>3. \A i \in 1 .. n : /\ J[i] \in Seq(S)
                            /\ J[i] = IF i = 1 THEN q[1] ELSE J[i - 1] \o d \o q[i]
      BY <1>4
    <3> QED BY <3>1, <3>2, <3>3 DEF JoinsBehind
  <2>2. Behind(J, K, d, n)
    BY <2>1, JoinedShift
  <2> QED BY <1>7, <2>2 DEF Behind
<1> QED BY <1>4, <1>5, <1>8 DEF w

(* f[p] is the parts of s from p on, as SplitString() evaluates them. *)
SplitsTo(f, s, d) ==
    /\ SplitString(s, d) = f[1]
    /\ \A p \in 1 .. Len(s) + 1 :
          f[p] = IF FindFrom(s, d, p) = 0 THEN <<SubSeq(s, p, Len(s))>>
                 ELSE <<SubSeq(s, p, FindFrom(s, d, p) - 1)>> \o f[FindFrom(s, d, p) + Len(d)]

(* The search goes on behind what it found, and ends. *)
LEMMA SplitBy ==
    ASSUME NEW S, NEW s \in Seq(S), NEW d \in Seq(S), d # <<>>
    PROVE  \E f : SplitsTo(f, s, d)
<1> DEFINE N == Len(s) + 1
           found(p) == FindFrom(s, d, p)
           part == [p \in 1 .. N |-> IF found(p) = 0 THEN SubSeq(s, p, Len(s))
                                     ELSE SubSeq(s, p, found(p) - 1)]
           next == [p \in 1 .. N |-> IF found(p) = 0 THEN 0 ELSE found(p) + Len(d)]
           Is(f) == f = [pos \in 1 .. Len(s) + 1 |->
                            LET newPos == FindFrom(s, d, pos)
                            IN  IF newPos = 0 THEN <<SubSeq(s, pos, Len(s))>>
                                ELSE <<SubSeq(s, pos, newPos - 1)>> \o f[newPos + Len(d)]]
           F == CHOOSE f : Is(f)
<1>1. N \in Nat /\ Len(s) \in Nat /\ Len(d) \in Nat /\ Len(d) > 0
  BY EmptySeq
<1>2. ASSUME NEW p \in 1 .. N
      PROVE  next[p] = 0 \/ next[p] \in p + 1 .. N
  <2>1. p \in Nat \ {0}
    BY <1>1
  <2>2. found(p) = 0 \/ found(p) \in p .. Len(s) - Len(d) + 1
    BY <2>1, FindExact
  <2>3. next[p] = IF found(p) = 0 THEN 0 ELSE found(p) + Len(d)
    OBVIOUS
  <2> HIDE DEF found, next
  <2> QED BY <1>1, <2>1, <2>2, <2>3
<1>3. PICK g : IsList(g, part, next, 1, N)
  <2> HIDE DEF part, next, N
  <2> QED BY <1>1, <1>2, ListsExist
<1>4. Is(g)
  <2>1. \A p \in 1 .. N : g[p] = IF next[p] = 0 THEN <<part[p]>> ELSE <<part[p]>> \o g[next[p]]
    <3> HIDE DEF part, next, N
    <3> QED BY <1>3 DEF IsList
  <2>2. g = [p \in 1 .. N |-> g[p]]
    <3> HIDE DEF part, next, N
    <3> QED BY <1>3 DEF IsList
  <2>3. ASSUME NEW p \in 1 .. N
        PROVE  g[p] = IF found(p) = 0 THEN <<SubSeq(s, p, Len(s))>>
                      ELSE <<SubSeq(s, p, found(p) - 1)>> \o g[found(p) + Len(d)]
    <3>1. found(p) = 0 \/ found(p) \in Nat \ {0}
      <4>1. p \in Nat \ {0}
        BY <1>1
      <4> QED BY <1>1, <4>1, FindExact
    <3>2. part[p] = IF found(p) = 0 THEN SubSeq(s, p, Len(s)) ELSE SubSeq(s, p, found(p) - 1)
      OBVIOUS
    <3>3. next[p] = IF found(p) = 0 THEN 0 ELSE found(p) + Len(d)
      OBVIOUS
    <3>4. found(p) # 0 => next[p] # 0
      <4> HIDE DEF found, next
      <4> QED BY <1>1, <3>1, <3>3
    <3> HIDE DEF found, next, part
    <3> QED BY <2>1, <3>2, <3>3, <3>4
  <2> QED BY <2>2, <2>3
<1>5. Is(F)
  <2> HIDE DEF Is
  <2> QED BY <1>4
<1>6. SplitString(s, d) = F[1]
  BY DEF SplitString
<1> HIDE DEF F
<1>7. \A p \in 1 .. Len(s) + 1 :
          F[p] = IF FindFrom(s, d, p) = 0 THEN <<SubSeq(s, p, Len(s))>>
                 ELSE <<SubSeq(s, p, FindFrom(s, d, p) - 1)>> \o F[FindFrom(s, d, p) + Len(d)]
  BY <1>5
<1> QED BY <1>6, <1>7 DEF SplitsTo

(* x is free of the delimiter and has characters of s only. *)
PartExact(x, s, d) ==
    /\ ~ContainsString(x, d)
    /\ \A k \in 1 .. Len(x) : \E m \in 1 .. Len(s) : x[k] = s[m]

(* So is a part of s over which d does not occur in s. *)
LEMMA PartWithout ==
    ASSUME NEW S, NEW s \in Seq(S), NEW d \in Seq(S), d # <<>>,
           NEW p \in 1 .. Len(s) + 1, NEW n \in p - 1 .. Len(s),
           \A i \in p .. n - Len(d) + 1 : ~OccursAt(s, d, i)
    PROVE  PartExact(SubSeq(s, p, n), s, d)
<1> DEFINE x == SubSeq(s, p, n)
<1>1. Len(s) \in Nat /\ Len(d) \in Nat /\ Len(d) > 0
  BY EmptySeq
<1>2. p \in Nat \ {0} /\ n \in Nat /\ p - 1 <= n /\ n <= Len(s)
  BY <1>1
<1>3. x \in Seq(S) /\ Len(x) = n - p + 1 /\ \A i \in 1 .. n - p + 1 : x[i] = s[p + i - 1]
  BY PartOf
<1> HIDE DEF x
<1>4. ASSUME ContainsString(x, d) PROVE FALSE
  <2> DEFINE i == FindFrom(x, d, 1)
  <2>1. i \in 1 .. Len(x) - Len(d) + 1 /\ OccursAt(x, d, i)
    <3>1. i # 0 /\ 1 \in Nat \ {0}
      BY <1>4 DEF ContainsString
    <3> QED BY <1>3, <3>1, FindExact
  <2> HIDE DEF i
  <2>2. /\ i \in Nat \ {0} /\ i + Len(d) - 1 <= Len(x)
        /\ p + i - 1 \in Nat \ {0} /\ (p + i - 1) + Len(d) - 1 <= Len(s)
        /\ p + i - 1 \in p .. n - Len(d) + 1
    BY <1>1, <1>2, <1>3, <2>1, SMTT(20)
  <2>3. \A k \in 1 .. Len(d) : x[i + k - 1] = d[k]
    <3>1. x \in Seq(S) /\ i \in Nat \ {0} /\ i + Len(d) - 1 <= Len(x)
      BY <1>3, <2>2
    <3>2. OccursAt(x, d, i) <=> \A k \in 1 .. Len(d) : x[i + k - 1] = d[k]
      BY <3>1, OccursExact
    <3> QED BY <2>1, <3>2
  <2>4. ASSUME NEW k \in 1 .. Len(d) PROVE s[(p + i - 1) + k - 1] = d[k]
    <3>1. i + k - 1 \in 1 .. n - p + 1 /\ p + (i + k - 1) - 1 = (p + i - 1) + k - 1
      BY <1>1, <1>2, <1>3, <2>2
    <3> QED BY <1>3, <2>3, <3>1
  <2>5. OccursAt(s, d, p + i - 1)
    <3> DEFINE j == p + i - 1
    <3>1. j \in Nat \ {0} /\ j + Len(d) - 1 <= Len(s) /\ \A k \in 1 .. Len(d) : s[j + k - 1] = d[k]
      BY <2>2, <2>4
    <3> HIDE DEF j
    <3>2. OccursAt(s, d, j)
      BY <3>1, OccursExact
    <3> QED BY <3>2 DEF j
  <2> QED BY <2>2, <2>5
<1>5. ASSUME NEW k \in 1 .. Len(x) PROVE \E m \in 1 .. Len(s) : x[k] = s[m]
  <2>1. p + k - 1 \in 1 .. Len(s) /\ k \in 1 .. n - p + 1
    BY <1>1, <1>2, <1>3
  <2> QED BY <1>3, <2>1
<1> QED BY <1>4, <1>5 DEF PartExact, x

(* q splits rest: joined its parts are rest, each of them is exact, and    *)
(* there is at least one.                                                  *)
SplitGood(q, rest, s, d, S) ==
    /\ q \in Seq(Seq(S)) /\ q # <<>>
    /\ Joined(q, d) = rest
    /\ \A i \in 1 .. Len(q) : PartExact(q[i], s, d)

(* split() splits the whole text: each list, from the last place on, splits *)
(* the rest that begins there.                                              *)
LEMMA SplitParts ==
    ASSUME NEW S, NEW s \in Seq(S), NEW d \in Seq(S), d # <<>>
    PROVE  SplitGood(SplitString(s, d), s, s, d, S)
<1> DEFINE N == Len(s) + 1
<1>1. N \in Nat /\ Len(s) \in Nat /\ Len(d) \in Nat /\ Len(d) > 0
  BY EmptySeq
<1>2. PICK f : SplitsTo(f, s, d)
  BY SplitBy
<1> DEFINE Good(p) == SplitGood(f[p], SubSeq(s, p, Len(s)), s, d, S)
           Bad == {p \in 1 .. N : ~Good(p)}
<1>3. ASSUME NEW p \in 1 .. N, \A r \in p + 1 .. N : Good(r) PROVE Good(p)
  <2> DEFINE v == FindFrom(s, d, p)
  <2>1. p \in Nat \ {0} /\ p \in 1 .. Len(s) + 1 /\ p <= Len(s) + 1
    BY <1>1
  <2>2. \/ v = 0 /\ \A i \in p .. Len(s) - Len(d) + 1 : ~OccursAt(s, d, i)
        \/ /\ v \in p .. Len(s) - Len(d) + 1 /\ OccursAt(s, d, v)
           /\ \A i \in p .. Len(s) - Len(d) + 1 : OccursAt(s, d, i) => v <= i
    BY <2>1, FindExact
  <2>3. f[p] = IF v = 0 THEN <<SubSeq(s, p, Len(s))>>
               ELSE <<SubSeq(s, p, v - 1)>> \o f[v + Len(d)]
    BY <1>2, <2>1 DEF SplitsTo
  <2> HIDE DEF v
  <2>4. CASE v = 0
    <3> DEFINE x == SubSeq(s, p, Len(s))
    <3>1. Len(s) \in p - 1 .. Len(s) /\ \A i \in p .. Len(s) - Len(d) + 1 : ~OccursAt(s, d, i)
      BY <1>1, <2>1, <2>2, <2>4
    <3>2. x \in Seq(S) /\ PartExact(x, s, d)
      BY <2>1, <3>1, PartOf, PartWithout
    <3>3. f[p] = <<x>>
      BY <2>3, <2>4
    <3> HIDE DEF x
    <3>4. Joined(<<x>>, d) = x
      BY <3>2, JoinedOne
    <3>5. <<x>> \in Seq(Seq(S)) /\ <<x>> # <<>> /\ Len(<<x>>) = 1 /\ <<x>>[1] = x
      BY <3>2
    <3>6. \A i \in 1 .. Len(<<x>>) : PartExact(<<x>>[i], s, d)
      BY <3>2, <3>5
    <3>7. SplitGood(<<x>>, x, s, d, S)
      BY <3>4, <3>5, <3>6 DEF SplitGood
    <3> QED BY <3>3, <3>7 DEF x
  <2>5. CASE v # 0
    <3> DEFINE x == SubSeq(s, p, v - 1)
               r == v + Len(d)
               q == f[r]
    <3>1. v \in p .. Len(s) - Len(d) + 1 /\ OccursAt(s, d, v)
      BY <2>2, <2>5
    <3>2. /\ v - 1 \in p - 1 .. Len(s) /\ r \in p + 1 .. N
          /\ r - 1 \in v - 1 .. Len(s) /\ Len(s) \in r - 1 .. Len(s)
          /\ r - 1 \in p - 1 .. Len(s) /\ (v - 1) + 1 = v /\ (r - 1) + 1 = r
      BY <1>1, <2>1, <3>1
    <3>3. ASSUME NEW i \in p .. (v - 1) - Len(d) + 1 PROVE ~OccursAt(s, d, i)
      <4>1. i \in p .. Len(s) - Len(d) + 1 /\ ~(v <= i)
        BY <1>1, <2>1, <3>1
      <4> QED BY <2>2, <2>5, <4>1
    <3>4. x \in Seq(S) /\ PartExact(x, s, d)
      <4>1. \A i \in p .. (v - 1) - Len(d) + 1 : ~OccursAt(s, d, i)
        BY <3>3
      <4> DEFINE n == v - 1
      <4>2. n \in p - 1 .. Len(s) /\ \A i \in p .. n - Len(d) + 1 : ~OccursAt(s, d, i)
        BY <3>2, <4>1
      <4> HIDE DEF n
      <4>3. SubSeq(s, p, n) \in Seq(S) /\ PartExact(SubSeq(s, p, n), s, d)
        BY <2>1, <4>2, PartOf, PartWithout
      <4> QED BY <4>3 DEF n
    <3>5. SplitGood(q, SubSeq(s, r, Len(s)), s, d, S)
      BY <1>3, <3>2
    <3>6. f[p] = <<x>> \o q
      BY <2>3, <2>5
    <3>7. SubSeq(s, v, r - 1) = d
      BY <3>1 DEF OccursAt
    <3>8. x \o d = SubSeq(s, p, r - 1)
      <4>1. SubSeq(s, p, v - 1) \o SubSeq(s, (v - 1) + 1, r - 1) = SubSeq(s, p, r - 1)
        BY <2>1, <3>2, ConcatAdjacentSubSeq
      <4> QED BY <3>2, <3>7, <4>1
    <3>9. x \o d \o SubSeq(s, r, Len(s)) = SubSeq(s, p, Len(s))
      <4>1. SubSeq(s, p, r - 1) \o SubSeq(s, (r - 1) + 1, Len(s)) = SubSeq(s, p, Len(s))
        BY <2>1, <3>2, ConcatAdjacentSubSeq
      <4> QED BY <3>2, <3>8, <4>1
    <3> HIDE DEF x, r, q
    <3>10. q \in Seq(Seq(S)) /\ q # <<>> /\ Joined(q, d) = SubSeq(s, r, Len(s))
           /\ \A i \in 1 .. Len(q) : PartExact(q[i], s, d)
      BY <3>5 DEF SplitGood
    <3>11. Joined(<<x>> \o q, d) = SubSeq(s, p, Len(s))
      <4>1. Joined(<<x>> \o q, d) = x \o d \o Joined(q, d)
        BY <3>4, <3>10, JoinedMore
      <4> QED BY <3>9, <3>10, <4>1
    <3> DEFINE w == <<x>> \o q
    <3>12. /\ w \in Seq(Seq(S)) /\ Len(w) = 1 + Len(q)
           /\ \A i \in 1 .. 1 + Len(q) : w[i] = IF i <= 1 THEN x ELSE q[i - 1]
      <4>1. <<x>> \in Seq(Seq(S)) /\ Len(<<x>>) = 1 /\ <<x>>[1] = x
        BY <3>4
      <4>2. w \in Seq(Seq(S)) /\ Len(w) = 1 + Len(q)
            /\ \A i \in 1 .. 1 + Len(q) : w[i] = IF i <= 1 THEN <<x>>[i] ELSE q[i - 1]
        BY <3>10, <4>1, ConcatProperties
      <4>3. \A i \in 1 .. 1 + Len(q) : i <= 1 => i = 1
        OBVIOUS
      <4> HIDE DEF w
      <4> QED BY <4>1, <4>2, <4>3
    <3>13. f[p] = w /\ Joined(w, d) = SubSeq(s, p, Len(s))
      BY <3>6, <3>11
    <3> HIDE DEF w
    <3>14. Len(q) \in Nat
      BY <3>10
    <3>15. ASSUME NEW i \in 1 .. Len(w) PROVE PartExact(w[i], s, d)
      <4>1. CASE i = 1
        BY <3>4, <3>12, <3>14, <4>1
      <4>2. CASE i # 1
        <5>1. i - 1 \in 1 .. Len(q) /\ ~(i <= 1) /\ i \in 1 .. 1 + Len(q)
          BY <3>12, <3>14, <4>2, SMTT(20)
        <5> QED BY <3>10, <3>12, <5>1
      <4> QED BY <4>1, <4>2
    <3>16. w # <<>>
      <4>1. Len(w) # 0 /\ Len(<<>>) = 0
        BY <3>12, <3>14
      <4> QED BY <4>1
    <3> QED BY <3>12, <3>13, <3>15, <3>16 DEF SplitGood
  <2> QED BY <2>4, <2>5
<1>4. \A p \in 1 .. N : Good(p)
  <2> HIDE DEF Good
  <2>1. SUFFICES ASSUME Bad # {} PROVE FALSE
    OBVIOUS
  <2>2. Bad \subseteq 0 .. N /\ Bad \subseteq 1 .. N
    BY <1>1
  <2>3. PICK p \in Bad : \A m \in Bad : m <= p
    <3> HIDE DEF Bad
    <3> QED BY <1>1, <2>1, <2>2, LastOf
  <2>4. p \in 1 .. N /\ ~Good(p)
    OBVIOUS
  <2>5. ASSUME NEW r \in p + 1 .. N PROVE Good(r)
    <3>1. r \in 1 .. N /\ ~(r <= p)
      BY <1>1, <2>4
    <3> QED BY <2>3, <3>1
  <2> QED BY <1>3, <2>4, <2>5
<1>5. 1 \in 1 .. N /\ SubSeq(s, 1, Len(s)) = s
  BY <1>1, SubSeqFull
<1>6. SplitGood(f[1], SubSeq(s, 1, Len(s)), s, d, S)
  BY <1>4, <1>5
<1> QED BY <1>2, <1>5, <1>6 DEF SplitsTo

(* split() loses nothing and leaves nothing undivided. *)
LEMMA SplitHolds ==
    ASSUME text \in Seq(Alphabet), pattern \in Seq(Alphabet) PROVE SplitExact
<1> SUFFICES ASSUME pattern # <<>>
             PROVE  LET parts == SplitString(text, pattern)
                    IN  /\ Joined(parts, pattern) = text
                        /\ \A i \in 1 .. Len(parts) : ~ContainsString(parts[i], pattern)
  BY DEF SplitExact
<1>1. SplitGood(SplitString(text, pattern), text, text, pattern, Alphabet)
  BY SplitParts
<1> QED BY <1>1 DEF SplitGood, PartExact

-----------------------------------------------------------------------------
(* The matching of URLs *)

(* A segment that is a variable begins with a colon. *)
LEMMA VariableBegins ==
    ASSUME NEW x \in Seq(Alphabet), StartsWith(x, <<Colon>>) PROVE x[1] = Colon
<1> DEFINE c == <<Colon>>
<1>1. c \in Seq(Alphabet) /\ Len(c) = 1 /\ c[1] = Colon
  BY StringAssumption
<1>2. Len(x) \in Nat /\ Len(c) <= Len(x) /\ OccursAt(x, c, 1)
  BY DEF StartsWith
<1> HIDE DEF c
<1>3. 1 \in Nat \ {0} /\ 1 + Len(c) - 1 <= Len(x)
  BY <1>1, <1>2
<1>4. \A k \in 1 .. Len(c) : x[1 + k - 1] = c[k]
  BY <1>1, <1>2, <1>3, OccursExact
<1>5. 1 \in 1 .. Len(c) /\ 1 + 1 - 1 = 1
  BY <1>1
<1>6. x[1 + 1 - 1] = c[1]
  BY <1>4, <1>5
<1> QED BY <1>1, <1>5, <1>6

(* A text that contains no colon has no segment that begins with one. *)
LEMMA NoVariable ==
    ASSUME NEW s \in Seq(Alphabet), ~ContainsString(s, <<Colon>>),
           NEW x \in Seq(Alphabet), PartExact(x, s, <<Slash>>)
    PROVE  ~StartsWith(x, <<Colon>>)
<1> DEFINE c == <<Colon>>
<1>1. c \in Seq(Alphabet) /\ Len(c) = 1 /\ c[1] = Colon
  BY StringAssumption
<1> HIDE DEF c
<1>2. ASSUME StartsWith(x, c) PROVE FALSE
  <2>1. Len(x) \in Nat /\ Len(s) \in Nat /\ Len(x) >= 1
    BY <1>1, <1>2 DEF StartsWith
  <2>2. x[1] = Colon
    BY <1>2, VariableBegins DEF c
  <2>3. PICK m \in 1 .. Len(s) : x[1] = s[m]
    <3>1. 1 \in 1 .. Len(x)
      BY <2>1
    <3> QED BY <3>1 DEF PartExact
  <2>4. OccursAt(s, c, m)
    <3>1. m \in Nat \ {0} /\ m + Len(c) - 1 <= Len(s)
      BY <1>1, <2>1
    <3>2. \A k \in 1 .. Len(c) : s[m + k - 1] = c[k]
      <4>1. \A k \in 1 .. Len(c) : k = 1 /\ m + k - 1 = m
        BY <1>1, <2>1
      <4> QED BY <1>1, <2>2, <2>3, <4>1
    <3> QED BY <1>1, <3>1, <3>2, OccursExact
  <2>5. FindFrom(s, c, 1) # 0
    <3>1. m \in 1 .. Len(s) - Len(c) + 1 /\ 1 \in Nat \ {0}
      BY <1>1, <2>1
    <3>2. \/ \A i \in 1 .. Len(s) - Len(c) + 1 : ~OccursAt(s, c, i)
          \/ FindFrom(s, c, 1) \in 1 .. Len(s) - Len(c) + 1
      BY <1>1, <3>1, FindExact
    <3> HIDE DEF c
    <3> QED BY <1>1, <2>1, <2>4, <3>1, <3>2
  <2> QED BY <2>5 DEF ContainsString, c
<1> QED BY <1>2 DEF c

(* What matchInclusiveUrl() compares. *)
LEMMA UrlsHold ==
    ASSUME text \in Seq(Alphabet), pattern \in Seq(Alphabet) PROVE UrlsExact
<1> DEFINE slash == <<Slash>>
           asked == SplitString(text, slash)
           segments == SplitString(pattern, slash)
           common == 1 .. (IF Len(segments) < Len(asked) THEN Len(segments)
                           ELSE Len(asked))
<1>1. slash \in Seq(Alphabet) /\ slash # <<>>
  BY StringAssumption
<1>2. /\ SplitGood(asked, text, text, slash, Alphabet)
      /\ SplitGood(segments, pattern, pattern, slash, Alphabet)
  <2> HIDE DEF slash
  <2> QED BY <1>1, SplitParts
<1>3. /\ MatchInclusiveUrl(text, pattern) <=>
            \A i \in 1 .. Len(segments) : \/ StartsWith(segments[i], <<Colon>>)
                                          \/ i > Len(asked)
                                          \/ segments[i] = asked[i]
      /\ MatchInclusiveUrl(text, text) <=>
            \A i \in 1 .. Len(asked) : \/ StartsWith(asked[i], <<Colon>>)
                                           \/ i > Len(asked)
                                           \/ asked[i] = asked[i]
  BY DEF MatchInclusiveUrl
<1>4. UrlsExact <=>
          /\ ~ContainsString(pattern, <<Colon>>) =>
                (MatchInclusiveUrl(text, pattern)
                    <=> \A i \in common : asked[i] = segments[i])
          /\ MatchInclusiveUrl(text, text)
          /\ MatchInclusiveUrl(text, pattern) =>
                \A i \in common : segments[i] # asked[i] => segments[i][1] = Colon
  BY DEF UrlsExact
<1>5. /\ Len(asked) \in Nat /\ Len(segments) \in Nat
      /\ \A i \in 1 .. Len(segments) : /\ segments[i] \in Seq(Alphabet)
                                       /\ PartExact(segments[i], pattern, slash)
  <2> HIDE DEF asked, segments, slash
  <2>1. asked \in Seq(Seq(Alphabet)) /\ segments \in Seq(Seq(Alphabet))
    BY <1>2 DEF SplitGood
  <2>2. Len(asked) \in Nat /\ Len(segments) \in Nat
    BY <2>1
  <2>3. \A i \in 1 .. Len(segments) : segments[i] \in Seq(Alphabet)
    BY <2>1
  <2>4. \A i \in 1 .. Len(segments) : PartExact(segments[i], pattern, slash)
    BY <1>2 DEF SplitGood
  <2> QED BY <2>2, <2>3, <2>4
<1>6. \A i : i \in common <=> i \in 1 .. Len(segments) /\ ~(i > Len(asked))
  <2> HIDE DEF asked, segments
  <2> QED BY <1>5
<1>7. ~ContainsString(pattern, <<Colon>>) =>
          \A i \in 1 .. Len(segments) : ~StartsWith(segments[i], <<Colon>>)
  <2> HIDE DEF segments
  <2> QED BY <1>5, NoVariable
<1>8. \A i \in 1 .. Len(segments) : StartsWith(segments[i], <<Colon>>) => segments[i][1] = Colon
  <2> HIDE DEF segments
  <2> QED BY <1>5, VariableBegins
<1> HIDE DEF asked, segments, common, slash
<1>9. MatchInclusiveUrl(text, text)
  BY <1>3
<1>10. ~ContainsString(pattern, <<Colon>>) =>
          (MatchInclusiveUrl(text, pattern) <=> \A i \in common : asked[i] = segments[i])
  BY <1>3, <1>6, <1>7
<1>11. MatchInclusiveUrl(text, pattern) =>
          \A i \in common : segments[i] # asked[i] => segments[i][1] = Colon
  BY <1>3, <1>6, <1>8
<1> QED BY <1>4, <1>9, <1>10, <1>11

-----------------------------------------------------------------------------
(* The texts are sequences of characters. *)
StringInv == text \in Seq(Alphabet) /\ pattern \in Seq(Alphabet)

(* They are empty at first. *)
LEMMA InitStringInv == StringInit => StringInv
  BY DEF StringInit, StringInv

(* A step adds a character to one of them. *)
LEMMA NextStringInv == StringInv /\ [StringNext]_stringVars => StringInv'
<1> SUFFICES ASSUME StringInv, [StringNext]_stringVars PROVE StringInv'
  OBVIOUS
<1>1. CASE StringNext
  <2>1. PICK c \in Alphabet :
            \/ text' = Append(text, c) /\ UNCHANGED pattern
            \/ pattern' = Append(pattern, c) /\ UNCHANGED text
    BY <1>1 DEF StringNext
  <2>2. text \in Seq(Alphabet) /\ pattern \in Seq(Alphabet)
    BY DEF StringInv
  <2>3. Append(text, c) \in Seq(Alphabet) /\ Append(pattern, c) \in Seq(Alphabet)
    BY <2>2, AppendProperties
  <2> QED BY <2>1, <2>2, <2>3 DEF StringInv
<1>2. CASE UNCHANGED stringVars
  BY <1>2 DEF StringInv, stringVars
<1> QED BY <1>1, <1>2

(* The functions are exact for texts of any length. *)
LEMMA InvStringsExact == StringInv => StringsExact
  BY SplitHolds, TrimsHold, UrlsHold, SuffixHolds DEF StringInv, StringsExact

-----------------------------------------------------------------------------
(* The theorems *)

(* The tables of the database begin empty. *)
LEMMA InitTableInv == SqliteInit => TableInv
  BY EmptyTable DEF SqliteInit

(* A step of the composition is one of each class, or leaves it alone. *)
LEMMA StepOfEach ==
    [MCNext]_allVars =>
        /\ [ServerNext]_everything
        /\ [TransferNext]_transferVars
        /\ [FileNext]_fileVars
        /\ [PipeNext]_pipeVars
        /\ [SqliteNext]_sqliteVars
        /\ [ImageNext]_imageVars
        /\ [LutNext]_lutVars
        /\ [StopwatchNext]_stopwatchVars
        /\ [PriorityNext]_priorityVars
        /\ [StringNext]_stringVars
<1> USE DEF MCNext, Only, Ended, allVars
<1>1. [MCNext]_allVars => [ServerNext]_everything OBVIOUS
<1>2. [MCNext]_allVars => [TransferNext]_transferVars OBVIOUS
<1>3. [MCNext]_allVars => [FileNext]_fileVars OBVIOUS
<1>4. [MCNext]_allVars => [PipeNext]_pipeVars OBVIOUS
<1>5. [MCNext]_allVars => [SqliteNext]_sqliteVars OBVIOUS
<1>6. [MCNext]_allVars => [ImageNext]_imageVars OBVIOUS
<1>7. [MCNext]_allVars => [LutNext]_lutVars OBVIOUS
<1>8. [MCNext]_allVars => [StopwatchNext]_stopwatchVars OBVIOUS
<1>9. [MCNext]_allVars => [PriorityNext]_priorityVars OBVIOUS
<1>10. [MCNext]_allVars => [StringNext]_stringVars OBVIOUS
<1> HIDE DEF MCNext, Only, Ended, allVars
<1> QED BY <1>1, <1>2, <1>3, <1>4, <1>5, <1>6, <1>7, <1>8, <1>9, <1>10

(* The getters of a stopwatch tell the time it ran, in each unit, whatever *)
(* calls were made and when.                                               *)
THEOREM ElapsedExactHolds == MCSpec => []ElapsedExact
<1>1. MCInit => StopwatchInv BY InitStopwatchInv DEF MCInit
<1>2. StopwatchInv /\ [MCNext]_allVars => StopwatchInv' BY StepOfEach, NextStopwatchInv
<1> QED BY <1>1, <1>2, InvElapsedExact, PTL DEF MCSpec

(* The service thread uses a destroyed context, or none, only after stop() *)
(* or an init() over a context, in every interleaving with the owner.      *)
THEOREM ServesLiveHolds == MCSpec => []ServesLive
<1>1. MCInit => ServerInv BY InitServerInv DEF MCInit
<1>2. ServerInv /\ [MCNext]_allVars => ServerInv' BY StepOfEach, NextServerInv
<1>3. ServerInv => ServesLive BY DEF ServerInv
<1> QED BY <1>1, <1>2, <1>3, PTL DEF MCSpec

(* The reader of the output of a child gets to the end once the child has  *)
(* ended, and not before: no process is left that holds the write end.     *)
THEOREM OutputEndsHolds == MCSpec => []OutputEnds
<1>1. MCInit => PipeInv BY InitPipeInv DEF MCInit
<1>2. PipeInv /\ [MCNext]_allVars => PipeInv' BY StepOfEach, NextPipeInv
<1> QED BY <1>1, <1>2, InvOutputEnds, PTL DEF MCSpec

(* The values of a query are where the reader of the table looks for them, *)
(* for any number of rows of any one width.                                *)
THEOREM TableRowMajorHolds == MCSpec => []TableRowMajor
<1>1. MCInit => TableInv BY InitTableInv DEF MCInit
<1>2. TableInv /\ [MCNext]_allVars => TableInv' BY StepOfEach, NextTableInv
<1> QED BY <1>1, <1>2, InvTableRowMajor, PTL DEF MCSpec

(* For any number of objects, descriptors, children and threads: what is   *)
(* open is what the files, pipes, databases and servers refer to and what  *)
(* a named list of calls has left, and a file that no failed ::close has   *)
(* touched refers to its own descriptor, whatever else the kernel does.    *)
THEOREM ResourcesOwnedHolds == MCSpec => []ResourcesOwned
<1> DEFINE Inv == FileInv /\ PipeInv /\ SqliteInv /\ ServerInv
<1>1. MCInit => Inv
  BY InitFileInv, InitPipeInv, InitSqliteInv, InitServerInv DEF MCInit
<1>2. Inv /\ [MCNext]_allVars => Inv'
  BY StepOfEach, NextFileInv, NextPipeInv, NextSqliteInv, NextServerInv
<1>3. Inv => ResourcesOwned
  BY InvEndsKnown, InvContextsOwned DEF FileInv, SqliteInv, ResourcesOwned
<1> QED BY <1>1, <1>2, <1>3, PTL DEF MCSpec

(* A buffer that images share, or the tables that look-up tables share,    *)
(* are deleted once, by the last owner, whichever thread that is on.       *)
THEOREM OwnersCountedHolds == MCSpec => []OwnersCounted
<1> DEFINE Inv == ImageInv /\ LutInv
<1>1. MCInit => Inv BY InitImageInv, InitLutInv DEF MCInit
<1>2. Inv /\ [MCNext]_allVars => Inv' BY StepOfEach, NextImageInv, NextLutInv
<1>3. Inv => OwnersCounted BY InvBuffersExact, InvTablesExact DEF OwnersCounted
<1> QED BY <1>1, <1>2, <1>3, PTL DEF MCSpec

(* A rectangle of a rectangle begins at its pixel of the whole image and   *)
(* stays inside the buffer, for every size, format, stride and rectangle.  *)
THEOREM PixelsExactHolds == MCSpec => []PixelsExact
<1>1. MCInit => ImageInv BY InitImageInv DEF MCInit
<1>2. ImageInv /\ [MCNext]_allVars => ImageInv' BY StepOfEach, NextImageInv
<1> QED BY <1>1, <1>2, InvPixelsExact, PTL DEF MCSpec

(* What receiving from a socket, error() and the setPriority() of the      *)
(* posix build return is what the system has done, for buffers, messages   *)
(* and datagrams of any size, empty ones too.                              *)
THEOREM ResultsTruthfulHolds == MCSpec => []ResultsTruthful
<1> DEFINE Inv == TransferInv /\ PriorityInv
<1>1. MCInit => Inv BY InitTransferInv, InitPriorityInv DEF MCInit
<1>2. Inv /\ [MCNext]_allVars => Inv' BY StepOfEach, NextTransferInv, NextPriorityInv
<1>3. Inv => ResultsTruthful
  BY InvTransferExact, InvPriorityExact DEF ResultsTruthful
<1> QED BY <1>1, <1>2, <1>3, PTL DEF MCSpec

(* split(), the trims, the searches, humanFileSize() and the matching of   *)
(* URLs do what their names say, for texts and patterns of any length over *)
(* any alphabet.                                                           *)
THEOREM StringsExactHolds == MCSpec => []StringsExact
<1>1. MCInit => StringInv BY InitStringInv DEF MCInit
<1>2. StringInv /\ [MCNext]_allVars => StringInv' BY StepOfEach, NextStringInv
<1> QED BY <1>1, <1>2, InvStringsExact, PTL DEF MCSpec
=============================================================================
