--------------------------- MODULE SqliteDatabase ---------------------------
(***************************************************************************)
(* katla::SqliteDatabase: the connection it keeps to SQLite, the           *)
(* statements insert() prepares on it, and the table exec() collects in    *)
(* the callback that SQLite calls for every row.                           *)
(***************************************************************************)
EXTENDS Naturals, Sequences

CONSTANTS
    Paths,          \* the paths of databases
    Rows,           \* the rows that a query may give: sequences of values
    MaxConnections, \* bound: how many connections are opened
    MaxStatements,  \* bound: how many statements are prepared on one of them
    MaxRows         \* bound: how many rows one exec() gives

NoHandle == 0       \* m_handle == nullptr
NoPath == "none"    \* m_path as it is constructed
SqlNull == "NULL"   \* data[i] == nullptr, for a value that is NULL
NoTable == [nrOfColumns |-> 0, columnNames |-> 0, data |-> <<>>] \* no value

ASSUME SqliteAssumption ==
    /\ {MaxConnections, MaxStatements, MaxRows} \subseteq Nat
    /\ NoPath \notin Paths
    /\ Rows \subseteq Seq(STRING)

Connections == 1 .. MaxConnections

VARIABLES
    files,      \* the paths at which there is a file
    m_handle,   \* the connection m_handle points to, or NoHandle
    m_path,
    connected,  \* number of connections SQLite has opened
    openHandles,\* SQLite: the connections that are open
    statements, \* SQLite: statements that are not finalized, per connection
    query,      \* the database is inside exec(), "idle" or "gone", or the
                \* program has "crashed"
    table,      \* queryResult of exec(): what callbackFunc has collected
    given,      \* history: the rows SQLite gave to this exec()
    abandoned   \* history: open connections to which m_handle pointed once,
                \* or create() did

handleVars == <<m_handle, m_path>>
engineVars == <<connected, openHandles, statements>>
queryVars == <<query, table, given>>
sqliteVars == <<files, handleVars, engineVars, queryVars, abandoned>>

SqliteInit ==
    /\ files = {}
    /\ m_handle = NoHandle
    /\ m_path = NoPath
    /\ connected = 0
    /\ openHandles = {}
    /\ statements = [h \in Connections |-> 0]
    /\ query = "idle"
    /\ table = NoTable
    /\ given = <<>>
    /\ abandoned = {}

(* sqlite3_open_v2 stores a new connection, of which it may say that it    *)
(* has failed, or stores nullptr.                                          *)
OpensConnection ==
    /\ connected < MaxConnections
    /\ connected' = connected + 1
    /\ openHandles' = openHandles \cup {connected'}
    /\ UNCHANGED statements

-----------------------------------------------------------------------------
(* create() *)

CreateDatabase(path) ==
    /\ query = "idle"
    /\ path \notin files
    /\ connected < MaxConnections
    /\ connected' = connected + 1
    /\ files' = files \cup {path}
    /\ m_path' = path
    /\ UNCHANGED <<m_handle, openHandles, statements, queryVars, abandoned>>

(* The connection that has failed is not closed. *)
CreateFails(path) ==
    /\ query = "idle"
    /\ path \notin files
    /\ OpensConnection
    /\ abandoned' = abandoned \cup {connected'}
    /\ UNCHANGED <<files, handleVars, queryVars>>

SetPath(path) ==
    /\ query = "idle"
    /\ m_path' = path
    /\ UNCHANGED <<files, m_handle, engineVars, queryVars, abandoned>>

(* Somebody removes the file, as the tests do before they begin. *)
RemoveFile(path) ==
    /\ path \in files
    /\ files' = files \ {path}
    /\ UNCHANGED <<handleVars, engineVars, queryVars, abandoned>>

(* open() overwrites m_handle; with an error or not, SQLite has stored a   *)
(* connection ...                                                          *)
OpenDatabase ==
    /\ query = "idle"
    /\ m_path \in files
    /\ OpensConnection
    /\ m_handle' = connected'
    /\ abandoned' = abandoned \cup ({m_handle} \ {NoHandle})
    /\ UNCHANGED <<files, m_path, queryVars>>

(* ... or has no memory for one. *)
OpenExhausted ==
    /\ query = "idle"
    /\ m_path \in files
    /\ m_handle' = NoHandle
    /\ abandoned' = abandoned \cup ({m_handle} \ {NoHandle})
    /\ UNCHANGED <<files, m_path, engineVars, queryVars>>

(* close(): sqlite3_close refuses while a statement is not finalized, and  *)
(* m_handle then stays.                                                    *)
CloseDatabase ==
    /\ query = "idle"
    /\ m_handle # NoHandle
    /\ statements[m_handle] = 0
    /\ openHandles' = openHandles \ {m_handle}
    /\ m_handle' = NoHandle
    /\ UNCHANGED <<files, m_path, connected, statements, queryVars, abandoned>>

(* The destructor leaves the connection alone. *)
DestroyDatabase ==
    /\ query = "idle"
    /\ query' = "gone"
    /\ m_handle' = NoHandle
    /\ abandoned' = abandoned \cup ({m_handle} \ {NoHandle})
    /\ UNCHANGED <<files, m_path, engineVars, table, given>>

-----------------------------------------------------------------------------
(* exec() *)

Exec ==
    /\ query = "idle"
    /\ m_handle # NoHandle
    /\ query' = "exec"
    /\ table' = NoTable
    /\ given' = <<>>
    /\ UNCHANGED <<files, handleVars, engineVars, abandoned>>

(* Mutant of CallbackFunc: every row begins a new table. *)
CallbackFunc_Anew(t, row) ==
    [nrOfColumns |-> Len(row), columnNames |-> Len(row), data |-> row]

(* callbackFunc(): a row without columns is left out, the first other row  *)
(* begins the table.                                                       *)
CallbackFunc(t, row) ==
    IF row = <<>> THEN t
    ELSE [nrOfColumns |-> IF t = NoTable THEN Len(row) ELSE t.nrOfColumns,
          columnNames |-> IF t = NoTable THEN Len(row) ELSE t.columnNames,
          data |-> t.data \o row]

HasNull(row) == \E i \in 1 .. Len(row) : row[i] = SqlNull

ExecRow(row) ==
    /\ query = "exec"
    /\ Len(given) < MaxRows
    /\ ~HasNull(row)
    /\ table' = CallbackFunc(table, row)
    /\ given' = Append(given, row)
    /\ UNCHANGED <<files, handleVars, engineVars, query, abandoned>>

(* A std::string is constructed from the nullptr of a NULL: this ends the  *)
(* program, or throws std::logic_error through sqlite3_exec, which does    *)
(* not finalize its statement, and out of exec().                          *)
ExecNull(row) ==
    /\ query = "exec"
    /\ Len(given) < MaxRows
    /\ HasNull(row)
    /\ \/ query' = "crashed" /\ UNCHANGED statements
       \/ /\ statements[m_handle] < MaxStatements
          /\ query' = "idle"
          /\ statements' = [statements EXCEPT ![m_handle] = @ + 1]
    /\ table' = NoTable
    /\ given' = <<>>
    /\ UNCHANGED <<files, handleVars, connected, openHandles, abandoned>>

(* SQLite returns: with an error the rows collected are thrown away. *)
ExecReturns(failed) ==
    /\ query = "exec"
    /\ query' = "idle"
    /\ table' = IF failed THEN NoTable ELSE table
    /\ given' = IF failed THEN <<>> ELSE given
    /\ UNCHANGED <<files, handleVars, engineVars, abandoned>>

(* insert() prepares a statement, unless it is wrong, and steps it to its  *)
(* end or to an error; on no path is it finalized.                         *)
Insert ==
    /\ query = "idle"
    /\ m_handle # NoHandle
    /\ statements[m_handle] < MaxStatements
    /\ statements' = [statements EXCEPT ![m_handle] = @ + 1]
    /\ UNCHANGED <<files, handleVars, connected, openHandles, queryVars, abandoned>>

-----------------------------------------------------------------------------
SqliteNext ==
    \/ \E path \in Paths :
          CreateDatabase(path) \/ CreateFails(path) \/ SetPath(path) \/ RemoveFile(path)
    \/ OpenDatabase \/ OpenExhausted \/ CloseDatabase \/ DestroyDatabase
    \/ Exec \/ Insert
    \/ \E row \in Rows : ExecRow(row) \/ ExecNull(row)
    \/ \E failed \in BOOLEAN : ExecReturns(failed)

-----------------------------------------------------------------------------
(* m_handle is null or an open connection, so that no method uses a closed *)
(* one.  The connections that stay open are the one it refers to and those *)
(* that an open() without close(), a failed create() or the destructor     *)
(* left behind, which nobody closes any more; a statement that was not     *)
(* finalized belongs to one of them.                                       *)
HandleExact ==
    /\ m_handle \notin abandoned
    /\ openHandles = abandoned \cup ({m_handle} \ {NoHandle})
    /\ \A h \in Connections : statements[h] > 0 => h \in openHandles

SameWidth == \A r, s \in 1 .. Len(given) : Len(given[r]) = Len(given[s])

(* A table is read as the tests read it, in steps of nrOfColumns: value c  *)
(* of row r is where the reader looks for it, nothing is left out or left  *)
(* over, whenever all the rows of the query have the same columns.         *)
TableRowMajor ==
    LET n == table.nrOfColumns
    IN  SameWidth =>
            /\ Len(table.data) = n * Len(given)
            /\ table.columnNames = n
            /\ \A r \in 1 .. Len(given) :
                  SubSeq(table.data, (r - 1) * n + 1, r * n) = given[r]
=============================================================================
