-------------------------------- MODULE Lut --------------------------------
(***************************************************************************)
(* katla::Lut: three tables (red, green, blue) that are shared by copies   *)
(* of a Lut and counted as the buffers of an Image are.  The three are     *)
(* allocated and deleted together and are one table here.                  *)
(***************************************************************************)
EXTENDS Integers, FiniteSets

CONSTANTS
    Luts,      \* the objects of class Lut
    MaxTables  \* bound: how many tables are allocated

ASSUME LutAssumption == MaxTables \in Nat /\ IsFiniteSet(Luts)

Tables == 1 .. MaxTables
NoTables == 0       \* m_ref == nullptr
NoLut == -1         \* the object is not constructed

VARIABLES
    lut,       \* the table that m_ref and the pointers of each object refer to
    tables,    \* number of tables allocated
    owners,    \* the counter m_ref points to, one for each table
    deleted,   \* how often each table was deleted
    miscounted \* history: tables whose counter does not count their owners

lutVars == <<lut, tables, owners, deleted, miscounted>>

LutInit ==
    /\ lut = [l \in Luts |-> NoLut]
    /\ tables = 0
    /\ owners = [x \in Tables |-> 0]
    /\ deleted = [x \in Tables |-> 0]
    /\ miscounted = {}

(* --m_ref, and the deletion when it is 0. *)
CountsDown(x) ==
    /\ owners' = [owners EXCEPT ![x] = @ - 1]
    /\ deleted' = [deleted EXCEPT ![x] = IF owners[x] = 1 THEN @ + 1 ELSE @]

(* A counter that was deleted cannot be used. *)
Usable(x) == x \in Tables /\ deleted[x] = 0

-----------------------------------------------------------------------------
ConstructNull(l) ==
    /\ lut[l] = NoLut
    /\ lut' = [lut EXCEPT ![l] = NoTables]
    /\ UNCHANGED <<tables, owners, deleted, miscounted>>

ConstructDepth(l) ==
    /\ lut[l] = NoLut
    /\ tables < MaxTables
    /\ tables' = tables + 1
    /\ lut' = [lut EXCEPT ![l] = tables']
    /\ owners' = [owners EXCEPT ![tables'] = 1]
    /\ UNCHANGED <<deleted, miscounted>>

(* The copy constructor counts through m_ref, also when it is null: a null *)
(* Lut cannot be copied.                                                   *)
CopyLut(l, source) ==
    /\ lut[l] = NoLut
    /\ Usable(lut[source])
    /\ lut' = [lut EXCEPT ![l] = lut[source]]
    /\ owners' = [owners EXCEPT ![lut[source]] = @ + 1]
    /\ UNCHANGED <<tables, deleted, miscounted>>

DestroyLut(l) ==
    /\ lut[l] # NoLut
    /\ \/ lut[l] = NoTables /\ UNCHANGED <<owners, deleted>>
       \/ Usable(lut[l]) /\ CountsDown(lut[l])
    /\ lut' = [lut EXCEPT ![l] = NoLut]
    /\ UNCHANGED <<tables, miscounted>>

(* operator=: out of the old table, into the new one. *)
AssignLut(l, source) ==
    /\ l # source
    /\ lut[l] = NoTables \/ Usable(lut[l])
    /\ Usable(lut[source])
    /\ LET old == lut[l]
           new == lut[source]
       IN  /\ owners' = [x \in Tables |->
                owners[x] - (IF x = old THEN 1 ELSE 0) + (IF x = new THEN 1 ELSE 0)]
           /\ deleted' = [x \in Tables |->
                IF x = old /\ owners[x] = 1 THEN deleted[x] + 1 ELSE deleted[x]]
    /\ lut' = [lut EXCEPT ![l] = lut[source]]
    /\ UNCHANGED <<tables, miscounted>>

(* operator= with a null Lut: the pointers are reset only by the last      *)
(* owner; another one keeps a table it does not count for any more.        *)
AssignNull(l, source) ==
    /\ l # source
    /\ lut[source] = NoTables
    /\ Usable(lut[l])
    /\ CountsDown(lut[l])
    /\ lut' = [lut EXCEPT ![l] = IF owners[@] = 1 THEN NoTables ELSE @]
    /\ miscounted' = miscounted \cup (IF owners[lut[l]] = 1 THEN {} ELSE {lut[l]})
    /\ UNCHANGED tables

(* operator= with itself counts up only.  It happens once for a table. *)
AssignSame(l) ==
    /\ Usable(lut[l])
    /\ lut[l] \notin miscounted
    /\ owners' = [owners EXCEPT ![lut[l]] = @ + 1]
    /\ miscounted' = miscounted \cup {lut[l]}
    /\ UNCHANGED <<lut, tables, deleted>>

LutNext ==
    \E l \in Luts :
        \/ ConstructNull(l) \/ ConstructDepth(l) \/ DestroyLut(l)
        \/ \E source \in Luts :
              CopyLut(l, source) \/ AssignLut(l, source) \/ AssignNull(l, source)
        \/ AssignSame(l)

-----------------------------------------------------------------------------
(* A table lives while a Lut refers to it and is deleted once, with its    *)
(* last owner, except one that was assigned to itself or over which a null *)
(* Lut was assigned while it was shared: its counter is wrong from then on.*)
TablesExact ==
    \A x \in (1 .. tables) \ miscounted :
        IF \E l \in Luts : lut[l] = x THEN deleted[x] = 0 ELSE deleted[x] = 1
=============================================================================
