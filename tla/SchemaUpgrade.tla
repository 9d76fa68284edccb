--------------------------- MODULE SchemaUpgrade ---------------------------
(***************************************************************************)
(* model.writer_lock and model.connect: the controller or a command that   *)
(* found no controller takes the lock, brings a database of any earlier    *)
(* version up to date, and may be killed between any two statements.       *)
(* An executed script outside a transaction commits each statement.        *)
(***************************************************************************)
EXTENDS Naturals, Sequences, FiniteSets

CONSTANTS
  Opener,        \* processes that open the database for writing
  SchemaTables   \* the tables of SCHEMA, in order; "derivations" is not the last

VARIABLES
  userVersion,   \* PRAGMA user_version
  tables,        \* tables that exist
  columns,       \* columns of derivations that came later
  held,          \* who has writer.lock, or "nobody"
  opener         \* place of each process and the version it read

schemaVars == <<userVersion, tables, columns, held, opener>>

LaterColumns == {"exclusion", "metadata"}
TableSet == {SchemaTables[i] : i \in DOMAIN SchemaTables}

LastTable == SchemaTables[Len(SchemaTables)]

ASSUME SchemaAssumption ==
  /\ SchemaTables \in Seq(STRING)
  /\ "derivations" \in TableSet \ {LastTable}
  /\ "nobody" \notin Opener

\* Databases as the released versions left them; the last table came with
\* version 6, and 7 is from the future.
SchemaInit ==
  /\ userVersion \in 0..7
  /\ tables = CASE userVersion = 0 -> {} [] userVersion \in 1..5 -> TableSet \ {LastTable} [] OTHER -> TableSet
  /\ columns = CASE userVersion \in {0, 1} -> {} [] userVersion \in 2..4 -> {"exclusion"} [] OTHER -> LaterColumns
  /\ held = "nobody"
  /\ opener = [o \in Opener |-> [pc |-> "off", version |-> 0]]

At(o, pc) == opener[o].pc = pc
To(o, pc) == opener' = [opener EXCEPT ![o].pc = pc]

\* Mutant: whoever comes may write.
TakeLockAnyway(o) ==
  /\ At(o, "off")
  /\ held' = o /\ To(o, "connect")
  /\ UNCHANGED <<userVersion, tables, columns>>
\* writer_lock: without waiting.
TakeLock(o) ==
  /\ At(o, "off")
  /\ IF held = "nobody" THEN held' = o /\ To(o, "connect")
     ELSE To(o, "refused") /\ UNCHANGED held
  /\ UNCHANGED <<userVersion, tables, columns>>

ReadVersion(o) ==
  /\ At(o, "connect")
  /\ IF userVersion \in 0..6
     THEN /\ opener' = [opener EXCEPT ![o] = [pc |-> "exclusion", version |-> userVersion]]
          /\ UNCHANGED held
     ELSE To(o, "unsupported") /\ held' = "nobody"
  /\ UNCHANGED <<userVersion, tables, columns>>

\* ALTER TABLE with the version that says so, in one transaction; a column that
\* is there already is an error.
Alter(o, due, column, version, next) ==
  /\ IF ~due THEN To(o, next) /\ UNCHANGED <<userVersion, columns, held>>
     ELSE IF column \in columns THEN To(o, "error") /\ held' = "nobody" /\ UNCHANGED <<userVersion, columns>>
     ELSE /\ columns' = columns \cup {column} /\ userVersion' = version
          /\ To(o, next) /\ UNCHANGED held
  /\ UNCHANGED tables

AddExclusion(o) ==
  At(o, "exclusion") /\ Alter(o, opener[o].version = 1, "exclusion", 2, "metadata")

AddMetadata(o) ==
  At(o, "metadata") /\ Alter(o, opener[o].version \in 1..4, "metadata", 5, "script")

\* The next statement of SCHEMA: a table that is not there is made in its
\* present form.
CreateTable(o) ==
  LET absentTables == {i \in DOMAIN SchemaTables : SchemaTables[i] \notin tables}
  IN  /\ At(o, "script")
      /\ \E i \in absentTables :
           /\ \A k \in absentTables : i <= k
           /\ tables' = tables \cup {SchemaTables[i]}
           /\ columns' = IF SchemaTables[i] = "derivations" THEN LaterColumns ELSE columns
      /\ UNCHANGED <<userVersion, held, opener>>

\* The last statement.
SetVersion(o) ==
  /\ At(o, "script") /\ TableSet \subseteq tables
  /\ userVersion' = 6
  /\ To(o, "open")
  /\ UNCHANGED <<tables, columns, held>>

\* The process ends or is killed: the lock goes with it, what is committed stays.
Leave(o) ==
  /\ held = o
  /\ held' = "nobody" /\ To(o, "off")
  /\ UNCHANGED <<userVersion, tables, columns>>

SchemaNext ==
  \/ \E o \in Opener : TakeLock(o)
  \/ \E o \in Opener : ReadVersion(o)
  \/ \E o \in Opener : AddExclusion(o)
  \/ \E o \in Opener : AddMetadata(o)
  \/ \E o \in Opener : CreateTable(o)
  \/ \E o \in Opener : SetVersion(o)
  \/ \E o \in Opener : Leave(o)

SchemaSpec == SchemaInit /\ [][SchemaNext]_schemaVars

-----------------------------------------------------------------------------
\* The version of a database never promises what is not there, whoever died
\* while it was upgraded: the next opener relies on it.
VersionIsTrue ==
  /\ userVersion >= 2 => "exclusion" \in columns
  /\ userVersion >= 5 => "metadata" \in columns
  /\ userVersion >= 6 => tables = TableSet
  /\ \A o \in Opener : At(o, "open") => userVersion = 6

\* An upgrade that was cut short can be taken up again, and two processes never
\* upgrade at once: no column is ever added twice.
UpgradeResumes == \A o \in Opener : ~At(o, "error")

\* Whoever is killed in an upgrade leaves a database the next one can finish.
UpgradeSound == VersionIsTrue /\ UpgradeResumes
=============================================================================
