-------------------------------- MODULE Startup --------------------------------
(***************************************************************************)
(* Opening the database: createSchema and runMigrations (internal/store),  *)
(* which the server, the seed and the evaluation all go through before     *)
(* they do anything else, each on its own or at the same time.             *)
(*                                                                         *)
(* A migration is executed and then recorded, in two statements.  What it  *)
(* builds may be there already: from a start that was cut short between    *)
(* the two, from another program, or from a database older than the        *)
(* records ("历史库").  In such a database a table may also hold the same   *)
(* row twice, which nothing forbade before its unique index; nothing in    *)
(* the program ever removes the second row.                                *)
(***************************************************************************)
EXTENDS Integers, FiniteSets, Sequences

CONSTANTS
  Programs,    \* the programs that open the database
  Migrations   \* a short list of the kinds of migration that there are

\* driver: the one it is for, "" for both.
\* kind: what happens when its structure is there already.  An "add" (ADD
\* COLUMN, CREATE INDEX) or a "unique" (CREATE UNIQUE INDEX) is refused as a
\* duplicate, a "create" (CREATE TABLE IF NOT EXISTS) or "modify" (MODIFY
\* COLUMN) does nothing.
\* on: the migration whose table it alters, 0 for a table of the schema.
\* inSchema: createSchema has it already.
Migration ==
  [driver: {"", "mysql", "sqlite"}, kind: {"add", "unique", "create", "modify"}, on: Nat,
   inSchema: BOOLEAN]

\* A migration alters a table of the schema or of an earlier migration for
\* both drivers, MODIFY COLUMN is for MySQL alone, and the schema has none of
\* the unique indexes that are migrations.
ASSUME StartupAssumption ==
  /\ Migrations \in Seq(Migration)
  /\ \A v \in DOMAIN Migrations :
       LET m == Migrations[v] IN
       /\ m.on \in 0..(v - 1)
       /\ m.on # 0 => Migrations[m.on].driver = ""
       /\ m.kind = "modify" => m.driver = "mysql"
       /\ m.kind = "unique" => ~ m.inSchema

VARIABLES
  driver,     \* sqlite or mysql
  repeated,   \* the unique indexes whose table holds a row twice
  built,      \* the migrations whose structure is in the database
  recorded,   \* the rows of schema_migrations
  stage,      \* what each program does next
  version,    \* the migration each program is at
  clashed     \* history: the programs that a start of another one overtook

database == <<driver, repeated>>
startupVars == <<database, built, recorded, stage, version, clashed>>

Versions == DOMAIN Migrations
ForDriver == {v \in Versions : Migrations[v].driver \in {"", driver}}
Starting == {"look", "exec", "record", "duplicate"}

StartupTypeOK ==
  /\ driver \in {"sqlite", "mysql"}
  /\ repeated \subseteq Versions /\ built \subseteq Versions /\ recorded \subseteq Versions
  /\ clashed \subseteq Programs
  /\ stage \in [Programs -> {"down", "open", "refused"} \cup Starting]
  /\ version \in [Programs -> 1..(Len(Migrations) + 1)]
  /\ \A p \in Programs : stage[p] \in Starting => version[p] \in ForDriver

To(p, next) == stage' = [stage EXCEPT ![p] = next] /\ UNCHANGED version

\* Not looking at the driver a migration is for.
OnwardsAll(p, from) ==
  LET next == from + 1 IN
  /\ version' = [version EXCEPT ![p] = next]
  /\ stage' = [stage EXCEPT ![p] = IF next > Len(Migrations) THEN "open" ELSE "look"]

\* The next migration of the list, or the end of it.
Onwards(p, from) ==
  LET later == {v \in ForDriver : v > from}
      done == Len(Migrations) + 1
  IN \E next \in later \cup {done} :
       /\ \A v \in later : next <= v
       /\ version' = [version EXCEPT ![p] = next]
       /\ stage' = [stage EXCEPT ![p] = IF next = done THEN "open" ELSE "look"]

\* OpenDriver, createSchema: every statement may be repeated.  A table that
\* is there already, in an older form, stays as it is.  The programs that are
\* starting at this moment overlap.
createSchema(p) ==
  /\ stage[p] \in {"down", "refused"}
  /\ \E new \in SUBSET {v \in Versions : Migrations[v].inSchema} : built' = built \cup new
  /\ Onwards(p, 0)
  /\ LET others == {q \in Programs \ {p} : stage[q] \in Starting}
     IN clashed' = IF others = {} THEN clashed \ {p} ELSE clashed \cup others \cup {p}
  /\ UNCHANGED <<database, recorded>>

\* SELECT COUNT(*) FROM schema_migrations.
Look(p) ==
  /\ stage[p] = "look"
  /\ IF version[p] \in recorded THEN Onwards(p, version[p]) ELSE To(p, "exec")
  /\ UNCHANGED <<database, built, recorded, clashed>>

\* The table is missing, the statement is not of this driver, or two rows
\* agree where they must differ: an error that is not one of a duplicate
\* structure.
Refused(v) ==
  \/ v \in repeated
  \/ Migrations[v].on # 0 /\ Migrations[v].on \notin built
  \/ Migrations[v].kind = "modify" /\ driver = "sqlite"

Duplicate(v) == Migrations[v].kind \in {"add", "unique"} /\ v \in built

\* Taking every error for a reason not to start.
ExecStrict(p) ==
  LET v == version[p] IN
  /\ stage[p] = "exec"
  /\ IF Refused(v) \/ Duplicate(v)
     THEN To(p, "refused") /\ UNCHANGED built
     ELSE To(p, "record") /\ built' = built \cup {v}
  /\ UNCHANGED <<database, recorded, clashed>>

\* The statement itself: a duplicate counts as done, any other error ends
\* the program.
Exec(p) ==
  LET v == version[p] IN
  /\ stage[p] = "exec"
  /\ IF Refused(v) THEN To(p, "refused")
     ELSE IF Duplicate(v) THEN To(p, "duplicate")
     ELSE To(p, "record")
  /\ built' = IF Refused(v) THEN built ELSE built \cup {v}
  /\ UNCHANGED <<database, recorded, clashed>>

\* recordMigration: the version is the primary key, and an error ends the
\* program.
recordMigration(p) ==
  /\ stage[p] = "record"
  /\ IF version[p] \in recorded THEN To(p, "refused") ELSE Onwards(p, version[p])
  /\ recorded' = recorded \cup {version[p]}
  /\ UNCHANGED <<database, built, clashed>>

\* After a duplicate the error of recordMigration is dropped.
RecordDuplicate(p) ==
  /\ stage[p] = "duplicate"
  /\ recorded' \in {recorded, recorded \cup {version[p]}}
  /\ Onwards(p, version[p])
  /\ UNCHANGED <<database, built, clashed>>

\* The program stops, or the database fails it; the statement under way may
\* still take effect.
Stop(p) ==
  /\ stage[p] \in Starting \cup {"open"}
  /\ To(p, "down")
  /\ LET mine == {version[p]}
     IN \/ UNCHANGED <<built, recorded>>
        \/ /\ stage[p] = "exec" /\ ~ Refused(version[p])
           /\ built' = built \cup mine /\ UNCHANGED recorded
        \/ /\ stage[p] = "record"
           /\ recorded' = recorded \cup mine /\ UNCHANGED built
  /\ UNCHANGED <<database, clashed>>

\* A new database, or an older one, in which some of the structures are, and
\* in which a table without its unique index may hold a row twice.
StartupInit ==
  /\ driver \in {"sqlite", "mysql"}
  /\ built \in {B \in SUBSET Versions :
                  \A v \in B : /\ Migrations[v].on \in B \cup {0}
                               /\ Migrations[v].kind = "modify" => driver = "mysql"}
  /\ repeated \in SUBSET {v \in Versions \ built : /\ Migrations[v].kind = "unique"
                                                  /\ Migrations[v].on \in built \cup {0}}
  /\ recorded = {}
  /\ stage = [p \in Programs |-> "down"] /\ version = [p \in Programs |-> 1]
  /\ clashed = {}

StartupNext ==
  \E p \in Programs :
    createSchema(p) \/ Look(p) \/ Exec(p) \/ recordMigration(p) \/ RecordDuplicate(p) \/ Stop(p)

StartupSpec == StartupInit /\ [][StartupNext]_startupVars

----------------------------------------------------------------------------
\* An open database has everything its driver needs, and no record speaks of
\* what is not there, wherever earlier starts were cut short.  And a start is
\* turned away by what it finds for two reasons only: another program was
\* starting at the same time, or the table of a unique index, which an older
\* program filled, holds a row twice.  No crash of a start, and nothing else
\* in an older database, keeps the program from starting.
StartsComplete ==
  /\ recorded \subseteq built
  /\ \A p \in Programs :
       /\ stage[p] = "open" => ForDriver \subseteq built
       /\ stage[p] = "refused" => p \in clashed \/ version[p] \in repeated
=============================================================================
