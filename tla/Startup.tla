------------------------------- MODULE Startup -------------------------------
(* The start of API processes on one Postgres database: create_all, the      *)
(* auto-migration of columns and enum values, and the first admin           *)
(* (main.py, core/db.py, services/auth.py).                                  *)
(*                                                                         *)
(* Each transaction inspects the schema and then changes it; DDL takes an   *)
(* exclusive lock until the commit and is rolled back with the transaction, *)
(* so a process inspects in one step and changes and commits in another.    *)
EXTENDS Naturals

CONSTANTS
    Processes,
    Columns,    \* columns of the models: [table, name, nullable, default]
    Members,    \* values of the enums
    MaxKills,   \* bound: processes killed
    None

VARIABLES
    tables,     \* the tables of the database
    filled,     \* those with rows
    column,     \* column[c]: how it exists in the database
    values,     \* the enum values the database knows
    admin,      \* the password of the admin in the users table, or None
    configured, \* ADMIN_PASSWORD is set
    at,         \* at[p]: program point of a process
    seen,       \* seen[p]: what its last inspection found
    logged,     \* the passwords the log shows
    kills,      \* processes killed so far
    lost        \* history: killed between the seeding and the log

vars == <<tables, filled, column, values, admin, configured, at, seen, logged, kills, lost>>
schema == <<tables, filled, column, values>>
accounts == <<admin, configured, logged, kills, lost>>

Tables == { c.table : c \in Columns }
InTables(ts) == { c \in Columns : c.table \in ts }

Points == {"down", "inspect_tables", "create_tables", "inspect_columns", "add_columns",
           "add_values", "count_users", "seed", "log", "serving"}

(* A random password is known by the process that chose it.                  *)
ASSUME PasswordsDiffer ==
    /\ MaxKills \in Nat
    /\ None \notin Processes \cup {"set_before", "configured"}
    /\ {"set_before", "configured"} \cap Processes = {}

(* A column is "created" with its table, or added as "nullable", with a       *)
(* DEFAULT ("default"), or as "required": NOT NULL without one.              *)
ColumnStates == {"absent", "created", "nullable", "default", "required"}
Exists(c) == column[c] # "absent"

(* Any older version of the schema, with or without its admin.               *)
Init ==
    /\ tables \in SUBSET Tables
    /\ filled \in SUBSET tables
    /\ \E old \in SUBSET InTables(tables) :
          column = [c \in Columns |-> IF c \in old THEN "created" ELSE "absent"]
    /\ values \in SUBSET Members
    /\ tables = {} => values = {}
    /\ admin \in {None, "set_before"}
    /\ tables = {} => admin = None
    /\ configured \in BOOLEAN
    /\ at = [p \in Processes |-> "down"]
    /\ seen = [p \in Processes |-> {}]
    /\ logged = {}
    /\ kills = 0
    /\ lost = FALSE

-----------------------------------------------------------------------------
Goto(p, point) == at' = [at EXCEPT ![p] = point]
Inspect(p, found) == seen' = [seen EXCEPT ![p] = found]
Crash(p) == /\ Goto(p, "down")
            /\ Inspect(p, {})

(* The container is started again (restart: unless-stopped, or Kubernetes).   *)
Boot(p) ==
    /\ at[p] = "down"
    /\ Goto(p, "inspect_tables")
    /\ UNCHANGED <<schema, accounts, seen>>

(* A process is killed, also while it serves.                                *)
Kill(p) ==
    /\ at[p] # "down"
    /\ kills < MaxKills
    /\ kills' = kills + 1
    /\ Crash(p)
    /\ lost' = (lost \/ at[p] = "log")
    /\ UNCHANGED <<schema, admin, configured, logged>>

-----------------------------------------------------------------------------
(* create_all: find the tables that are missing,                             *)
InspectTables(p) ==
    /\ at[p] = "inspect_tables"
    /\ Inspect(p, Tables \ tables)
    /\ Goto(p, "create_tables")
    /\ UNCHANGED <<schema, accounts>>

(* create them with all columns and enum values; a table that another process *)
(* created in between is an error.                                           *)
CreateTables(p) ==
    /\ at[p] = "create_tables"
    /\ IF seen[p] \cap tables # {}
       THEN Crash(p) /\ UNCHANGED schema
       ELSE /\ tables' = tables \cup seen[p]
            /\ column' = [c \in Columns |-> IF c.table \in seen[p] THEN "created" ELSE column[c]]
            /\ values' = IF tables = {} THEN Members ELSE values
            /\ Goto(p, "inspect_columns") /\ Inspect(p, {})
            /\ UNCHANGED filled
    /\ UNCHANGED accounts

(* _add_missing_columns: find the columns that are missing,                  *)
InspectColumns(p) ==
    /\ at[p] = "inspect_columns"
    /\ Inspect(p, { c \in InTables(tables) : ~Exists(c) })
    /\ Goto(p, "add_columns")
    /\ UNCHANGED <<schema, accounts>>

(* _ddl_literal_for_default: a scalar, an enum or a callable without context  *)
(* (dict, list) becomes a literal, uuid4 does not.                           *)
HasLiteral(c) == c.default \in {"scalar", "enum", "callable"}

\* Mutant: NOT NULL is kept without a literal.
AddedAsDeclared(c) == IF HasLiteral(c) THEN "default"
                      ELSE IF c.nullable THEN "nullable" ELSE "required"

(* Without a literal the column is nullable, whatever the model says.        *)
AddedAs(c) == IF HasLiteral(c) THEN "default" ELSE "nullable"

(* ALTER TABLE refuses a column that exists by now, a required one in a table *)
(* with rows, and the default of an enum: its literal is the member's value   *)
(* (db.py:49-50), while the labels of the type are the names of the members. *)
AlterFails(c) ==
    \/ Exists(c)
    \/ AddedAs(c) = "required" /\ c.table \in filled
    \/ c.default = "enum"

(* One ALTER TABLE per column, all of them in one transaction.               *)
AddColumns(p) ==
    /\ at[p] = "add_columns"
    /\ IF \E c \in seen[p] : AlterFails(c)
       THEN Crash(p) /\ UNCHANGED column
       ELSE /\ column' = [c \in Columns |-> IF c \in seen[p] THEN AddedAs(c) ELSE column[c]]
            /\ Goto(p, "add_values") /\ Inspect(p, {})
    /\ UNCHANGED <<tables, filled, values, accounts>>

\* Mutant: an enum type that exists is left alone.
AddValuesOfNewTypes(p) ==
    /\ at[p] = "add_values"
    /\ values' = IF values = {} THEN Members ELSE values
    /\ Goto(p, "count_users")
    /\ UNCHANGED <<tables, filled, column, accounts, seen>>

(* _add_missing_enum_values: ADD VALUE IF NOT EXISTS does not depend on what  *)
(* was read.                                                                *)
AddValues(p) ==
    /\ at[p] = "add_values"
    /\ values' = values \cup Members
    /\ Goto(p, "count_users")
    /\ UNCHANGED <<tables, filled, column, accounts, seen>>

-----------------------------------------------------------------------------
(* ensure_seed_admin: is the users table empty?                              *)
CountUsers(p) ==
    /\ at[p] = "count_users"
    /\ Goto(p, IF admin = None THEN "seed" ELSE "serving")
    /\ UNCHANGED <<schema, accounts, seen>>

(* The configured password, or a random one that is this process's own.      *)
SeedPassword(p) == IF configured THEN "configured" ELSE p

\* Mutant: the random password is shown before the commit.
SeedAdminShowsFirst(p) ==
    /\ at[p] = "seed"
    /\ logged' = IF configured THEN logged ELSE logged \cup {SeedPassword(p)}
    /\ IF admin # None
       THEN Crash(p) /\ UNCHANGED admin
       ELSE admin' = SeedPassword(p) /\ Goto(p, "serving") /\ UNCHANGED seen
    /\ UNCHANGED <<schema, configured, kills, lost>>

(* Insert the admin; the name is unique, a second insert is an error.        *)
SeedAdmin(p) ==
    /\ at[p] = "seed"
    /\ IF admin # None
       THEN Crash(p) /\ UNCHANGED admin
       ELSE admin' = SeedPassword(p) /\ Goto(p, "log") /\ UNCHANGED seen
    /\ UNCHANGED <<schema, configured, logged, kills, lost>>

\* Mutant: a configured password is shown as well.
LogPasswordAlways(p) ==
    /\ at[p] = "log"
    /\ logged' = logged \cup {SeedPassword(p)}
    /\ Goto(p, "serving")
    /\ UNCHANGED <<schema, admin, configured, kills, lost, seen>>

(* A random password is shown once, after the commit.                        *)
LogPassword(p) ==
    /\ at[p] = "log"
    /\ logged' = IF configured THEN logged ELSE logged \cup {SeedPassword(p)}
    /\ Goto(p, "serving")
    /\ UNCHANGED <<schema, admin, configured, kills, lost, seen>>

(* A process in service, of this or an older version, adds rows.             *)
Serve ==
    /\ \E t \in tables : filled' = filled \cup {t}
    /\ UNCHANGED <<tables, column, values, accounts, at, seen>>

Start(p) ==
    \/ Boot(p) \/ InspectTables(p) \/ CreateTables(p) \/ InspectColumns(p) \/ AddColumns(p)
    \/ AddValues(p) \/ CountUsers(p) \/ SeedAdmin(p) \/ LogPassword(p)

Next == \/ \E p \in Processes : Start(p) \/ Kill(p)
        \/ Serve

(* A process that can go on with its start does.                             *)
Spec == Init /\ [][Next]_vars
FairSpec == Spec /\ \A p \in Processes : WF_vars(Start(p))

-----------------------------------------------------------------------------
(* Every variable has its type, and a process knows of missing columns only   *)
(* in tables that exist (db.py:86-88).                                       *)
TypeOK ==
    /\ tables \subseteq Tables /\ filled \subseteq tables
    /\ column \in [Columns -> ColumnStates]
    /\ \A c \in Columns : Exists(c) => c.table \in tables
    /\ values \subseteq Members
    /\ admin \in Processes \cup {None, "set_before", "configured"}
    /\ logged \subseteq Processes
    /\ configured \in BOOLEAN /\ lost \in BOOLEAN /\ kills \in 0 .. MaxKills
    /\ at \in [Processes -> Points]
    /\ \A p \in Processes :
          /\ at[p] = "create_tables" => seen[p] \subseteq Tables
          /\ at[p] = "add_columns" => seen[p] \subseteq InTables(tables)

(* A process never serves on a schema that lacks a table, a column or an enum *)
(* value of its models, or without an admin, however the starts of others     *)
(* overlap with its own and whatever they roll back (main.py:31-36,          *)
(* db.py:195-199).                                                           *)
ServesComplete ==
    (\E p \in Processes : at[p] = "serving")
    => /\ tables = Tables /\ values = Members /\ admin # None
       /\ \A c \in Columns : Exists(c)

(* A password in the log opens the account: of processes that seed at the     *)
(* same time only the one whose insert was committed shows its password. And *)
(* the random password of the admin is never lost while its process lives: it *)
(* is in the log, or the process that chose it is still at the line that      *)
(* shows it (auth.py:62-92). Others may count a user and serve before that.   *)
LoggedPasswordWorks ==
    /\ logged \subseteq {admin}
    /\ admin \in Processes /\ ~lost => admin \in logged \/ at[admin] = "log"

(* The older version lacks no enum column of a table that it has.             *)
Upgradable == \A c \in InTables(tables) : c.default = "enum" => Exists(c)

(* From such a version, whatever collides, the crashes end and every process *)
(* comes to serve ("a running app beats a crash-looping one", db.py:103-104). *)
StartEnds == Upgradable => \A p \in Processes : <>[](at[p] = "serving")
=============================================================================
