---------------------------- MODULE StartupProofs ----------------------------
(* Starts that collide and are killed, for any number of processes and any    *)
(* schema.                                                                   *)
EXTENDS Startup, FiniteSetTheorems, TLAPS

(* What a process that has come this far has made sure of.                   *)
Migrated == {"add_values", "count_users", "seed", "log", "serving"}

Ensured(p) ==
    /\ at[p] = "create_tables" => Tables \subseteq (seen[p] \cup tables)
    /\ at[p] \in {"inspect_columns", "add_columns"} \cup Migrated => tables = Tables
    /\ at[p] = "add_columns" => \A c \in Columns : Exists(c) \/ c \in seen[p]
    /\ at[p] \in Migrated => \A c \in Columns : Exists(c)
    /\ at[p] \in Migrated \ {"add_values"} => values = Members
    /\ at[p] \in {"log", "serving"} => admin # None
    /\ at[p] = "log" => admin = SeedPassword(p)

IInv ==
    /\ TypeOK
    /\ seen = [p \in Processes |-> seen[p]]
    /\ \A p \in Processes : Ensured(p)
    /\ LoggedPasswordWorks

-----------------------------------------------------------------------------
(* What exists in the database stays, so that no step of another process      *)
(* undoes what one has made sure of.                                         *)
Grows ==
    /\ tables \subseteq tables' /\ values \subseteq values'
    /\ \A c \in Columns : Exists(c) => Exists(c)'
    /\ admin # None => admin' = admin

LEMMA InTablesGrows ==
  ASSUME NEW S, NEW T, S \subseteq T PROVE InTables(S) \subseteq InTables(T)
  BY DEF InTables

(* A step of p, or of none, leaves what q has made sure of.                   *)
LEMMA OthersEnsured ==
  ASSUME IInv, TypeOK', Grows, UNCHANGED configured,
         NEW q \in Processes, at'[q] = at[q], seen'[q] = seen[q]
  PROVE  Ensured(q)'
<1>1. Ensured(q) /\ tables' \subseteq Tables /\ values' \subseteq Members
  BY DEF IInv, TypeOK
<1>2. SeedPassword(q)' = SeedPassword(q) /\ SeedPassword(q) # None
  BY PasswordsDiffer DEF SeedPassword
<1> QED BY <1>1, <1>2 DEF Ensured, Grows, Migrated

-----------------------------------------------------------------------------
LEMMA KillCounts ==
  ASSUME NEW m \in Nat PROVE 0 \in 0 .. m /\ \A k \in 0 .. m : k < m => k + 1 \in 0 .. m
  OBVIOUS

LEMMA NextTypeOK == ASSUME IInv, [Next]_vars PROVE TypeOK'
<1> USE PasswordsDiffer DEF IInv
<1>1. CASE UNCHANGED vars
  BY <1>1 DEF vars, TypeOK, Exists
<1>2. CASE Serve
  BY <1>2 DEF Serve, accounts, TypeOK, Exists
<1>3. ASSUME NEW p \in Processes, Boot(p) PROVE TypeOK'
  BY <1>3 DEF Boot, Goto, schema, accounts, TypeOK, Exists, Points
<1>4. ASSUME NEW p \in Processes, InspectTables(p) PROVE TypeOK'
  BY <1>4 DEF InspectTables, Goto, Inspect, schema, accounts, TypeOK, Exists, Points
<1>5. ASSUME NEW p \in Processes, CreateTables(p) PROVE TypeOK'
  <2>1. CASE seen[p] \cap tables # {}
    BY <1>5, <2>1 DEF CreateTables, Crash, Goto, Inspect, schema, accounts, TypeOK, Exists, Points
  <2>2. CASE seen[p] \cap tables = {}
    <3>1. /\ tables' = tables \cup seen[p] /\ seen[p] \subseteq Tables
          /\ column' = [c \in Columns |-> IF c.table \in seen[p] THEN "created" ELSE column[c]]
          /\ values' = IF tables = {} THEN Members ELSE values
          /\ at' = [at EXCEPT ![p] = "inspect_columns"]
          /\ UNCHANGED <<filled, admin, configured, logged, kills, lost>>
          /\ \A q \in Processes : at'[q] = "add_columns" => seen'[q] = seen[q]
      BY <1>5, <2>2 DEF CreateTables, Goto, Inspect, accounts, TypeOK
    <3>2. /\ column' \in [Columns -> ColumnStates]
          /\ \A c \in Columns : Exists(c)' => c.table \in tables'
      BY <3>1 DEF TypeOK, Exists, ColumnStates
    <3>3. \A q \in Processes : /\ at'[q] = "create_tables" => seen'[q] = seen[q] /\ at[q] = at'[q]
                               /\ at'[q] = "add_columns" => at[q] = at'[q]
      BY <1>5, <2>2, <3>1 DEF CreateTables, Goto, Inspect, TypeOK
    <3> QED BY <3>1, <3>2, <3>3 DEF TypeOK, InTables, Points
  <2> QED BY <2>1, <2>2
<1>6. ASSUME NEW p \in Processes, InspectColumns(p) PROVE TypeOK'
  BY <1>6 DEF InspectColumns, Goto, Inspect, schema, accounts, TypeOK, Exists, Points
<1>7. ASSUME NEW p \in Processes, AddColumns(p) PROVE TypeOK'
  <2>1. seen[p] \subseteq InTables(tables) /\ UNCHANGED <<tables, filled, values, accounts>>
    BY <1>7 DEF AddColumns, TypeOK
  <2>2. /\ column' \in [Columns -> ColumnStates]
        /\ \A c \in Columns : Exists(c)' => c.table \in tables
    BY <1>7, <2>1 DEF AddColumns, TypeOK, Exists, ColumnStates, AddedAs, InTables
  <2>3. /\ at' \in [Processes -> Points]
        /\ \A q \in Processes : at'[q] \in {"create_tables", "add_columns"}
                                => at'[q] = at[q] /\ seen'[q] = seen[q]
    BY <1>7 DEF AddColumns, Crash, Goto, Inspect, TypeOK, Points
  <2> QED BY <2>1, <2>2, <2>3 DEF TypeOK, accounts
<1>8. ASSUME NEW p \in Processes, AddValues(p) PROVE TypeOK'
  BY <1>8 DEF AddValues, Goto, accounts, TypeOK, Exists, Points
<1>9. ASSUME NEW p \in Processes, CountUsers(p) PROVE TypeOK'
  BY <1>9 DEF CountUsers, Goto, schema, accounts, TypeOK, Exists, Points
<1>10. ASSUME NEW p \in Processes, SeedAdmin(p) PROVE TypeOK'
  BY <1>10 DEF SeedAdmin, SeedPassword, Crash, Goto, Inspect, schema, TypeOK, Exists, Points
<1>11. ASSUME NEW p \in Processes, LogPassword(p) PROVE TypeOK'
  BY <1>11 DEF LogPassword, SeedPassword, Goto, schema, TypeOK, Exists, Points
<1>12. ASSUME NEW p \in Processes, Kill(p) PROVE TypeOK'
  <2>1. lost' \in BOOLEAN
    BY <1>12, Zenon DEF Kill
  <2>2. kills' \in 0 .. MaxKills
    <3>1. kills < MaxKills /\ kills' = kills + 1
      BY <1>12 DEF Kill
    <3>2. kills \in 0 .. MaxKills /\ MaxKills \in Nat
      BY DEF TypeOK
    <3> QED BY <3>1, <3>2, KillCounts
  <2>3. /\ at' \in [Processes -> Points]
        /\ \A q \in Processes : at'[q] \in {"create_tables", "add_columns"}
                                => at'[q] = at[q] /\ seen'[q] = seen[q]
    BY <1>12 DEF Kill, Crash, Goto, Inspect, TypeOK, Points
  <2> QED BY <1>12, <2>1, <2>2, <2>3 DEF Kill, schema, TypeOK, Exists
<1> QED BY <1>1, <1>2, <1>3, <1>4, <1>5, <1>6, <1>7, <1>8, <1>9, <1>10, <1>11, <1>12
        DEF Next, Start

LEMMA NextGrows == ASSUME IInv, [Next]_vars PROVE Grows /\ UNCHANGED configured
<1> USE DEF IInv
<1>1. ASSUME NEW p \in Processes, CreateTables(p) PROVE Grows /\ UNCHANGED configured
  BY <1>1 DEF CreateTables, schema, accounts, Grows, Exists, TypeOK
<1>2. ASSUME NEW p \in Processes, AddColumns(p) PROVE Grows /\ UNCHANGED configured
  BY <1>2 DEF AddColumns, accounts, Grows, Exists, AddedAs, TypeOK
<1>3. ASSUME NEW p \in Processes, AddValues(p) \/ SeedAdmin(p) PROVE Grows /\ UNCHANGED configured
  BY <1>3 DEF AddValues, SeedAdmin, schema, accounts, Grows, Exists
<1>4. ASSUME NEW p \in Processes,
             Boot(p) \/ InspectTables(p) \/ InspectColumns(p) \/ CountUsers(p) \/ LogPassword(p)
             \/ Kill(p)
      PROVE  Grows /\ UNCHANGED configured
  BY <1>4 DEF Boot, InspectTables, InspectColumns, CountUsers, LogPassword, Kill, schema, accounts,
              Grows, Exists
<1>5. CASE Serve \/ UNCHANGED vars
  BY <1>5 DEF Serve, vars, accounts, Grows, Exists
<1> QED BY <1>1, <1>2, <1>3, <1>4, <1>5 DEF Next, Start

-----------------------------------------------------------------------------
LEMMA OwnEnsured == ASSUME IInv, TypeOK', NEW p \in Processes, Start(p) \/ Kill(p) PROVE Ensured(p)'
<1> USE DEF IInv
<1> Ensured(p) /\ TypeOK
  OBVIOUS
<1>a. ASSUME at'[p] \in {"down", "inspect_tables"} PROVE Ensured(p)'
  BY <1>a DEF Ensured, Migrated
<1>1. CASE Boot(p) \/ Kill(p)
  BY <1>1, <1>a DEF Boot, Kill, Crash, Goto, TypeOK
<1>2. CASE InspectTables(p)
  BY <1>2 DEF InspectTables, Goto, Inspect, schema, accounts, TypeOK, Ensured, Migrated
<1>3. CASE CreateTables(p)
  <2>1. CASE seen[p] \cap tables # {}
    BY <1>3, <2>1, <1>a DEF CreateTables, Crash, Goto, TypeOK
  <2>2. CASE seen[p] \cap tables = {}
    <3>1. /\ tables' = tables \cup seen[p] /\ at'[p] = "inspect_columns"
          /\ Tables \subseteq (seen[p] \cup tables) /\ tables' \subseteq Tables
      BY <1>3, <2>2 DEF CreateTables, Goto, TypeOK, Ensured
    <3> QED BY <3>1 DEF Ensured, Migrated
  <2> QED BY <2>1, <2>2
<1>4. CASE InspectColumns(p)
  <2>1. /\ at'[p] = "add_columns" /\ tables' = Tables
        /\ seen'[p] = { c \in InTables(tables) : ~Exists(c) } /\ column' = column
    BY <1>4 DEF InspectColumns, Goto, Inspect, schema, TypeOK, Ensured
  <2>2. InTables(tables) = Columns
    BY <1>4 DEF InspectColumns, Ensured, InTables, Tables
  <2> QED BY <2>1, <2>2 DEF Ensured, Migrated, Exists
<1>5. CASE AddColumns(p)
  <2>1. CASE at'[p] = "down"
    BY <2>1, <1>a
  <2>2. CASE at'[p] # "down"
    <3>1. /\ at'[p] = "add_values" /\ tables' = tables
          /\ column' = [c \in Columns |-> IF c \in seen[p] THEN AddedAs(c) ELSE column[c]]
      BY <1>5, <2>2 DEF AddColumns, Crash, Goto, TypeOK
    <3>2. tables = Tables /\ \A c \in Columns : Exists(c) \/ c \in seen[p]
      BY <1>5 DEF AddColumns, Ensured
    <3>3. \A c \in Columns : Exists(c)'
      BY <3>1, <3>2 DEF Exists, AddedAs
    <3> QED BY <3>1, <3>2, <3>3 DEF Ensured, Migrated
  <2> QED BY <2>1, <2>2
<1>6. CASE AddValues(p)
  BY <1>6 DEF AddValues, Goto, accounts, TypeOK, Ensured, Migrated, Exists
<1>7. CASE CountUsers(p)
  BY <1>7 DEF CountUsers, Goto, schema, accounts, TypeOK, Ensured, Migrated, Exists
<1>8. CASE SeedAdmin(p)
  <2>1. CASE admin # None
    BY <1>8, <2>1, <1>a DEF SeedAdmin, Crash, Goto, TypeOK
  <2>2. CASE admin = None
    BY <1>8, <2>2, PasswordsDiffer
       DEF SeedAdmin, SeedPassword, Goto, schema, TypeOK, Ensured, Migrated, Exists
  <2> QED BY <2>1, <2>2
<1>9. CASE LogPassword(p)
  BY <1>9 DEF LogPassword, Goto, schema, TypeOK, Ensured, Migrated, Exists
<1> QED BY <1>1, <1>2, <1>3, <1>4, <1>5, <1>6, <1>7, <1>8, <1>9 DEF Start

LEMMA NextEnsured == ASSUME IInv, TypeOK', [Next]_vars PROVE \A q \in Processes : Ensured(q)'
<1>1. Grows /\ UNCHANGED configured
  BY NextGrows
<1>2. ASSUME NEW p \in Processes, Start(p) \/ Kill(p), NEW q \in Processes
      PROVE  Ensured(q)'
  <2>1. q # p => at'[q] = at[q] /\ seen'[q] = seen[q]
    BY <1>2 DEF IInv, TypeOK, Start, Kill, Boot, InspectTables, CreateTables, InspectColumns,
                AddColumns, AddValues, CountUsers, SeedAdmin, LogPassword, Goto, Inspect, Crash
  <2> QED BY <1>1, <1>2, <2>1, OwnEnsured, OthersEnsured
<1>3. CASE Serve \/ UNCHANGED vars
  BY <1>1, <1>3, OthersEnsured DEF Serve, vars
<1> QED BY <1>2, <1>3 DEF Next

LEMMA NextShape == ASSUME IInv, [Next]_vars PROVE seen' = [p \in Processes |-> seen'[p]]
<1>1. seen' = seen \/ \E p \in Processes : \E found : seen' = [seen EXCEPT ![p] = found]
  BY DEF Next, vars, Start, Kill, Serve, Boot, InspectTables, CreateTables, InspectColumns,
         AddColumns, AddValues, CountUsers, SeedAdmin, LogPassword, Inspect, Crash
<1> QED BY <1>1 DEF IInv

LEMMA NextLogged == ASSUME IInv, [Next]_vars PROVE LoggedPasswordWorks'
<1> USE PasswordsDiffer
<1> TypeOK /\ LoggedPasswordWorks
  BY DEF IInv
<1>1. ASSUME NEW p \in Processes, SeedAdmin(p) PROVE LoggedPasswordWorks'
  <2>1. CASE admin # None
    BY <1>1, <2>1 DEF SeedAdmin, Crash, Goto, TypeOK, LoggedPasswordWorks
  <2>2. CASE admin = None
    <3>1. logged = {}
      BY <2>2 DEF TypeOK, LoggedPasswordWorks
    <3>2. at'[p] = "log" /\ logged' = {} /\ admin' \in {"configured", p}
      BY <1>1, <2>2, <3>1 DEF SeedAdmin, SeedPassword, Goto, TypeOK
    <3> QED BY <3>2 DEF LoggedPasswordWorks
  <2> QED BY <2>1, <2>2
<1>2. ASSUME NEW p \in Processes, LogPassword(p) PROVE LoggedPasswordWorks'
  <2>1. admin = SeedPassword(p) /\ admin' = admin /\ lost' = lost
    BY <1>2 DEF LogPassword, IInv, Ensured
  <2>2. CASE configured
    BY <1>2, <2>1, <2>2 DEF LogPassword, SeedPassword, LoggedPasswordWorks
  <2>3. CASE ~configured
    BY <1>2, <2>1, <2>3 DEF LogPassword, SeedPassword, LoggedPasswordWorks
  <2> QED BY <2>2, <2>3
<1>3. ASSUME NEW p \in Processes, Kill(p) PROVE LoggedPasswordWorks'
  <2>1. CASE at[p] = "log"
    BY <1>3, <2>1 DEF Kill, LoggedPasswordWorks
  <2>2. CASE at[p] # "log"
    <3>1. UNCHANGED <<admin, logged>> /\ (lost' <=> lost)
      BY <1>3, <2>2 DEF Kill
    <3>2. \A q \in Processes : at[q] = "log" => at'[q] = "log"
      BY <1>3, <2>2 DEF Kill, Crash, Goto, TypeOK
    <3> QED BY <3>1, <3>2 DEF LoggedPasswordWorks
  <2> QED BY <2>1, <2>2
<1>4. ASSUME UNCHANGED <<admin, logged, lost>>,
             \A q \in Processes : at[q] = "log" => at'[q] = "log"
      PROVE  LoggedPasswordWorks'
  BY <1>4 DEF LoggedPasswordWorks
<1>5. ASSUME NEW p \in Processes, Start(p), ~SeedAdmin(p), ~LogPassword(p)
      PROVE  /\ UNCHANGED <<admin, logged, lost>>
             /\ \A q \in Processes : at[q] = "log" => at'[q] = "log"
  BY <1>5 DEF Start, Boot, InspectTables, CreateTables, InspectColumns, AddColumns, AddValues,
              CountUsers, Crash, Goto, TypeOK, accounts
<1>6. CASE Serve \/ UNCHANGED vars
  BY <1>4, <1>6 DEF Serve, vars, accounts
<1> QED BY <1>1, <1>2, <1>3, <1>4, <1>5, <1>6 DEF Next, Start

-----------------------------------------------------------------------------
LEMMA DownEnsured == ASSUME NEW p \in Processes, at[p] = "down" PROVE Ensured(p)
  BY DEF Ensured, Migrated

LEMMA InitIInv == Init => IInv
<1> SUFFICES ASSUME Init PROVE IInv
  OBVIOUS
<1>1. PICK old \in SUBSET InTables(tables) :
         column = [c \in Columns |-> IF c \in old THEN "created" ELSE "absent"]
  BY DEF Init
<1>2. \A c \in Columns : column[c] \in {"created", "absent"} /\ (Exists(c) => c.table \in tables)
  BY <1>1 DEF Exists, InTables
<1>3. column \in [Columns -> ColumnStates]
  BY <1>1 DEF ColumnStates
<1>4. at = [p \in Processes |-> "down"] /\ seen = [p \in Processes |-> {}] /\ logged = {}
  BY DEF Init
<1>5. kills = 0 /\ lost = FALSE /\ admin \in {None, "set_before"} /\ configured \in BOOLEAN
      /\ tables \subseteq Tables /\ filled \subseteq tables /\ values \subseteq Members
  BY DEF Init
<1>6. TypeOK
  <2>1. kills \in 0 .. MaxKills
    BY <1>5, PasswordsDiffer, KillCounts
  <2>2. at \in [Processes -> Points] /\ \A p \in Processes : at[p] = "down"
    BY <1>4 DEF Points
  <2> QED BY <1>2, <1>3, <1>4, <1>5, <2>1, <2>2 DEF TypeOK
<1>7. \A p \in Processes : Ensured(p)
  <2>1. \A p \in Processes : at[p] = "down"
    BY <1>4
  <2> QED BY <2>1, DownEnsured
<1>8. LoggedPasswordWorks
  <2>1. logged = {} /\ admin \in {None, "set_before"}
    BY <1>4, <1>5
  <2>2. admin \notin Processes
    BY <2>1, PasswordsDiffer, Zenon
  <2> QED BY <2>1, <2>2 DEF LoggedPasswordWorks
<1>9. seen = [p \in Processes |-> seen[p]]
  BY <1>4
<1> QED BY <1>2, <1>6, <1>7, <1>8, <1>9 DEF IInv

LEMMA StartsAreSound == Spec => []IInv
<1>1. IInv /\ [Next]_vars => IInv'
  BY NextTypeOK, NextEnsured, NextShape, NextLogged DEF IInv
<1> QED BY <1>1, InitIInv, PTL DEF Spec

(* Every reachable state is well typed, for any processes and any schema.     *)
THEOREM TypeCorrect == Spec => []TypeOK
<1>1. IInv => TypeOK
  BY DEF IInv
<1> QED BY <1>1, StartsAreSound, PTL

(* However many processes start at once, collide, are rolled back and killed: *)
(* none serves on a schema that lacks a table, a column or a value, or        *)
(* without an admin.                                                         *)
THEOREM NobodyServesEarly == Spec => []ServesComplete
<1>1. IInv => ServesComplete
  BY DEF IInv, Ensured, Migrated, ServesComplete
<1> QED BY <1>1, StartsAreSound, PTL

(* The log never shows a password that does not open the account, and the     *)
(* random one that does is in it or about to be, unless its process was       *)
(* killed at that very line.                                                 *)
THEOREM LogTellsThePassword == Spec => []LoggedPasswordWorks
<1>1. IInv => LoggedPasswordWorks
  BY DEF IInv
<1> QED BY <1>1, StartsAreSound, PTL
-----------------------------------------------------------------------------
(* Crash loops end: what StartEnds rests on. What is left for one process is, *)
(* in this order, the kills to come, what the database lacks, and the rest of *)
(* its start; an inspection that others have made stale costs a crash more.  *)
(* No such measure falls on a database that lacks an enum column of one of    *)
(* its tables: there every start of every process crashes.                   *)

Addable ==
    /\ Upgradable
    /\ \A p \in Processes : at[p] = "add_columns" => \A c \in seen[p] : c.default # "enum"

Stale(p) ==
    \/ at[p] = "create_tables" /\ seen[p] \cap tables # {}
    \/ at[p] = "add_columns" /\ \E c \in seen[p] : Exists(c)
    \/ at[p] = "seed" /\ admin # None

Ahead(p) ==
    IF Stale(p) THEN 10
    ELSE CASE at[p] = "down"            -> 9
           [] at[p] = "inspect_tables"  -> 8
           [] at[p] = "create_tables"   -> 7
           [] at[p] = "inspect_columns" -> 6
           [] at[p] = "add_columns"     -> 5
           [] at[p] = "add_values"      -> 4
           [] at[p] = "count_users"     -> 3
           [] at[p] = "seed"            -> 2
           [] at[p] = "log"             -> 1
           [] OTHER                     -> 0

Missing == { c \in Columns : ~Exists(c) }
Lacking == Cardinality(Missing) + IF admin = None THEN 1 ELSE 0

Left(p) == <<MaxKills - kills, <<Lacking, Ahead(p)>>>>

Smaller == { ss \in Nat \X Nat : ss[1] < ss[2] }
LessLeft == LexPairOrdering(Smaller, LexPairOrdering(Smaller, Smaller, Nat, Nat),
                            Nat, Nat \X Nat)

LEMMA LeftWellFounded == IsWellFoundedOn(LessLeft, Nat \X (Nat \X Nat))
<1>1. IsWellFoundedOn(Smaller, Nat)
  BY NatLessThanWellFounded DEF OpToRel, Smaller
<1>2. IsWellFoundedOn(LexPairOrdering(Smaller, Smaller, Nat, Nat), Nat \X Nat)
  BY <1>1, WFLexPairOrdering
<1> QED BY <1>1, <1>2, WFLexPairOrdering DEF LessLeft

LeftType ==
    /\ MaxKills - kills \in Nat
    /\ IsFiniteSet(Missing) /\ Lacking \in Nat
    /\ \A p \in Processes : Ahead(p) \in Nat

LEMMA KillsTyped ==
  ASSUME IInv
  PROVE  MaxKills \in Nat /\ kills \in Nat /\ MaxKills - kills \in Nat
<1>1. kills \in 0 .. MaxKills
  <2>1. TypeOK
    BY DEF IInv
  <2> QED BY <2>1, Zenon DEF TypeOK
<1>2. MaxKills \in Nat
  BY PasswordsDiffer, Zenon
<1> QED BY <1>1, <1>2

LEMMA LeftTyped == IInv /\ IsFiniteSet(Columns) => LeftType
<1> SUFFICES ASSUME IInv, IsFiniteSet(Columns) PROVE LeftType
  OBVIOUS
<1>1. MaxKills - kills \in Nat
  BY KillsTyped
<1>2. IsFiniteSet(Missing)
  BY FS_Subset DEF Missing
<1>3. Lacking \in Nat
  <2>1. Cardinality(Missing) \in Nat
    BY <1>2, FS_CardinalityType
  <2> QED BY <2>1 DEF Lacking
<1>4. \A p \in Processes : Ahead(p) \in Nat
  BY DEF Ahead
<1> QED BY <1>1, <1>2, <1>3, <1>4 DEF LeftType

Falls(p) ==
    \/ kills' > kills
    \/ kills' = kills /\ Lacking' < Lacking
    \/ kills' = kills /\ Lacking' = Lacking /\ Ahead(p)' < Ahead(p)

LEMMA FallsIsLess ==
  ASSUME IInv, kills' \in 0 .. MaxKills, LeftType, LeftType', NEW p \in Processes, Falls(p)
  PROVE  <<Left(p)', Left(p)>> \in LessLeft
<1>1. /\ MaxKills - kills \in Nat /\ MaxKills - kills' \in Nat
      /\ Lacking \in Nat /\ Lacking' \in Nat /\ Ahead(p) \in Nat /\ Ahead(p)' \in Nat
  BY DEF LeftType
<1>2. kills' > kills => MaxKills - kills' < MaxKills - kills
  BY KillsTyped
<1> QED BY <1>1, <1>2 DEF Falls, Left, LessLeft, LexPairOrdering, Smaller

(* The database lacks less after every step that creates something in it.     *)
LEMMA LackingShrinks ==
  ASSUME LeftType, LeftType', Grows
  PROVE  /\ Lacking' <= Lacking
         /\ Lacking' = Lacking => Missing' = Missing /\ (admin' = None <=> admin = None)
<1>1. Missing' \subseteq Missing
  BY DEF Missing, Grows
<1>2. IsFiniteSet(Missing) /\ IsFiniteSet(Missing')
  BY DEF LeftType
<1>3. /\ Cardinality(Missing') <= Cardinality(Missing)
      /\ Cardinality(Missing') = Cardinality(Missing) => Missing' = Missing
  BY <1>1, <1>2, FS_Subset
<1>4. Cardinality(Missing) \in Nat /\ Cardinality(Missing') \in Nat
  BY <1>2, FS_CardinalityType
<1>5. admin # None => admin' # None
  BY DEF Grows
<1> QED BY <1>3, <1>4, <1>5 DEF Lacking

(* A process that goes on with its start gets ahead, also by crashing: only a *)
(* stale inspection makes it crash.                                          *)
LEMMA StartGetsAhead ==
  ASSUME IInv, Addable, NEW p \in Processes, Start(p)
  PROVE  Ahead(p)' < Ahead(p)
<1>1. at \in [Processes -> Points] /\ seen = [q \in Processes |-> seen[q]]
  BY DEF IInv, TypeOK
<1>2. CASE Boot(p)
  <2>1. at[p] = "down" /\ at'[p] = "inspect_tables"
    BY <1>1, <1>2 DEF Boot, Goto
  <2> QED BY <2>1 DEF Ahead, Stale
<1>3. CASE InspectTables(p)
  <2>1. at[p] = "inspect_tables" /\ at'[p] = "create_tables"
    BY <1>1, <1>3 DEF InspectTables, Goto
  <2>2. seen'[p] \cap tables' = {}
    BY <1>1, <1>3 DEF InspectTables, Inspect, schema
  <2> QED BY <2>1, <2>2 DEF Ahead, Stale
<1>4. CASE CreateTables(p)
  <2>1. CASE seen[p] \cap tables # {}
    <3>1. at[p] = "create_tables" /\ at'[p] = "down"
      BY <1>1, <1>4, <2>1 DEF CreateTables, Crash, Goto
    <3> QED BY <2>1, <3>1 DEF Ahead, Stale
  <2>2. CASE seen[p] \cap tables = {}
    <3>1. at[p] = "create_tables" /\ at'[p] = "inspect_columns"
      BY <1>1, <1>4, <2>2 DEF CreateTables, Goto
    <3> QED BY <2>2, <3>1 DEF Ahead, Stale
  <2> QED BY <2>1, <2>2
<1>5. CASE InspectColumns(p)
  <2>1. at[p] = "inspect_columns" /\ at'[p] = "add_columns"
    BY <1>1, <1>5 DEF InspectColumns, Goto
  <2>2. \A c \in seen'[p] : ~Exists(c)'
    BY <1>1, <1>5 DEF InspectColumns, Inspect, schema, Exists
  <2> QED BY <2>1, <2>2 DEF Ahead, Stale
<1>6. CASE AddColumns(p)
  <2>1. CASE \E c \in seen[p] : Exists(c)
    <3>1. at[p] = "add_columns" /\ at'[p] = "down"
      BY <1>1, <1>6, <2>1 DEF AddColumns, AlterFails, Crash, Goto
    <3> QED BY <2>1, <3>1 DEF Ahead, Stale
  <2>2. CASE ~ \E c \in seen[p] : Exists(c)
    <3>1. \A c \in seen[p] : ~AlterFails(c)
      BY <1>6, <2>2 DEF AddColumns, Addable, AlterFails, AddedAs
    <3>2. at[p] = "add_columns" /\ at'[p] = "add_values"
      BY <1>1, <1>6, <2>2, <3>1 DEF AddColumns, Goto
    <3> QED BY <2>2, <3>2 DEF Ahead, Stale
  <2> QED BY <2>1, <2>2
<1>7. CASE AddValues(p)
  <2>1. at[p] = "add_values" /\ at'[p] = "count_users"
    BY <1>1, <1>7 DEF AddValues, Goto
  <2> QED BY <2>1 DEF Ahead, Stale
<1>8. CASE CountUsers(p)
  <2>1. at[p] = "count_users" /\ admin' = admin
        /\ at'[p] = (IF admin = None THEN "seed" ELSE "serving")
    BY <1>1, <1>8 DEF CountUsers, Goto, accounts
  <2>2. CASE admin = None
    BY <2>1, <2>2 DEF Ahead, Stale
  <2>3. CASE admin # None
    BY <2>1, <2>3 DEF Ahead, Stale
  <2> QED BY <2>2, <2>3
<1>9. CASE SeedAdmin(p)
  <2>1. CASE admin # None
    <3>1. at[p] = "seed" /\ at'[p] = "down"
      BY <1>1, <1>9, <2>1 DEF SeedAdmin, Crash, Goto
    <3> QED BY <2>1, <3>1 DEF Ahead, Stale
  <2>2. CASE admin = None
    <3>1. at[p] = "seed" /\ at'[p] = "log"
      BY <1>1, <1>9, <2>2 DEF SeedAdmin, Goto
    <3> QED BY <2>2, <3>1 DEF Ahead, Stale
  <2> QED BY <2>1, <2>2
<1>10. CASE LogPassword(p)
  <2>1. at[p] = "log" /\ at'[p] = "serving"
    BY <1>1, <1>10 DEF LogPassword, Goto
  <2> QED BY <2>1 DEF Ahead, Stale
<1> QED BY <1>2, <1>3, <1>4, <1>5, <1>6, <1>7, <1>8, <1>9, <1>10 DEF Start

(* What makes an inspection stale is something that was missing until then.   *)
LEMMA OthersGetNobodyBack ==
  ASSUME IInv, NEW p \in Processes, at'[p] = at[p], seen'[p] = seen[p],
         tables' = tables, Missing' = Missing, admin' = None <=> admin = None
  PROVE  Ahead(p)' = Ahead(p)
<1>1. at[p] = "add_columns" => seen[p] \subseteq Columns
  BY DEF IInv, TypeOK, InTables
<1>2. \A c \in Columns : Exists(c)' <=> Exists(c)
  BY DEF Missing
<1>3. Stale(p)' <=> Stale(p)
  BY <1>1, <1>2 DEF Stale
<1> QED BY <1>3 DEF Ahead

(* A table that is created comes with a column that was missing.              *)
LEMMA TablesBringColumns ==
  ASSUME IInv, [Next]_vars, Missing' = Missing
  PROVE  tables' = tables
<1>1. ASSUME NEW p \in Processes, CreateTables(p), tables' # tables PROVE FALSE
  <2>1. /\ tables' = tables \cup seen[p]
        /\ column' = [c \in Columns |-> IF c.table \in seen[p] THEN "created" ELSE column[c]]
    BY <1>1 DEF CreateTables, schema
  <2>2. /\ seen[p] \subseteq Tables
        /\ \A c \in Columns : Exists(c) => c.table \in tables
    BY <1>1 DEF IInv, TypeOK, CreateTables
  <2>3. PICK t \in seen[p] : t \notin tables
    BY <1>1, <2>1
  <2>4. PICK c \in Columns : c.table = t
    BY <2>2, <2>3 DEF Tables
  <2>5. column'[c] = "created"
    BY <2>1, <2>3, <2>4
  <2>6. c \in Missing /\ c \notin Missing'
    BY <2>2, <2>3, <2>4, <2>5 DEF Missing, Exists
  <2> QED BY <2>6
<1>2. ASSUME NEW p \in Processes, Start(p), ~CreateTables(p) PROVE tables' = tables
  BY <1>2 DEF Start, Boot, InspectTables, InspectColumns, AddColumns, AddValues, CountUsers,
     SeedAdmin, LogPassword, schema
<1>3. ASSUME NEW p \in Processes, Kill(p) PROVE tables' = tables
  BY <1>3 DEF Kill, schema
<1> QED BY <1>1, <1>2, <1>3 DEF Next, Serve, vars

(* What is created is created whole, so a start never meets a missing enum    *)
(* column unless the first one did.                                          *)
LEMMA InitAddable == Init /\ Upgradable => Addable
<1> SUFFICES ASSUME Init, Upgradable PROVE Addable
  OBVIOUS
<1>1. \A p \in Processes : at[p] = "down"
  BY DEF Init
<1> QED BY <1>1 DEF Addable

LEMMA NextUpgradable == ASSUME IInv, Upgradable, [Next]_vars PROVE Upgradable'
<1>1. Grows
  BY NextGrows
<1>2. ASSUME NEW p \in Processes, CreateTables(p), tables' # tables PROVE Upgradable'
  <2>1. /\ tables' = tables \cup seen[p]
        /\ column' = [c \in Columns |-> IF c.table \in seen[p] THEN "created" ELSE column[c]]
    BY <1>2 DEF CreateTables, schema
  <2> QED BY <2>1 DEF Upgradable, InTables, Exists
<1>3. ASSUME NEW p \in Processes, Start(p), ~CreateTables(p) PROVE tables' = tables
  BY <1>3 DEF Start, Boot, InspectTables, InspectColumns, AddColumns, AddValues, CountUsers,
     SeedAdmin, LogPassword, schema
<1>4. ASSUME NEW p \in Processes, Kill(p) PROVE tables' = tables
  BY <1>4 DEF Kill, schema
<1>5. ASSUME tables' = tables PROVE Upgradable'
  BY <1>1, <1>5 DEF Upgradable, InTables, Grows
<1> QED BY <1>2, <1>3, <1>4, <1>5 DEF Next, Serve, vars

LEMMA NextAddable == ASSUME IInv, Addable, [Next]_vars PROVE Addable'
<1>1. Upgradable'
  BY NextUpgradable DEF Addable
<1>2. ASSUME NEW p \in Processes, InspectColumns(p), NEW q \in Processes, at'[q] = "add_columns"
      PROVE  \A c \in seen'[q] : c.default # "enum"
  <2>1. at \in [Processes -> Points] /\ seen = [r \in Processes |-> seen[r]]
    BY DEF IInv, TypeOK
  <2>2. seen'[p] = { c \in InTables(tables) : ~Exists(c) }
    BY <1>2, <2>1 DEF InspectColumns, Inspect
  <2>3. q # p => at[q] = at'[q] /\ seen'[q] = seen[q]
    BY <1>2, <2>1 DEF InspectColumns, Inspect, Goto
  <2> QED BY <1>2, <2>2, <2>3 DEF Addable, Upgradable
<1>3. ASSUME NEW p \in Processes, (Start(p) /\ ~InspectColumns(p)) \/ Kill(p),
             NEW q \in Processes, at'[q] = "add_columns"
      PROVE  at[q] = "add_columns" /\ seen'[q] = seen[q]
  <2>1. at \in [Processes -> Points] /\ seen = [r \in Processes |-> seen[r]]
    BY DEF IInv, TypeOK
  <2> QED BY <1>3, <2>1 DEF Start, Kill, Boot, InspectTables, CreateTables, AddColumns, AddValues,
       CountUsers, SeedAdmin, LogPassword, Goto, Inspect, Crash
<1>4. CASE Serve \/ UNCHANGED vars
  BY <1>1, <1>4 DEF Serve, vars, Addable
<1> QED BY <1>1, <1>2, <1>3, <1>4 DEF Next, Addable

LEMMA UpgradableStays == Spec /\ Upgradable => []Addable
<1>1. IInv /\ Addable /\ [Next]_vars => Addable'
  BY NextAddable
<1> QED BY <1>1, InitAddable, StartsAreSound, PTL DEF Spec

LEMMA KillFalls ==
  ASSUME IInv, NEW p \in Processes, NEW q \in Processes, Kill(q)
  PROVE  Falls(p)
<1>1. kills' = kills + 1 /\ kills \in Nat
  BY KillsTyped DEF Kill
<1> QED BY <1>1 DEF Falls

LEMMA StartFalls ==
  ASSUME IInv, Addable, LeftType, LeftType', NEW p \in Processes, Start(p)
  PROVE  Falls(p)
<1>1. kills' = kills
  BY DEF Start, Boot, InspectTables, CreateTables, InspectColumns, AddColumns, AddValues,
     CountUsers, SeedAdmin, LogPassword, accounts
<1>2. Lacking' <= Lacking /\ Lacking \in Nat /\ Lacking' \in Nat
  <2>1. Next
    BY DEF Next
  <2> QED BY <2>1, NextGrows, LackingShrinks DEF LeftType
<1>3. Ahead(p)' < Ahead(p)
  BY StartGetsAhead
<1> QED BY <1>1, <1>2, <1>3 DEF Falls

LEMMA OthersFall ==
  ASSUME IInv, LeftType, LeftType', [Next]_vars,
         NEW p \in Processes, ~Start(p), \A q \in Processes : ~Kill(q)
  PROVE  Falls(p) \/ Left(p)' = Left(p)
<1>1. at'[p] = at[p] /\ seen'[p] = seen[p] /\ kills' = kills
  <2>1. ASSUME NEW q \in Processes, Start(q) PROVE at'[p] = at[p] /\ seen'[p] = seen[p] /\ kills' = kills
    <3>1. at \in [Processes -> Points] /\ seen = [r \in Processes |-> seen[r]] /\ q # p
      BY <2>1 DEF IInv, TypeOK
    <3> QED BY <2>1, <3>1 DEF Start, Boot, InspectTables, CreateTables, InspectColumns, AddColumns,
       AddValues, CountUsers, SeedAdmin, LogPassword, accounts, Goto, Inspect, Crash
  <2> QED BY <2>1 DEF Next, Serve, vars, accounts
<1>2. /\ Lacking' <= Lacking /\ Lacking \in Nat /\ Lacking' \in Nat
      /\ Lacking' = Lacking => Missing' = Missing /\ (admin' = None <=> admin = None)
  BY NextGrows, LackingShrinks DEF LeftType
<1>3. CASE Lacking' < Lacking
  BY <1>1, <1>3 DEF Falls
<1>4. CASE Lacking' = Lacking
  BY <1>1, <1>2, <1>4, TablesBringColumns, OthersGetNobodyBack DEF Left
<1> QED BY <1>2, <1>3, <1>4

(* From a version that lacks no enum column, every step of the start of a     *)
(* process leaves less for it, in an order in which nothing falls for ever,   *)
(* and no other step leaves more: a process that crashes because others were  *)
(* faster starts again on a database that lacks less. So no process crashes   *)
(* in a loop, whatever collides ("a running app beats a crash-looping one",   *)
(* db.py:103-104).                                                           *)
THEOREM NoCrashLoops ==
  ASSUME IsFiniteSet(Columns)
  PROVE  /\ IsWellFoundedOn(LessLeft, Nat \X (Nat \X Nat))
         /\ Spec /\ Upgradable =>
               [][\A p \in Processes :
                     /\ Start(p) => <<Left(p)', Left(p)>> \in LessLeft
                     /\ \/ <<Left(p)', Left(p)>> \in LessLeft
                        \/ Left(p)' = Left(p)]_vars
<1>1. IInv /\ IInv' /\ Addable /\ Next =>
        \A p \in Processes :
           /\ Start(p) => <<Left(p)', Left(p)>> \in LessLeft
           /\ \/ <<Left(p)', Left(p)>> \in LessLeft
              \/ Left(p)' = Left(p)
  <2> SUFFICES ASSUME IInv, IInv', Addable, Next, NEW p \in Processes
               PROVE  /\ Start(p) => <<Left(p)', Left(p)>> \in LessLeft
                      /\ \/ <<Left(p)', Left(p)>> \in LessLeft
                         \/ Left(p)' = Left(p)
    OBVIOUS
  <2>1. LeftType /\ (IInv' => LeftType')
    BY LeftTyped, PTL
  <2>2. kills' \in 0 .. MaxKills
    <3>1. TypeOK'
      BY DEF IInv
    <3> QED BY <3>1, Zenon DEF TypeOK
  <2>3. Falls(p) => <<Left(p)', Left(p)>> \in LessLeft
    BY <2>1, <2>2, FallsIsLess
  <2>4. Start(p) => Falls(p)
    BY <2>1, StartFalls
  <2>5. Falls(p) \/ Left(p)' = Left(p)
    BY <2>1, <2>4, KillFalls, OthersFall
  <2> QED BY <2>3, <2>4, <2>5
<1> QED BY <1>1, LeftWellFounded, StartsAreSound, UpgradableStays, PTL DEF Spec
=============================================================================
