--------------------------- MODULE WarehouseProofs ---------------------------
(***************************************************************************)
(* Proofs about all that share a warehouse: the lock on a DuckDB file      *)
(* keeps its sessions' data as it is, and a bootstrap that has ended has   *)
(* provisioned the app.                                                    *)
(***************************************************************************)
EXTENDS WarehouseSessions, TLAPS

(* On DuckDB whoever is at work has the file. *)
HolderInv ==
    /\ run \in [Scripts -> {"none", "running", "failed", "done"}]
    /\ open \subseteq Sessions
    /\ ~Cloud => /\ \A s \in Scripts : run[s] = "running" => holder = s
                 /\ \A m \in open : holder = m

LEMMA HolderInvInit == WarehouseInit => HolderInv
BY DEF WarehouseInit, SeedInit, HolderInv

(* What a statement of a script does to the lock: nothing, or, the last    *)
(* one, what close() does.                                                 *)
LEMMA StatementAndLock ==
    ASSUME NEW s \in Scripts, SeedStep(s)
    PROVE  /\ run[s] = "running" /\ warehouse' = warehouse
           /\ \/ UNCHANGED <<run, holder>>
              \/ run' = [run EXCEPT ![s] = "done"] /\ Disconnects(s)
<1>1. Advance(s) => /\ warehouse' = warehouse
                    /\ \/ UNCHANGED <<run, holder>>
                       \/ run' = [run EXCEPT ![s] = "done"] /\ Disconnects(s)
  BY DEF Advance
<1>2. PICK t \in Table :
          Drops(s, t) \/ Creates(s, t) \/ InsertsAll(s, t) \/ InsertsRow(s, t)
  BY DEF SeedStep
<1>3. run[s] = "running"
  BY <1>2 DEF Drops, Creates, InsertsAll, InsertsRow, At
<1>4. Advance(s) \/ UNCHANGED <<warehouse, run, holder>>
  BY <1>2 DEF Drops, Creates, InsertsAll, InsertsRow
<1>. QED  BY <1>1, <1>3, <1>4

LEMMA HolderInvStep == HolderInv /\ [WarehouseNext]_warehouseVars => HolderInv'
<1>. SUFFICES ASSUME HolderInv, [WarehouseNext]_warehouseVars PROVE HolderInv'
  OBVIOUS
<1>. USE SeedingAssumption, SessionsAssumption
<1>1. CASE /\ ProvisionNext
           /\ UNCHANGED <<dataset, table, run, step, holder, historyVars, open>>
  <2>1. warehouse' = warehouse
    BY <1>1 DEF ProvisionNext, ProvisionStarts, ProvisionStep, ProvisionFails,
                KeyReplaced, ReportCreated
  <2>. QED  BY <1>1, <2>1 DEF HolderInv, Cloud
<1>2. CASE SeedNext /\ UNCHANGED <<provisionVars, open>>
  <2>. PICK s \in Scripts :
           StartsSeed(s) \/ SeedRefused(s) \/ SeedStep(s) \/ SeedFails(s)
    BY <1>2 DEF SeedNext
  <2>1. CASE StartsSeed(s)
    BY <1>2, <2>1 DEF HolderInv, StartsSeed, Connectable, Connects, Cloud
  <2>2. CASE SeedRefused(s)
    BY <1>2, <2>2 DEF HolderInv, SeedRefused, Cloud
  <2>3. CASE SeedStep(s)
    BY <1>2, <2>3, StatementAndLock DEF HolderInv, Disconnects, Cloud
  <2>4. CASE SeedFails(s)
    BY <1>2, <2>4 DEF HolderInv, SeedFails, Disconnects, Cloud
  <2>. QED  BY <2>1, <2>2, <2>3, <2>4
<1>3. CASE /\ \E m \in Sessions : SessionOpens(m) \/ SessionEnds(m)
           /\ UNCHANGED <<warehouse, dataset, table, run, step, failures,
                          historyVars, provisionVars>>
  BY <1>3 DEF HolderInv, SessionOpens, SessionEnds, Connectable, Connects,
              Disconnects, Cloud
<1>4. CASE UNCHANGED warehouseVars
  BY <1>4 DEF HolderInv, warehouseVars, seedVars, Cloud
<1>. QED  BY <1>1, <1>2, <1>3, <1>4 DEF WarehouseNext

(* On DuckDB nothing a session reads changes while it lasts, for any       *)
(* number of scripts and sessions and for any data.                        *)
THEOREM SessionsReadASnapshot == WarehouseSpec => SessionSnapshot
<1>1. HolderInv /\ [WarehouseNext]_warehouseVars
          => [\A m \in Sessions :
                 ~Cloud /\ m \in open \cap open' => table' = table]_warehouseVars
  <2>. SUFFICES ASSUME HolderInv, WarehouseNext, NEW m \in Sessions,
                       ~Cloud, m \in open, m \in open'
                PROVE  table' = table
    OBVIOUS
  <2>1. ASSUME NEW s \in Scripts PROVE ~SeedStep(s)
    BY <2>1, StatementAndLock, SessionsAssumption DEF HolderInv
  <2>2. CASE SeedNext
    BY <2>1, <2>2 DEF SeedNext, StartsSeed, SeedRefused, SeedFails
  <2>. QED  BY <2>2 DEF WarehouseNext
<1>. QED
  BY <1>1, HolderInvInit, HolderInvStep, PTL DEF WarehouseSpec, SessionSnapshot

-----------------------------------------------------------------------------
(* The bootstrap *)

(* The last run has got past its first n statements. *)
Past(n) == admin = "done" \/ (admin = "running" /\ statement > n)

SnowflakeInv ==
    /\ statement \in 1..12
    /\ Past(4) => "useWarehouse" \in granted
    /\ Past(5) => "useDatabase" \in granted
    /\ Past(6) => "useSchema" \in granted
    /\ Past(7) => "createTable" \in granted
    /\ Past(8) => "selectFuture" \in granted
    /\ Past(9) => report # "hidden"
    /\ Past(11) => key.user = key.read
    /\ Past(12) => "roleToUser" \in granted

DatabricksInv ==
    /\ statement \in 1..6
    /\ "roleToUser" \in granted
    /\ Past(3) => "useDatabase" \in granted
    /\ Past(4) => "useSchema" \in granted
    /\ Past(5) => report # "hidden" /\ "selectSchema" \in granted
    /\ Past(6) => "createTable" \in granted

ProvisionInv ==
    /\ warehouse \in {"duckdb", "snowflake", "databricks"}
    /\ admin = "running" => statement > 0
    /\ warehouse = "duckdb" => admin = "none" /\ report = "absent"
    /\ warehouse = "snowflake" => SnowflakeInv
    /\ warehouse = "databricks" => DatabricksInv

LEMMA SnowflakeStatements ==
    ASSUME warehouse = "snowflake"
    PROVE  /\ Len(Statements) = 12
           /\ Statements[4] = "useWarehouse" /\ Statements[5] = "useDatabase"
           /\ Statements[6] = "useSchema" /\ Statements[7] = "createTable"
           /\ Statements[8] = "selectFuture" /\ Statements[9] = "selectAll"
           /\ Statements[11] = "alterKey" /\ Statements[12] = "roleToUser"
BY DEF Statements

LEMMA DatabricksStatements ==
    ASSUME warehouse = "databricks"
    PROVE  /\ Len(Statements) = 6
           /\ Statements[3] = "useDatabase" /\ Statements[4] = "useSchema"
           /\ Statements[5] = "selectSchema" /\ Statements[6] = "createTable"
BY DEF Statements

LEMMA ProvisionInvInit == WarehouseInit => ProvisionInv
<1>. SUFFICES ASSUME WarehouseInit PROVE ProvisionInv
  OBVIOUS
<1>1. /\ warehouse \in Warehouses /\ admin = "none" /\ statement = 1
      /\ granted = Given /\ report = "absent"
  BY DEF WarehouseInit, ProvisionInit
<1>2. ~Past(3) /\ ~Past(4) /\ ~Past(5) /\ ~Past(6) /\ ~Past(7)
      /\ ~Past(8) /\ ~Past(9) /\ ~Past(11) /\ ~Past(12)
  BY <1>1 DEF Past
<1>. QED
  BY <1>1, <1>2, ProvisioningAssumption
     DEF ProvisionInv, SnowflakeInv, DatabricksInv, Given

LEMMA KeysFields ==
    ASSUME NEW f, NEW r, NEW u
    PROVE  Keys(f, r, u).file = f /\ Keys(f, r, u).read = r /\ Keys(f, r, u).user = u
BY DEF Keys

LEMMA ProvisionInvStep ==
    ProvisionInv /\ [WarehouseNext]_warehouseVars => ProvisionInv'
<1>. SUFFICES ASSUME ProvisionInv, [WarehouseNext]_warehouseVars PROVE ProvisionInv'
  OBVIOUS
<1>1. CASE UNCHANGED <<warehouse, provisionVars>>
  BY <1>1 DEF ProvisionInv, SnowflakeInv, DatabricksInv, Past, provisionVars
<1>2. CASE ProvisionStarts
  BY <1>2, KeysFields
     DEF ProvisionStarts, Cloud, ProvisionInv, SnowflakeInv, DatabricksInv, Past
<1>3. CASE ProvisionStep
  <2>. DEFINE g == Statements[statement]
  <2>1. /\ admin = "running" /\ warehouse' = warehouse
        /\ granted' = granted \cup {g}
        /\ report' \in {report, "visible"}
        /\ g \in {"selectAll", "selectSchema"} => report' # "hidden"
    BY <1>3 DEF ProvisionStep
  <2>2. IF statement < Len(Statements)
           THEN statement' = statement + 1 /\ admin' = admin
           ELSE statement' = statement /\ admin' = "done"
    BY <1>3 DEF ProvisionStep
  <2>3. /\ key'.read = key.read
        /\ g = "alterKey" => key'.user = key'.read
        /\ key'.user \in {key.user, key.read}
    BY <1>3, KeysFields DEF ProvisionStep
  <2>4. CASE warehouse = "duckdb"
    BY <2>1, <2>4 DEF ProvisionInv
  <2>5. CASE warehouse = "snowflake"
    <3>1. SnowflakeInv /\ Len(Statements) = 12
      BY <2>5, SnowflakeStatements DEF ProvisionInv
    <3>2. \A n \in 0..12 : Past(n)' => Past(n) \/ statement = n
      BY <2>1, <2>2, <3>1 DEF Past, SnowflakeInv
    <3>3. statement' \in 1..12
      BY <2>2, <3>1 DEF SnowflakeInv
    <3>4. /\ Past(4)' => "useWarehouse" \in granted'
          /\ Past(5)' => "useDatabase" \in granted'
          /\ Past(6)' => "useSchema" \in granted'
          /\ Past(7)' => "createTable" \in granted'
          /\ Past(8)' => "selectFuture" \in granted'
          /\ Past(12)' => "roleToUser" \in granted'
      BY <2>1, <2>5, <3>1, <3>2, SnowflakeStatements DEF SnowflakeInv
    <3>5. Past(9)' => report' # "hidden"
      BY <2>1, <2>5, <3>1, <3>2, SnowflakeStatements DEF SnowflakeInv
    <3>6. Past(11)' => key'.user = key'.read
      BY <2>3, <2>5, <3>1, <3>2, SnowflakeStatements DEF SnowflakeInv
    <3>7. SnowflakeInv'
      BY <3>3, <3>4, <3>5, <3>6 DEF SnowflakeInv
    <3>. QED  BY <2>1, <2>5, <3>3, <3>7 DEF ProvisionInv
  <2>6. CASE warehouse = "databricks"
    <3>1. DatabricksInv /\ Len(Statements) = 6
      BY <2>6, DatabricksStatements DEF ProvisionInv
    <3>2. \A n \in 0..6 : Past(n)' => Past(n) \/ statement = n
      BY <2>1, <2>2, <3>1 DEF Past, DatabricksInv
    <3>3. statement' \in 1..6
      BY <2>2, <3>1 DEF DatabricksInv
    <3>4. /\ "roleToUser" \in granted'
          /\ Past(3)' => "useDatabase" \in granted'
          /\ Past(4)' => "useSchema" \in granted'
          /\ Past(5)' => report' # "hidden" /\ "selectSchema" \in granted'
          /\ Past(6)' => "createTable" \in granted'
      BY <2>1, <2>6, <3>1, <3>2, DatabricksStatements DEF DatabricksInv
    <3>5. DatabricksInv'
      BY <3>3, <3>4 DEF DatabricksInv
    <3>. QED  BY <2>1, <2>6, <3>3, <3>5 DEF ProvisionInv
  <2>. QED  BY <2>4, <2>5, <2>6 DEF ProvisionInv
<1>4. CASE ProvisionFails
  BY <1>4 DEF ProvisionFails, ProvisionInv, SnowflakeInv, DatabricksInv, Past
<1>5. CASE KeyReplaced
  <2>1. key'.read = key.read /\ key'.user = key.user
    BY <1>5, KeysFields DEF KeyReplaced
  <2>. QED  BY <1>5, <2>1 DEF KeyReplaced, ProvisionInv, SnowflakeInv, Past
<1>6. CASE ReportCreated
  BY <1>6 DEF ReportCreated, Cloud, ProvisionInv, SnowflakeInv, DatabricksInv, Past
<1>7. \/ UNCHANGED <<warehouse, provisionVars>>
      \/ ProvisionStarts \/ ProvisionStep \/ ProvisionFails
      \/ KeyReplaced \/ ReportCreated
  <2>1. ASSUME NEW s \in Scripts, SeedStep(s) PROVE warehouse' = warehouse
    BY <2>1, StatementAndLock
  <2>2. SeedNext => warehouse' = warehouse
    BY <2>1 DEF SeedNext, StartsSeed, SeedRefused, SeedFails
  <2>. QED
    BY <2>2 DEF WarehouseNext, ProvisionNext, warehouseVars, seedVars
<1>. QED  BY <1>1, <1>2, <1>3, <1>4, <1>5, <1>6, <1>7

(* A bootstrap that ends normally has provisioned the app, after any       *)
(* number of runs that broke off, of key pairs made at any time and of     *)
(* tables created by others: the user has the key that the run has read    *)
(* (the one of the file unless that has been replaced since), and its role *)
(* the use of the warehouse and of the schema, CREATE TABLE, and every     *)
(* table to read.                                                          *)
THEOREM BootstrapProvisions == WarehouseSpec => []ProvisionedIsUsable
<1>1. ProvisionInv => ProvisionedIsUsable
  BY DEF ProvisionInv, SnowflakeInv, DatabricksInv, Past, ProvisionedIsUsable,
         LogsIn, MayUse, MayCreate, Cloud
<1>. QED
  BY <1>1, ProvisionInvInit, ProvisionInvStep, PTL DEF WarehouseSpec
=============================================================================
