---------------------------- MODULE Provisioning ----------------------------
(***************************************************************************)
(* infra/snowflake_bootstrap.py and infra/databricks_bootstrap.py: an      *)
(* administrator's script that creates, statement by statement, what the   *)
(* app needs on a cloud warehouse.  It may break off after any statement,  *)
(* and is then run again; meanwhile other roles use the same schema.       *)
(***************************************************************************)
EXTENDS Naturals, Sequences, FiniteSets

CONSTANTS
    Warehouses,     \* the backends considered
    MaxFailures,    \* bound: runs of any script that fail from outside
    MaxKeys         \* bound: key pairs made for the app's user

ASSUME ProvisioningAssumption ==
    /\ Warehouses \subseteq {"duckdb", "snowflake", "databricks"}
    /\ MaxFailures \in Nat /\ MaxKeys \in Nat \ {0}

VARIABLES
    warehouse,      \* the backend
    admin,          \* the last run of the bootstrap
    statement,      \* its next statement
    granted,        \* the objects and grants that exist
    report,         \* another role's table: "absent", "hidden" from the app's
                    \* role, or "visible" to it
    key,            \* the app user's public keys: in the .secrets file, the
                    \* one the bootstrap has read, the one the user has
    failures        \* failures so far

provisionVars == <<admin, statement, granted, report, key>>

Cloud == warehouse # "duckdb"

-----------------------------------------------------------------------------
(* STATEMENTS and the three that follow; `statements` *)

StatementsAllFirst ==
    IF warehouse = "snowflake"
       THEN <<"database", "schema", "role", "useWarehouse", "useDatabase",
              "useSchema", "createTable", "selectAll", "selectFuture",
              "user", "alterKey", "roleToUser">>
       ELSE <<"database", "schema", "useDatabase", "useSchema",
              "selectSchema", "createTable">>

Statements ==
    IF warehouse = "snowflake"
       THEN <<"database", "schema", "role", "useWarehouse", "useDatabase",
              "useSchema", "createTable", "selectFuture", "selectAll",
              "user", "alterKey", "roleToUser">>
       ELSE <<"database", "schema", "useDatabase", "useSchema",
              "selectSchema", "createTable">>

(* The Databricks service principal is made in the workspace's own UI. *)
Given == IF warehouse = "databricks" THEN {"role", "user", "roleToUser"} ELSE {}

(* What a statement names must exist. *)
Needs(g) ==
    CASE g = "schema" -> {"database"}
      [] g \in {"useWarehouse", "useDatabase"} -> {"database", "role"}
      [] g \in {"useSchema", "createTable", "selectFuture",
                "selectAll", "selectSchema"} -> {"schema", "role"}
      [] g = "alterKey" -> {"user"}
      [] g = "roleToUser" -> {"role", "user"}
      [] OTHER -> {}

Keys(file, read, user) == [file |-> file, read |-> read, user |-> user]

ProvisionTypeOK ==
    /\ warehouse \in Warehouses
    /\ admin \in {"none", "running", "failed", "done"}
    /\ statement \in 1..Len(Statements)
    /\ granted \subseteq Given \cup {Statements[i] : i \in 1..Len(Statements)}
    /\ report \in {"absent", "hidden", "visible"}
    /\ key \in [file : 1..MaxKeys, read : 0..MaxKeys, user : 0..MaxKeys]
    /\ failures \in 0..MaxFailures

ProvisionInit ==
    /\ warehouse \in Warehouses /\ admin = "none" /\ statement = 1
    /\ granted = Given /\ report = "absent" /\ failures = 0
    /\ key = Keys(1, 0, 0)

-----------------------------------------------------------------------------
(* main() *)

(* Bound: a run that has ended normally is the last. *)
ProvisionStarts ==
    /\ Cloud /\ admin \in {"none", "failed"}
    /\ admin' = "running" /\ statement' = 1
    /\ key' = Keys(key.file, key.file, key.user)
    /\ UNCHANGED <<warehouse, granted, report, failures>>

(* Everything is created `if not exists`, and a grant may be repeated; the *)
(* user's key is also set by a statement of its own.                       *)
ProvisionStep ==
    LET g == Statements[statement] IN
    /\ admin = "running" /\ Needs(g) \subseteq granted
    /\ granted' = granted \cup {g}
    /\ report' = IF g \in {"selectAll", "selectSchema"} /\ report = "hidden"
                    THEN "visible" ELSE report
    /\ key' = IF g = "alterKey" \/ (g = "user" /\ g \notin granted)
                 THEN Keys(key.file, key.read, key.read) ELSE key
    /\ IF statement < Len(Statements)
          THEN statement' = statement + 1 /\ UNCHANGED admin
          ELSE admin' = "done" /\ UNCHANGED statement
    /\ UNCHANGED <<warehouse, failures>>

ProvisionFails ==
    /\ admin = "running" /\ failures < MaxFailures
    /\ admin' = "failed" /\ failures' = failures + 1
    /\ UNCHANGED <<warehouse, statement, granted, report, key>>

-----------------------------------------------------------------------------
(* What happens around it *)

(* A new key pair, at any time: also after main() has read the old one and *)
(* while it waits for the administrator's login, or runs its statements.   *)
KeyReplaced ==
    /\ warehouse = "snowflake" /\ key.file < MaxKeys
    /\ key' = Keys(key.file + 1, key.read, key.user)
    /\ UNCHANGED <<warehouse, admin, statement, granted, report, failures>>

(* Another role creates a table in the schema. *)
ReportCreated ==
    /\ Cloud /\ "schema" \in granted /\ report = "absent"
    /\ report' = IF granted \cap {"selectFuture", "selectSchema"} = {}
                    THEN "hidden" ELSE "visible"
    /\ UNCHANGED <<warehouse, admin, statement, granted, key, failures>>

ProvisionNext ==
    \/ ProvisionStarts \/ ProvisionStep \/ ProvisionFails
    \/ KeyReplaced \/ ReportCreated

-----------------------------------------------------------------------------
(* What the app's processes may do *)

LogsIn ==
    /\ Cloud => "roleToUser" \in granted
    /\ warehouse = "snowflake" => key.user = key.file

MayUse ==
    /\ Cloud => {"useDatabase", "useSchema"} \subseteq granted
    /\ warehouse = "snowflake" => "useWarehouse" \in granted

MayCreate == Cloud => "createTable" \in granted

(* A bootstrap that ends normally has provisioned the app, whatever runs   *)
(* broke off before it and whatever tables others created meanwhile: the   *)
(* app's user has the key that this run has read, and so logs in with the  *)
(* key of the file unless that has been replaced since; it may use the     *)
(* warehouse and the schema, create the tables of the seed, and read every *)
(* table of the schema.  (CREATE TABLE is granted on purpose, for the seed *)
(* scripts, although src/README.md:125 calls the role "SELECT-only".)      *)
ProvisionedIsUsable ==
    admin = "done" =>
        /\ warehouse = "snowflake" => key.user = key.read
        /\ key.file = key.read \/ warehouse # "snowflake" => LogsIn
        /\ MayUse /\ MayCreate /\ report # "hidden"
=============================================================================
