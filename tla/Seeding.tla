------------------------------ MODULE Seeding -------------------------------
(***************************************************************************)
(* data/generator.py and the three seed scripts: three tables dropped,     *)
(* created and filled, statement by statement, without a transaction, on a *)
(* DuckDB file, on Snowflake or on Databricks.  A run may end after any    *)
(* statement; somebody then runs the script again.  Several people may run *)
(* it: a cloud warehouse lets their statements mix, a DuckDB file is open  *)
(* in one process at a time (module WarehouseSessions has the others).     *)
(*                                                                         *)
(* A row is its key and the key it refers to; the other columns are data.  *)
(***************************************************************************)
EXTENDS Provisioning

CONSTANTS
    Scripts,        \* processes that run seed(), again and again
    NumProducts,    \* num_products
    NumOrders,      \* num_orders
    Absent,         \* in place of a table that does not exist
    NoOne           \* in place of a process

ASSUME SeedingAssumption ==
    /\ NumProducts \in Nat \ {0} /\ NumOrders \in Nat \ {0}
    /\ NoOne \notin Scripts
    /\ Absent \notin Seq([key : Nat, ref : Nat])

VARIABLES
    dataset,        \* what generate() returns, the same in every run
    table,          \* the tables
    run,            \* run[s]: state of the last run of s
    step,           \* step[s]: its next statement
    holder,         \* the process that has the DuckDB file open
    alone,          \* history: the run under way has met no other
    mixed           \* history: runs met, and none has ended alone since

historyVars == <<alone, mixed>>
seedVars == <<warehouse, dataset, table, run, step, failures, holder, historyVars>>

Table == {"products", "orders", "settlements"}

(* `references` in SCHEMA_SQL, which also is what a row's ref means. *)
Parent == [t \in {"orders", "settlements"} |->
              IF t = "orders" THEN "products" ELSE "orders"]

-----------------------------------------------------------------------------
(* generate() *)

(* The random choices: a product for every order, and which orders have a  *)
(* settlement, about nine in ten.                                          *)
Datasets == [product : [1..NumOrders -> 1..NumProducts],
             settled : (SUBSET (1..NumOrders)) \ {{}}]

(* settlement_id counts the settled orders up, in the order of order_id. *)
SettledOrder(id) ==
    CHOOSE o \in dataset.settled :
        Cardinality({p \in dataset.settled : p <= o}) = id

Rows(t) ==
    CASE t = "products" ->
            [i \in 1..NumProducts |-> [key |-> i, ref |-> 0]]
      [] t = "orders" ->
            [i \in 1..NumOrders |-> [key |-> i, ref |-> dataset.product[i]]]
      [] t = "settlements" ->
            [i \in 1..Cardinality(dataset.settled) |->
                [key |-> i, ref |-> SettledOrder(i)]]

-----------------------------------------------------------------------------
(* seed() *)

ScriptParentsDroppedFirst ==
    << <<"drop", "products">>, <<"drop", "orders">>, <<"drop", "settlements">>,
       <<"create", "products">>, <<"create", "orders">>, <<"create", "settlements">>,
       <<"insert", "products">>, <<"insert", "orders">>, <<"insert", "settlements">> >>

ScriptOrdersFilledLast ==
    << <<"drop", "settlements">>, <<"drop", "orders">>, <<"drop", "products">>,
       <<"create", "products">>, <<"create", "orders">>, <<"create", "settlements">>,
       <<"insert", "products">>, <<"insert", "settlements">>, <<"insert", "orders">> >>

Script ==
    << <<"drop", "settlements">>, <<"drop", "orders">>, <<"drop", "products">>,
       <<"create", "products">>, <<"create", "orders">>, <<"create", "settlements">>,
       <<"insert", "products">>, <<"insert", "orders">>, <<"insert", "settlements">> >>

SeedTypeOK ==
    /\ dataset \in Datasets
    /\ \A t \in Table :
          \/ table[t] = Absent
          \/ table[t] \in Seq([key : Nat, ref : 0..NumProducts + NumOrders])
    /\ run \in [Scripts -> {"none", "running", "failed", "done"}]
    /\ step \in [Scripts -> 1..Len(Script) + 1]
    /\ \A s \in Scripts : run[s] = "running" => step[s] <= Len(Script)
    /\ alone \in BOOLEAN /\ mixed \in BOOLEAN

(* An empty warehouse. *)
SeedInit ==
    /\ dataset \in Datasets
    /\ table = [t \in Table |-> Absent]
    /\ run = [s \in Scripts |-> "none"] /\ step = [s \in Scripts |-> 1]
    /\ holder = NoOne
    /\ alone = TRUE /\ mixed = FALSE

Running == {s \in Scripts : run[s] = "running"}

(* duckdb.connect(): the file is locked until close(), or the end of the   *)
(* process.  A cloud warehouse is open to all who may log in.              *)
Connectable == LogsIn /\ (warehouse = "duckdb" => holder = NoOne)

Connects(p) == holder' = IF warehouse = "duckdb" THEN p ELSE holder

Disconnects(p) == holder' = IF holder = p THEN NoOne ELSE holder

StartsWithoutLock(s) ==
    /\ run[s] # "running"
    /\ run' = [run EXCEPT ![s] = "running"] /\ step' = [step EXCEPT ![s] = 1]
    /\ alone' = (Running = {})
    /\ mixed' = (mixed \/ Running # {})
    /\ UNCHANGED <<warehouse, dataset, table, failures, holder>>

(* The script is started, for the first time or again. *)
StartsSeed(s) ==
    /\ run[s] # "running" /\ Connectable
    /\ Connects(s)
    /\ run' = [run EXCEPT ![s] = "running"] /\ step' = [step EXCEPT ![s] = 1]
    /\ alone' = (Running = {})
    /\ mixed' = (mixed \/ Running # {})
    /\ UNCHANGED <<warehouse, dataset, table, failures>>

(* Another process has the file, or the login is refused. *)
SeedRefused(s) ==
    /\ run[s] # "running" /\ ~Connectable
    /\ run' = [run EXCEPT ![s] = "failed"]
    /\ UNCHANGED <<warehouse, dataset, table, step, failures, holder, historyVars>>

At(s, op, t) == run[s] = "running" /\ Script[step[s]] = <<op, t>>

AdvancePastTheEnd(s) ==
    /\ step' = [step EXCEPT ![s] = @ + 1]
    /\ UNCHANGED <<warehouse, dataset, run, failures, holder, historyVars>>

(* After the last statement the connection is closed and the script ends.  *)
Advance(s) ==
    /\ step' = [step EXCEPT ![s] = @ + 1]
    /\ IF step[s] < Len(Script)
          THEN UNCHANGED <<run, holder, mixed>>
          ELSE /\ run' = [run EXCEPT ![s] = "done"]
               /\ Disconnects(s)
               /\ mixed' = (mixed /\ ~alone)
    /\ UNCHANGED <<warehouse, dataset, failures, alone>>

(* DuckDB refuses to drop a table that another one refers to. *)
Droppable(t) ==
    /\ MayUse
    /\ warehouse = "duckdb" =>
          \A u \in DOMAIN Parent : Parent[u] = t => table[u] = Absent

Drops(s, t) ==
    /\ At(s, "drop", t) /\ Droppable(t)
    /\ table' = [table EXCEPT ![t] = Absent]
    /\ Advance(s)

(* No "if not exists".  On Databricks the tables refer to nothing. *)
Creatable(t) ==
    /\ MayCreate /\ table[t] = Absent
    /\ warehouse # "databricks" /\ t \in DOMAIN Parent => table[Parent[t]] # Absent

Creates(s, t) ==
    /\ At(s, "create", t) /\ Creatable(t)
    /\ table' = [table EXCEPT ![t] = <<>>]
    /\ Advance(s)

(* DuckDB checks what a row refers to; the other two do not. *)
NextRow(t) == Rows(t)[Len(table[t]) + 1]

Insertable(t) ==
    /\ table[t] # Absent
    /\ warehouse = "duckdb" /\ t \in DOMAIN Parent =>
          \E j \in DOMAIN table[Parent[t]] : table[Parent[t]][j].key = NextRow(t).ref

(* A cloud warehouse gets all rows of a table in one statement. *)
InsertsAll(s, t) ==
    /\ At(s, "insert", t) /\ Insertable(t) /\ warehouse # "duckdb"
    /\ table' = [table EXCEPT ![t] = @ \o Rows(t)]
    /\ Advance(s)

(* DuckDB commits row by row. *)
InsertsRow(s, t) ==
    /\ At(s, "insert", t) /\ Insertable(t) /\ warehouse = "duckdb"
    /\ table' = [table EXCEPT ![t] = Append(@, NextRow(t))]
    /\ IF Len(table[t]) + 1 = Len(Rows(t))
          THEN Advance(s)
          ELSE UNCHANGED <<warehouse, dataset, run, step, failures, holder, historyVars>>

Accepted(s) ==
    \A t \in Table :
        /\ At(s, "drop", t) => Droppable(t)
        /\ At(s, "create", t) => Creatable(t)
        /\ At(s, "insert", t) => Insertable(t)

SeedFailsAndGoesOn(s) ==
    /\ run[s] = "running"
    /\ failures' = IF Accepted(s) THEN failures + 1 ELSE failures
    /\ failures' <= MaxFailures
    /\ step' = [step EXCEPT ![s] = @ + 1]
    /\ run' = [run EXCEPT ![s] = IF step[s] = Len(Script) THEN "done" ELSE @]
    /\ UNCHANGED <<warehouse, dataset, table, holder, historyVars>>

(* A statement raises, and the script ends in its exception: the warehouse *)
(* refuses it, or the connection is lost or the process killed, which is   *)
(* bounded.  (After the last statement there is nothing left to lose.)     *)
SeedFails(s) ==
    /\ run[s] = "running"
    /\ failures' = IF Accepted(s) THEN failures + 1 ELSE failures
    /\ failures' <= MaxFailures
    /\ run' = [run EXCEPT ![s] = "failed"]
    /\ Disconnects(s)
    /\ UNCHANGED <<warehouse, dataset, table, step, historyVars>>

SeedStep(s) ==
    \E t \in Table :
        Drops(s, t) \/ Creates(s, t) \/ InsertsAll(s, t) \/ InsertsRow(s, t)

SeedNext ==
    \E s \in Scripts : StartsSeed(s) \/ SeedRefused(s) \/ SeedStep(s) \/ SeedFails(s)

-----------------------------------------------------------------------------
(* Properties *)

(* Whatever reads the warehouse between two statements, or after a run     *)
(* that failed, finds no order without its product and no settlement       *)
(* without its order, also where nothing enforces it: the order in which   *)
(* seed() drops and fills keeps the joins of a question sound.  Runs that  *)
(* mix on a cloud warehouse can break it, until a run ends alone; on       *)
(* DuckDB none ever mix.                                                   *)
ReferentialIntegrity ==
    \/ mixed /\ warehouse # "duckdb"
    \/ \A t \in DOMAIN Parent :
           table[t] # Absent =>
               \A i \in DOMAIN table[t] :
                   /\ table[Parent[t]] # Absent
                   /\ \E j \in DOMAIN table[Parent[t]] :
                         table[Parent[t]][j].key = table[t][i].ref

(* A script that ends normally, and met no other, has left exactly the     *)
(* data set, whatever the runs before it left behind, broken off or mixed: *)
(* the backends are interchangeable (generator.py 3-6).                    *)
SeedIsWhole ==
    [][\A s \in Scripts :
          run[s] = "running" /\ run'[s] = "done" /\ (alone \/ warehouse = "duckdb")
              => \A t \in Table : table'[t] = Rows(t)]_seedVars
=============================================================================
