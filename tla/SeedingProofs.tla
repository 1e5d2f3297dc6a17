--------------------------- MODULE SeedingProofs ----------------------------
(***************************************************************************)
(* Proofs about the seed scripts, for any numbers of products, orders,     *)
(* scripts and sessions: what a script leaves behind, and what readers     *)
(* find in between.                                                        *)
(***************************************************************************)
EXTENDS WarehouseProofs, SequenceTheorems, FiniteSetTheorems, WellFoundedInduction

-----------------------------------------------------------------------------
(* The data set *)

LEMMA LeastNatural ==
    ASSUME NEW T \in SUBSET Nat, T # {}
    PROVE  \E n \in T : \A m \in T : n <= m
<1>1. \E n \in T : \A m \in T : ~ (<<m, n>> \in OpToRel(<, Nat))
  BY WFMin, NatLessThanWellFounded, Zenon
<1>2. PICK n \in T : \A m \in T : ~ (<<m, n>> \in OpToRel(<, Nat))
  BY <1>1
<1>3. \A m \in T : ~ (m < n)
  BY <1>2 DEF OpToRel
<1>. QED  BY <1>3

(* Counting a set of numbers upwards meets every rank. *)
LEMMA EveryRankIsMet ==
    ASSUME NEW N \in Nat, NEW S \in SUBSET (1..N), NEW id \in 1..Cardinality(S)
    PROVE  \E o \in S : Cardinality({p \in S : p <= o}) = id
<1>. DEFINE UpTo(n) == {p \in S : p <= n}
            T == {n \in Nat : Cardinality(UpTo(n)) >= id}
<1>0. S \subseteq 1..N /\ \A o \in S : o \in Nat /\ o >= 1 /\ o <= N
  OBVIOUS
<1>1. IsFiniteSet(S) /\ Cardinality(S) \in Nat /\ id \in Nat \ {0}
  <2>1. IsFiniteSet(1..N)
    BY FS_Interval
  <2>2. IsFiniteSet(S)
    BY <2>1, FS_Subset
  <2>. QED  BY <2>2, FS_CardinalityType
<1>2. ASSUME NEW n \in Nat
      PROVE  IsFiniteSet(UpTo(n)) /\ Cardinality(UpTo(n)) \in Nat
  <2>1. UpTo(n) \subseteq S
    OBVIOUS
  <2>. QED  BY <1>1, <2>1, FS_Subset, FS_CardinalityType
<1>3. N \in T
  <2>1. UpTo(N) = S
    BY <1>0
  <2>. QED  BY <2>1, <1>1
<1>4. PICK n \in T : \A m \in T : n <= m
  <2>. HIDE DEF T
  <2>1. T \subseteq Nat
    BY DEF T
  <2>. QED  BY <1>3, <2>1, LeastNatural
<1>5. n \in Nat /\ Cardinality(UpTo(n)) >= id
  OBVIOUS
<1>6. n # 0
  <2>0. \A o \in S : ~ (o <= 0)
    BY <1>0
  <2>1. UpTo(0) = {}
    BY <2>0, Zenon
  <2>2. Cardinality(UpTo(0)) = 0
    BY <2>1, FS_EmptySet
  <2>. QED  BY <1>1, <1>5, <2>2
<1>7. n - 1 \in Nat /\ Cardinality(UpTo(n - 1)) < id
  <2>1. n - 1 \in Nat
    BY <1>5, <1>6
  <2>2. n - 1 \notin T
    <3>. HIDE DEF T
    <3>. QED  BY <1>4, <1>5
  <2>3. Cardinality(UpTo(n - 1)) \in Nat
    BY <1>2, <2>1
  <2>. QED  BY <1>1, <2>1, <2>2, <2>3
<1>8. \A o \in S : o <= n <=> (o <= n - 1 \/ o = n)
  BY <1>0, <1>5
<1>9. n \in S
  <2>. SUFFICES ASSUME n \notin S PROVE FALSE
    OBVIOUS
  <2>1. UpTo(n) = UpTo(n - 1)
    BY <1>8
  <2>2. Cardinality(UpTo(n)) < id
    BY <2>1, <1>7
  <2>. HIDE DEF UpTo
  <2>. QED  BY <2>2, <1>1, <1>2, <1>5
<1>10. Cardinality(UpTo(n)) = id
  <2>0. ~ (n <= n - 1)
    BY <1>5
  <2>1. UpTo(n) = UpTo(n - 1) \cup {n} /\ n \notin UpTo(n - 1)
    BY <1>8, <1>9, <2>0, Zenon
  <2>2. IsFiniteSet(UpTo(n - 1)) /\ Cardinality(UpTo(n - 1)) \in Nat
    BY <1>2, <1>7
  <2>. HIDE DEF UpTo
  <2>3. Cardinality(UpTo(n - 1) \cup {n}) = Cardinality(UpTo(n - 1)) + 1
    BY <2>1, <2>2, FS_AddElement
  <2>. QED  BY <1>1, <1>5, <1>7, <2>1, <2>2, <2>3
<1>. QED  BY <1>9, <1>10

Row == [key : Nat, ref : 0..NumProducts + NumOrders]

Filled(rows, n) ==
    /\ rows \in Seq(Row) /\ Len(rows) = n
    /\ \A i \in 1..n : rows[i].key = i

LEMMA FilledRows ==
    ASSUME NEW n \in Nat, NEW r, \A i \in 1..n : r[i] \in Row /\ r[i].key = i,
           r = [i \in 1..n |-> r[i]]
    PROVE  Filled(r, n)
BY DEF Filled

LEMMA SettledOrders ==
    ASSUME dataset \in Datasets, NEW id \in 1..Cardinality(dataset.settled)
    PROVE  SettledOrder(id) \in 1..NumOrders
<1>1. dataset.settled \in SUBSET (1..NumOrders) /\ NumOrders \in Nat
  BY SeedingAssumption DEF Datasets
<1>2. \E o \in dataset.settled : Cardinality({p \in dataset.settled : p <= o}) = id
  BY <1>1, EveryRankIsMet
<1>3. SettledOrder(id) \in dataset.settled
  BY <1>2 DEF SettledOrder
<1>. QED  BY <1>1, <1>3

LEMMA RowsOfDataset ==
    ASSUME dataset \in Datasets
    PROVE  /\ Filled(Rows("products"), NumProducts)
           /\ Filled(Rows("orders"), NumOrders)
           /\ \A i \in 1..NumOrders : Rows("orders")[i].ref \in 1..NumProducts
           /\ \E n \in Nat \ {0} :
                 /\ Filled(Rows("settlements"), n)
                 /\ \A i \in 1..n : Rows("settlements")[i].ref \in 1..NumOrders
<1>. USE SeedingAssumption
<1>1. Filled(Rows("products"), NumProducts)
  <2>1. Rows("products") = [i \in 1..NumProducts |-> [key |-> i, ref |-> 0]]
    BY DEF Rows
  <2>. HIDE DEF Row
  <2>2. \A i \in 1..NumProducts : [key |-> i, ref |-> 0] \in Row
    BY DEF Row
  <2>. QED  BY <2>1, <2>2, FilledRows
<1>2. /\ Filled(Rows("orders"), NumOrders)
      /\ \A i \in 1..NumOrders : Rows("orders")[i].ref \in 1..NumProducts
  <2>1. Rows("orders") = [i \in 1..NumOrders |-> [key |-> i, ref |-> dataset.product[i]]]
    BY DEF Rows
  <2>2. \A i \in 1..NumOrders : dataset.product[i] \in 1..NumProducts
    BY DEF Datasets
  <2>3. \A i \in 1..NumOrders : [key |-> i, ref |-> dataset.product[i]] \in Row
    BY <2>2 DEF Row
  <2>. QED  BY <2>1, <2>2, <2>3, FilledRows
<1>. DEFINE n == Cardinality(dataset.settled)
<1>3. n \in Nat \ {0}
  <2>0. dataset.settled \in (SUBSET (1..NumOrders)) \ {{}}
    BY DEF Datasets
  <2>1. dataset.settled \subseteq 1..NumOrders /\ dataset.settled # {}
    BY <2>0
  <2>2. IsFiniteSet(1..NumOrders)
    BY FS_Interval
  <2>3. IsFiniteSet(dataset.settled)
    BY <2>1, <2>2, FS_Subset
  <2>. QED  BY <2>1, <2>3, FS_CardinalityType, FS_EmptySet
<1>4. \A i \in 1..n : SettledOrder(i) \in 1..NumOrders
  BY SettledOrders
<1>5. Rows("settlements") = [i \in 1..n |-> [key |-> i, ref |-> SettledOrder(i)]]
  BY DEF Rows
<1>6. /\ Filled(Rows("settlements"), n)
      /\ \A i \in 1..n : Rows("settlements")[i].ref \in 1..NumOrders
  <2>. HIDE DEF n
  <2>1. \A i \in 1..n : [key |-> i, ref |-> SettledOrder(i)] \in Row
    BY <1>4 DEF Row
  <2>. QED  BY <1>3, <1>4, <1>5, <2>1, FilledRows
<1>. QED  BY <1>1, <1>2, <1>3, <1>6

LEMMA RowsLengths ==
    ASSUME dataset \in Datasets, NEW t \in Table
    PROVE  Rows(t) \in Seq(Row) /\ Len(Rows(t)) \in Nat \ {0}
BY RowsOfDataset, SeedingAssumption DEF Filled, Table

-----------------------------------------------------------------------------
(* A run that meets no other *)

FirstRows(t) ==
    /\ Len(table[t]) <= Len(Rows(t))
    /\ \A i \in 1..Len(table[t]) : table[t][i] = Rows(t)[i]

(* While it is filled a table holds the first of its rows, on DuckDB, and  *)
(* on the cloud warehouses none yet.                                       *)
Filling(t) ==
    /\ table[t] \in Seq(Row)
    /\ FirstRows(t) /\ Len(table[t]) < Len(Rows(t))
    /\ Cloud => table[t] = <<>>

(* What the tables are when s is about to execute statement step[s]: what  *)
(* is not stated has been left behind by earlier runs.                     *)
Exact(s) ==
    /\ step[s] \in 2..6 => table["settlements"] = Absent
    /\ step[s] \in 3..5 => table["orders"] = Absent
    /\ step[s] = 4 => table["products"] = Absent
    /\ step[s] \in 5..6 => table["products"] = <<>>
    /\ step[s] \in 6..7 => table["orders"] = <<>>
    /\ step[s] \in 7..8 => table["settlements"] = <<>>
    /\ step[s] = 7 => Filling("products")
    /\ step[s] \in 8..9 => table["products"] = Rows("products")
    /\ step[s] = 8 => Filling("orders")
    /\ step[s] = 9 => table["orders"] = Rows("orders")
    /\ step[s] = 9 => Filling("settlements")

Sound ==
    \A t \in DOMAIN Parent :
        table[t] # Absent =>
            \A i \in DOMAIN table[t] :
                /\ table[Parent[t]] # Absent
                /\ \E j \in DOMAIN table[Parent[t]] :
                      table[Parent[t]][j].key = table[t][i].ref

SeedTyped ==
    /\ dataset \in Datasets
    /\ table \in [Table -> Seq(Row) \cup {Absent}]
    /\ run \in [Scripts -> {"none", "running", "failed", "done"}]
    /\ step \in [Scripts -> 1..10]
    /\ \A s \in Scripts : run[s] = "running" => step[s] \in 1..9
    /\ alone \in BOOLEAN /\ mixed \in BOOLEAN

(* Who has met whom: a run that has met no other is the only one, and      *)
(* where nothing has mixed every run is such.  Nothing mixes on DuckDB.    *)
Meetings ==
    /\ alone => \A r, s \in Running : r = s
    /\ ~mixed => alone \/ Running = {}
    /\ mixed => Cloud

SeedInv ==
    /\ SeedTyped /\ Meetings
    /\ \A s \in Running : alone => Exact(s)
    /\ ~mixed => Sound

LEMMA SeedInvInit == WarehouseInit => SeedInv
<1>. SUFFICES ASSUME WarehouseInit PROVE SeedInv
  OBVIOUS
<1>1. Running = {}
  BY DEF WarehouseInit, SeedInit, Running
<1>2. \A t \in Table : table[t] = Absent
  BY DEF WarehouseInit, SeedInit
<1>3. Sound
  BY <1>2 DEF Sound, Parent, Table
<1>4. table \in [Table -> Seq(Row) \cup {Absent}]
  <2>1. table = [t \in Table |-> Absent]
    BY DEF WarehouseInit, SeedInit
  <2>. QED  BY <2>1
<1>5. /\ run \in [Scripts -> {"none", "running", "failed", "done"}]
      /\ step \in [Scripts -> 1..10] /\ dataset \in Datasets
  BY DEF WarehouseInit, SeedInit
<1>6. SeedTyped
  BY <1>1, <1>4, <1>5 DEF WarehouseInit, SeedInit, SeedTyped, Running
<1>. QED  BY <1>1, <1>3, <1>6 DEF WarehouseInit, SeedInit, SeedInv, Meetings

LEMMA RowsStay ==
    ASSUME dataset' = dataset
    PROVE  \A t \in Table : Rows(t)' = Rows(t)
BY DEF Rows, SettledOrder

(* The statement that is next. *)
LEMMA StatementAt ==
    ASSUME NEW s \in Scripts, step[s] \in 1..9, NEW t \in Table
    PROVE  /\ At(s, "drop", t) =>
                  \/ step[s] = 1 /\ t = "settlements"
                  \/ step[s] = 2 /\ t = "orders"
                  \/ step[s] = 3 /\ t = "products"
           /\ At(s, "create", t) =>
                  \/ step[s] = 4 /\ t = "products"
                  \/ step[s] = 5 /\ t = "orders"
                  \/ step[s] = 6 /\ t = "settlements"
           /\ At(s, "insert", t) =>
                  \/ step[s] = 7 /\ t = "products"
                  \/ step[s] = 8 /\ t = "orders"
                  \/ step[s] = 9 /\ t = "settlements"
BY DEF At, Script, Table

LEMMA LastStatement == Len(Script) = 9
BY DEF Script

LEMMA TablesExist ==
    /\ \A rows \in Seq(Row) : rows # Absent
    /\ <<>> \in Seq(Row) /\ <<>> # Absent
<1>1. \A r \in Row : r \in [key : Nat, ref : Nat]
  BY SeedingAssumption DEF Row
<1>2. ASSUME NEW rows \in Seq(Row) PROVE rows # Absent
  <2>1. Row \subseteq [key : Nat, ref : Nat]
    BY <1>1, Zenon
  <2>2. rows \in Seq([key : Nat, ref : Nat])
    BY <2>1, SeqMonotonic
  <2>. QED  BY <2>2, SeedingAssumption
<1>3. <<>> \in Seq(Row)
  OBVIOUS
<1>. QED  BY <1>2, <1>3

(* The first rows of a table find what they refer to in a parent that is   *)
(* filled.                                                                 *)
FirstOf(rows, all, n, parent, m) ==
    /\ n \in Nat /\ m \in Nat /\ rows \in Seq(Row)
    /\ Filled(all, n) /\ Filled(parent, m)
    /\ \A i \in 1..n : all[i].ref \in 1..m
    /\ Len(rows) <= n /\ \A i \in 1..Len(rows) : rows[i] = all[i]

LEMMA FirstRowsRefer ==
    ASSUME NEW rows, NEW all, NEW n, NEW parent, NEW m,
           FirstOf(rows, all, n, parent, m)
    PROVE  /\ parent # Absent
           /\ \A i \in DOMAIN rows : \E j \in DOMAIN parent : parent[j].key = rows[i].ref
<1>1. parent # Absent /\ DOMAIN parent = 1..m
  BY TablesExist DEF FirstOf, Filled
<1>2. ASSUME NEW i \in DOMAIN rows PROVE rows[i].ref \in 1..m
  <2>1. i \in 1..n /\ rows[i] = all[i]
    BY DEF FirstOf
  <2>. QED  BY <2>1 DEF FirstOf
<1>3. \A j \in 1..m : parent[j].key = j
  BY DEF FirstOf, Filled
<1>. QED  BY <1>1, <1>2, <1>3

LEMMA FilledIsSound ==
    ASSUME SeedTyped,
           \A t \in {"orders", "settlements"} :
               \/ table[t] \in {Absent, <<>>}
               \/ FirstRows(t) /\ table[Parent[t]] = Rows(Parent[t])
    PROVE  Sound
<1>1. PICK n \in Nat : /\ Filled(Rows("settlements"), n)
                       /\ \A i \in 1..n : Rows("settlements")[i].ref \in 1..NumOrders
  BY RowsOfDataset DEF SeedTyped
<1>2. /\ Filled(Rows("products"), NumProducts) /\ Filled(Rows("orders"), NumOrders)
      /\ \A i \in 1..NumOrders : Rows("orders")[i].ref \in 1..NumProducts
      /\ NumProducts \in Nat /\ NumOrders \in Nat
  BY RowsOfDataset, SeedingAssumption DEF SeedTyped
<1>3. Parent["orders"] = "products" /\ Parent["settlements"] = "orders"
  BY DEF Parent
<1>4. ASSUME table["orders"] \notin {Absent, <<>>}
      PROVE  FirstOf(table["orders"], Rows("orders"), NumOrders,
                     table["products"], NumProducts)
  <2>1. FirstRows("orders") /\ table["products"] = Rows("products")
    BY <1>3, <1>4
  <2>2. table["orders"] \in Seq(Row)
    BY <1>4 DEF SeedTyped, Table
  <2>. QED  BY <1>2, <2>1, <2>2 DEF FirstOf, FirstRows, Filled
<1>5. ASSUME table["settlements"] \notin {Absent, <<>>}
      PROVE  FirstOf(table["settlements"], Rows("settlements"), n,
                     table["orders"], NumOrders)
  <2>1. FirstRows("settlements") /\ table["orders"] = Rows("orders")
    BY <1>3, <1>5
  <2>2. table["settlements"] \in Seq(Row)
    BY <1>5 DEF SeedTyped, Table
  <2>. QED  BY <1>1, <1>2, <2>1, <2>2 DEF FirstOf, FirstRows, Filled
<1>6. DOMAIN Parent = {"orders", "settlements"}
  BY DEF Parent
<1>7. ASSUME NEW t \in DOMAIN Parent, table[t] # Absent, NEW i \in DOMAIN table[t]
      PROVE  /\ table[Parent[t]] # Absent
             /\ \E j \in DOMAIN table[Parent[t]] :
                   table[Parent[t]][j].key = table[t][i].ref
  <2>1. table[t] \notin {Absent, <<>>}
    BY <1>7
  <2>. QED  BY <1>3, <1>4, <1>5, <1>6, <2>1, FirstRowsRefer
<1>. QED  BY <1>7 DEF Sound

SomeExact == \E s \in Scripts : step[s] \in 3..9 /\ Exact(s)

(* From the third statement on the contents that are known are sound. *)
LEMMA ExactIsSound == SeedTyped /\ SomeExact => Sound
<1>. SUFFICES ASSUME SeedTyped, SomeExact PROVE Sound
  OBVIOUS
<1>0. PICK s \in Scripts : step[s] \in 3..9 /\ Exact(s)
  BY DEF SomeExact
<1>1. \/ table["orders"] \in {Absent, <<>>}
      \/ FirstRows("orders") /\ table["products"] = Rows("products")
  BY <1>0, RowsLengths DEF SeedTyped, Table, Exact, Filling, FirstRows
<1>2. \/ table["settlements"] \in {Absent, <<>>}
      \/ FirstRows("settlements") /\ table["orders"] = Rows("orders")
  BY <1>0, RowsLengths DEF SeedTyped, Table, Exact, Filling, FirstRows
<1>. QED  BY <1>1, <1>2, FilledIsSound DEF Parent

LEMMA DoneIsSound ==
    SeedTyped /\ (\A t \in Table : table[t] = Rows(t)) => Sound
BY RowsLengths, FilledIsSound DEF SeedTyped, FirstRows, Parent, Table

-----------------------------------------------------------------------------
(* The statements *)

(* How far a script gets with a statement. *)
LEMMA AdvanceSteps ==
    ASSUME SeedTyped, NEW s \in Scripts, run[s] = "running", Advance(s)
    PROVE  /\ step' = [step EXCEPT ![s] = step[s] + 1]
           /\ step[s] < 9 => UNCHANGED <<run, holder, mixed>>
           /\ step[s] = 9 => run' = [run EXCEPT ![s] = "done"] /\ mixed' = (mixed /\ ~alone)
           /\ UNCHANGED <<warehouse, dataset, alone>>
BY LastStatement DEF Advance, SeedTyped

(* What a statement does to its table, and to the script's place.          *)
LEMMA StatementDone ==
    ASSUME SeedInv, NEW s \in Scripts, SeedStep(s)
    PROVE  /\ run[s] = "running" /\ step[s] \in 1..9
           /\ UNCHANGED <<warehouse, dataset, alone>>
           /\ \E t \in Table, rows \in Seq(Row) \cup {Absent} :
                 /\ table' = [table EXCEPT ![t] = rows]
                 /\ \/ /\ At(s, "drop", t) /\ rows = Absent
                       /\ Advance(s)
                    \/ /\ At(s, "create", t) /\ rows = <<>>
                       /\ Advance(s)
                    \/ /\ At(s, "insert", t) /\ (alone => Filling(t))
                       /\ rows = table[t] \o Rows(t) /\ Cloud
                       /\ Advance(s)
                    \/ /\ At(s, "insert", t) /\ Filling(t) /\ ~Cloud
                       /\ rows = Append(table[t], Rows(t)[Len(table[t]) + 1])
                       /\ IF Len(table[t]) + 1 = Len(Rows(t))
                             THEN Advance(s)
                             ELSE UNCHANGED <<run, step, holder, mixed>>
<1>. USE DEF SeedInv
<1>1. PICK t \in Table :
          Drops(s, t) \/ Creates(s, t) \/ InsertsAll(s, t) \/ InsertsRow(s, t)
  BY DEF SeedStep
<1>2. run[s] = "running" /\ s \in Running
  BY <1>1 DEF Drops, Creates, InsertsAll, InsertsRow, At, Running
<1>3. step[s] \in 1..9 /\ dataset \in Datasets
  BY <1>2 DEF SeedTyped
<1>4. UNCHANGED <<warehouse, dataset, alone>>
  BY <1>1 DEF Drops, Creates, InsertsAll, InsertsRow, Advance, historyVars
<1>5. Rows(t) \in Seq(Row) /\ Len(Rows(t)) \in Nat
  BY <1>3, RowsLengths
<1>6. table[t] \in Seq(Row) \cup {Absent}
  BY DEF SeedTyped
<1>7. At(s, "insert", t) /\ alone => Filling(t)
  BY <1>2, <1>3, StatementAt DEF Exact
<1>8. CASE Drops(s, t)
  BY <1>2, <1>3, <1>4, <1>8 DEF Drops
<1>9. CASE Creates(s, t)
  BY <1>2, <1>3, <1>4, <1>9, TablesExist DEF Creates
<1>10. CASE InsertsAll(s, t)
  <2>1. table[t] \in Seq(Row)
    BY <1>6, <1>10 DEF InsertsAll, Insertable
  <2>2. table[t] \o Rows(t) \in Seq(Row)
    BY <1>5, <2>1
  <2>. QED  BY <1>2, <1>3, <1>4, <1>7, <1>10, <2>2 DEF InsertsAll, Cloud
<1>11. CASE InsertsRow(s, t)
  <2>1. ~Cloud /\ alone
    BY <1>2, <1>11 DEF InsertsRow, Cloud, Meetings
  <2>2. Filling(t) /\ table[t] \in Seq(Row)
    BY <1>7, <1>11, <2>1 DEF InsertsRow, Filling
  <2>3. Rows(t)[Len(table[t]) + 1] \in Row
    BY <1>5, <2>2 DEF Filling
  <2>4. Append(table[t], Rows(t)[Len(table[t]) + 1]) \in Seq(Row)
    BY <2>2, <2>3
  <2>. QED
    BY <1>2, <1>3, <1>4, <1>11, <2>1, <2>2, <2>4
       DEF InsertsRow, NextRow, historyVars
<1>. QED  BY <1>1, <1>8, <1>9, <1>10, <1>11

(* A statement of a run that meets no other leaves the tables as the next  *)
(* one expects them, and the last one leaves the data set.                 *)
LEMMA ExactStep ==
    ASSUME SeedInv, NEW s \in Scripts, SeedStep(s), alone
    PROVE  IF step[s] = 9 /\ run'[s] = "done"
              THEN \A t \in Table : table'[t] = Rows(t)
              ELSE Exact(s)' /\ run'[s] = "running" /\ step'[s] \in 2..9
<1>1. /\ SeedTyped /\ run[s] = "running" /\ step[s] \in 1..9 /\ Exact(s)
      /\ UNCHANGED <<warehouse, dataset, alone>>
  BY StatementDone DEF SeedInv, Running
<1>2. PICK t \in Table, rows \in Seq(Row) \cup {Absent} :
          /\ table' = [table EXCEPT ![t] = rows]
          /\ \/ /\ At(s, "drop", t) /\ rows = Absent
                /\ Advance(s)
             \/ /\ At(s, "create", t) /\ rows = <<>>
                /\ Advance(s)
             \/ /\ At(s, "insert", t) /\ (alone => Filling(t))
                /\ rows = table[t] \o Rows(t) /\ Cloud
                /\ Advance(s)
             \/ /\ At(s, "insert", t) /\ Filling(t) /\ ~Cloud
                /\ rows = Append(table[t], Rows(t)[Len(table[t]) + 1])
                /\ IF Len(table[t]) + 1 = Len(Rows(t))
                      THEN Advance(s)
                      ELSE UNCHANGED <<run, step, holder, mixed>>
  BY StatementDone
<1>3. /\ table'[t] = rows
      /\ \A u \in Table : u # t => table'[u] = table[u]
      /\ \A u \in Table : Rows(u)' = Rows(u)
      /\ \A u \in Table : Rows(u) \in Seq(Row) /\ Len(Rows(u)) \in Nat \ {0}
      /\ \A u \in Table : table[u] \in Seq(Row) \cup {Absent}
      /\ Cloud' = Cloud
  BY <1>1, <1>2, RowsStay, RowsLengths DEF SeedTyped, Cloud
<1>4. Advance(s) =>
          /\ step'[s] = step[s] + 1
          /\ step[s] < 9 => run'[s] = "running"
          /\ step[s] = 9 => run'[s] = "done"
  BY <1>1, AdvanceSteps DEF SeedTyped
<1>5. CASE At(s, "drop", t) /\ rows = Absent /\ Advance(s)
  <2>1. /\ step[s] \in 1..3 /\ step'[s] = step[s] + 1 /\ run'[s] = "running"
        /\ step[s] = 1 => t = "settlements"
        /\ step[s] = 2 => t = "orders"
        /\ step[s] = 3 => t = "products"
    BY <1>1, <1>4, <1>5, StatementAt
  <2>2. /\ table'[t] = Absent
        /\ \A u \in {"products", "orders", "settlements"} : u # t => table'[u] = table[u]
    BY <1>3, <1>5 DEF Table
  <2>3. Exact(s)'
    BY <1>1, <2>1, <2>2 DEF Exact
  <2>. QED  BY <2>1, <2>3
<1>6. CASE At(s, "create", t) /\ rows = <<>> /\ Advance(s)
  <2>1. step[s] \in 4..6 /\ step'[s] = step[s] + 1 /\ run'[s] = "running"
    BY <1>1, <1>4, <1>6, StatementAt
  <2>2. ASSUME NEW u \in Table, table'[u] = <<>>
        PROVE  Filling(u)'
    BY <1>3, <2>2, TablesExist DEF Filling, FirstRows
  <2>3. CASE step[s] = 4
    <3>1. t = "products"
      BY <1>1, <1>6, <2>3, StatementAt
    <3>. QED  BY <1>1, <1>3, <1>6, <2>1, <2>3, <3>1 DEF Exact, Table
  <2>4. CASE step[s] = 5
    <3>1. t = "orders"
      BY <1>1, <1>6, <2>4, StatementAt
    <3>. QED  BY <1>1, <1>3, <1>6, <2>1, <2>4, <3>1 DEF Exact, Table
  <2>5. CASE step[s] = 6
    <3>1. t = "settlements"
      BY <1>1, <1>6, <2>5, StatementAt
    <3>2. Filling("products")'
      BY <1>1, <1>3, <2>2, <2>5, <3>1 DEF Exact, Table
    <3>. QED  BY <1>1, <1>3, <1>6, <2>1, <2>5, <3>1, <3>2 DEF Exact, Table
  <2>. QED  BY <2>1, <2>3, <2>4, <2>5
<1>7. CASE /\ At(s, "insert", t) /\ Filling(t) /\ Advance(s) /\ rows = Rows(t)
  <2>1. step[s] \in 7..9
    BY <1>1, <1>7, StatementAt
  <2>2. ASSUME NEW u \in Table, table'[u] = <<>>
        PROVE  Filling(u)'
    BY <1>3, <2>2, TablesExist DEF Filling, FirstRows
  <2>3. CASE step[s] = 7
    <3>1. step'[s] = 8 /\ run'[s] = "running" /\ t = "products"
      BY <1>1, <1>4, <1>7, <2>3, StatementAt
    <3>2. Filling("orders")'
      BY <1>1, <1>3, <2>2, <2>3, <3>1 DEF Exact, Table
    <3>3. Exact(s)'
      BY <1>1, <1>3, <1>7, <2>3, <3>1, <3>2 DEF Exact, Table
    <3>. QED  BY <2>3, <3>1, <3>3
  <2>5. CASE step[s] = 8
    <3>1. step'[s] = 9 /\ run'[s] = "running" /\ t = "orders"
      BY <1>1, <1>4, <1>7, <2>5, StatementAt
    <3>2. Filling("settlements")'
      BY <1>1, <1>3, <2>2, <2>5, <3>1 DEF Exact, Table
    <3>3. Exact(s)'
      BY <1>1, <1>3, <1>7, <2>5, <3>1, <3>2 DEF Exact, Table
    <3>. QED  BY <2>5, <3>1, <3>3
  <2>4. CASE step[s] = 9
    <3>1. run'[s] = "done" /\ t = "settlements"
      BY <1>1, <1>4, <1>7, <2>4, StatementAt
    <3>2. \A u \in Table : table'[u] = Rows(u)
      BY <1>1, <1>3, <1>7, <2>4, <3>1 DEF Exact, Table
    <3>. QED  BY <2>4, <3>1, <3>2
  <2>. QED  BY <2>1, <2>3, <2>4, <2>5
<1>8. CASE /\ At(s, "insert", t) /\ Filling(t) /\ ~Cloud
           /\ rows = Append(table[t], Rows(t)[Len(table[t]) + 1])
           /\ Len(table[t]) + 1 # Len(Rows(t))
           /\ UNCHANGED <<run, step, holder, mixed>>
  <2>. DEFINE n == Len(table[t])
  <2>1. /\ table[t] \in Seq(Row) /\ n \in Nat /\ n + 1 < Len(Rows(t))
        /\ \A i \in 1..n : table[t][i] = Rows(t)[i]
    BY <1>3, <1>8 DEF Filling, FirstRows
  <2>2. /\ Len(rows) = n + 1 /\ rows \in Seq(Row)
        /\ \A i \in 1..n + 1 : rows[i] = Rows(t)[i]
    BY <1>3, <1>8, <2>1
  <2>3. Filling(t)'
    BY <1>3, <1>8, <2>1, <2>2 DEF Filling, FirstRows
  <2>4. step[s] \in 7..9 /\ step'[s] = step[s] /\ run'[s] = "running"
    BY <1>1, <1>8, StatementAt
  <2>5. /\ \A u \in {"products", "orders", "settlements"} : u # t => table'[u] = table[u]
        /\ \A u \in {"products", "orders", "settlements"} : Rows(u)' = Rows(u)
    BY <1>3 DEF Table
  <2>6. Exact(s)'
    <3>0. Exact(s)
      BY <1>1
    <3>1. CASE step[s] = 7 /\ t = "products"
      BY <2>3, <2>4, <2>5, <3>0, <3>1 DEF Exact
    <3>2. CASE step[s] = 8 /\ t = "orders"
      BY <2>3, <2>4, <2>5, <3>0, <3>2 DEF Exact
    <3>3. CASE step[s] = 9 /\ t = "settlements"
      BY <2>3, <2>4, <2>5, <3>0, <3>3 DEF Exact
    <3>. QED  BY <1>1, <1>8, <3>1, <3>2, <3>3, StatementAt
  <2>. QED  BY <2>4, <2>6
<1>9. CASE /\ At(s, "insert", t) /\ Filling(t) /\ Cloud
           /\ rows = table[t] \o Rows(t) /\ Advance(s)
  <2>1. rows = Rows(t)
    BY <1>3, <1>9 DEF Filling
  <2>. QED  BY <1>7, <1>9, <2>1
<1>10. CASE /\ At(s, "insert", t) /\ Filling(t) /\ Advance(s)
            /\ rows = Append(table[t], Rows(t)[Len(table[t]) + 1])
            /\ Len(table[t]) + 1 = Len(Rows(t))
  <2>1. /\ table[t] \in Seq(Row)
        /\ \A i \in 1..Len(table[t]) : table[t][i] = Rows(t)[i]
    BY <1>3, <1>10 DEF Filling, FirstRows
  <2>2. /\ rows \in Seq(Row) /\ Len(rows) = Len(Rows(t))
        /\ \A i \in 1..Len(rows) : rows[i] = Rows(t)[i]
    BY <1>3, <1>10, <2>1
  <2>3. rows = Rows(t)
    BY <1>3, <2>2
  <2>. QED  BY <1>7, <1>10, <2>3
<1>. QED  BY <1>2, <1>5, <1>6, <1>8, <1>9, <1>10

-----------------------------------------------------------------------------
(* The invariant *)

LEMMA ExactStays ==
    ASSUME SeedTyped, UNCHANGED <<warehouse, dataset, table>>,
           NEW s \in Scripts, step'[s] = step[s], Exact(s)
    PROVE  Exact(s)'
<1>1. \A t \in Table : Filling(t) => Filling(t)'
  BY RowsStay DEF Filling, FirstRows, Cloud
<1>. QED  BY <1>1, RowsStay DEF Exact, Table

LEMMA SoundStays == Sound /\ table' = table => Sound'
BY DEF Sound

LEMMA StatementKeepsInv ==
    ASSUME SeedInv, NEW s \in Scripts, SeedStep(s)
    PROVE  SeedInv'
<1>1. /\ SeedTyped /\ run[s] = "running" /\ step[s] \in 1..9
      /\ UNCHANGED <<warehouse, dataset, alone>> /\ s \in Running
  BY StatementDone DEF SeedInv, Running
<1>2. /\ table' \in [Table -> Seq(Row) \cup {Absent}]
      /\ Advance(s) \/ UNCHANGED <<run, step, holder, mixed>>
  BY <1>1, StatementDone DEF SeedTyped
<1>3. \/ /\ step' = [step EXCEPT ![s] = step[s] + 1] /\ step[s] < 9
         /\ UNCHANGED <<run, mixed>>
      \/ /\ step' = [step EXCEPT ![s] = step[s] + 1] /\ step[s] = 9
         /\ run' = [run EXCEPT ![s] = "done"] /\ mixed' = (mixed /\ ~alone)
      \/ UNCHANGED <<run, step, mixed>>
  BY <1>1, <1>2, AdvanceSteps
<1>4. SeedTyped'
  <2>1. run' \in [Scripts -> {"none", "running", "failed", "done"}]
    BY <1>1, <1>3 DEF SeedTyped
  <2>2. step' \in [Scripts -> 1..10]
    <3>1. step \in [Scripts -> 1..10] /\ step[s] + 1 \in 1..10
      BY <1>1 DEF SeedTyped
    <3>. QED  BY <1>3, <3>1
  <2>4. mixed' \in BOOLEAN
    <3>1. mixed' = mixed \/ mixed' = (mixed /\ ~alone)
      BY <1>3
    <3>. QED  BY <1>1, <3>1, Zenon DEF SeedTyped
  <2>3. ASSUME NEW r \in Scripts, run'[r] = "running" PROVE step'[r] \in 1..9
    BY <1>1, <1>3, <2>3 DEF SeedTyped
  <2>. QED  BY <1>1, <1>2, <2>1, <2>2, <2>3, <2>4 DEF SeedTyped
<1>5. /\ Running' \subseteq Running
      /\ run'[s] = "done" => Running' = Running \ {s}
      /\ run'[s] # "done" => UNCHANGED <<run, mixed>>
  BY <1>1, <1>3 DEF Running, SeedTyped
<1>6. Meetings'
  BY <1>1, <1>3, <1>5 DEF SeedInv, Meetings, Cloud, SeedTyped
<1>7. ASSUME alone', NEW r \in Running' PROVE Exact(r)'
  <2>1. r = s /\ alone /\ run'[s] = "running"
    BY <1>1, <1>5, <1>7 DEF SeedInv, Meetings, Running
  <2>. QED  BY <2>1, ExactStep
<1>8. ASSUME ~mixed' PROVE Sound'
  <2>1. alone
    BY <1>1, <1>3, <1>8 DEF SeedInv, Meetings
  <2>2. CASE step[s] = 9 /\ run'[s] = "done"
    <3>1. \A t \in Table : table'[t] = Rows(t)'
      BY <1>1, <2>1, <2>2, ExactStep, RowsStay
    <3>2. (SeedTyped /\ (\A t \in Table : table[t] = Rows(t)) => Sound)'
      BY DoneIsSound, PTL
    <3>. QED  BY <1>4, <3>1, <3>2
  <2>3. CASE step'[s] \in 3..9 /\ Exact(s)'
    <3>1. (SeedTyped /\ SomeExact => Sound)'
      BY ExactIsSound, PTL
    <3>2. SomeExact'
      BY <2>3 DEF SomeExact
    <3>. QED  BY <1>4, <3>1, <3>2
  <2>4. CASE step'[s] = 2 /\ run'[s] = "running"
    <3>1. step[s] \in 1..2 /\ ~mixed
      BY <1>1, <1>3, <1>5, <1>8, <2>4 DEF SeedTyped
    <3>2. \E t \in Table :
             /\ table' = [table EXCEPT ![t] = Absent]
             /\ At(s, "drop", t) /\ Advance(s)
      BY <1>1, <3>1, StatementDone, StatementAt
    <3>3. table' = [table EXCEPT !["settlements"] = Absent]
      <4>1. PICK t \in Table : /\ table' = [table EXCEPT ![t] = Absent]
                               /\ At(s, "drop", t) /\ Advance(s)
        BY <3>2
      <4>2. step'[s] = step[s] + 1
        BY <1>1, <4>1, AdvanceSteps DEF SeedTyped
      <4>3. step[s] = 1
        BY <1>1, <2>4, <4>2
      <4>4. t = "settlements"
        BY <1>1, <4>1, <4>3, StatementAt
      <4>. QED  BY <4>1, <4>4
    <3>4. Sound
      BY <3>1 DEF SeedInv
    <3>5. /\ table'["settlements"] = Absent /\ table'["orders"] = table["orders"]
          /\ table'["products"] = table["products"]
      BY <1>1, <3>3 DEF SeedTyped, Table
    <3>. QED  BY <3>4, <3>5 DEF Sound, Parent
  <2>. QED  BY <2>1, <2>2, <2>3, <2>4, ExactStep
<1>. QED  BY <1>4, <1>6, <1>7, <1>8 DEF SeedInv

LEMMA SeedInvStep ==
    SeedInv /\ HolderInv /\ [WarehouseNext]_warehouseVars => SeedInv'
<1>. SUFFICES ASSUME SeedInv, HolderInv, [WarehouseNext]_warehouseVars
              PROVE  SeedInv'
  OBVIOUS
<1>. USE DEF SeedInv
<1>1. CASE UNCHANGED <<warehouse, dataset, table, run, step, alone, mixed>>
  <2>1. Running' = Running /\ Cloud' = Cloud
    BY <1>1 DEF Running, Cloud
  <2>2. SeedTyped' /\ Meetings'
    BY <1>1, <2>1 DEF SeedTyped, Meetings
  <2>3. ASSUME NEW s \in Running', alone' PROVE Exact(s)'
    BY <1>1, <2>1, <2>3, ExactStays DEF Running
  <2>. QED  BY <1>1, <2>2, <2>3, SoundStays
<1>2. ASSUME NEW s \in Scripts, StartsSeed(s) PROVE SeedInv'
  <2>1. /\ run' = [run EXCEPT ![s] = "running"] /\ step' = [step EXCEPT ![s] = 1]
        /\ alone' = (Running = {}) /\ mixed' = (mixed \/ Running # {})
        /\ UNCHANGED <<warehouse, dataset, table>>
    BY <1>2 DEF StartsSeed
  <2>2. Running' = Running \cup {s} /\ Cloud' = Cloud
    BY <2>1 DEF Running, Cloud, SeedTyped
  <2>3. SeedTyped'
    BY <2>1 DEF SeedTyped
  <2>4. Running # {} => Cloud
    BY <1>2, SeedingAssumption DEF StartsSeed, Connectable, HolderInv, Running, Cloud
  <2>5. Meetings'
    BY <2>1, <2>2, <2>4 DEF Meetings
  <2>6. ASSUME NEW r \in Running', alone' PROVE Exact(r)'
    <3>1. step'[r] = 1
      BY <2>1, <2>2, <2>6 DEF SeedTyped
    <3>. QED  BY <3>1 DEF Exact
  <2>. QED  BY <2>1, <2>3, <2>5, <2>6, SoundStays
<1>3. ASSUME NEW s \in Scripts, SeedRefused(s) \/ SeedFails(s) PROVE SeedInv'
  <2>1. /\ run' = [run EXCEPT ![s] = "failed"]
        /\ UNCHANGED <<warehouse, dataset, table, step, alone, mixed>>
    BY <1>3 DEF SeedRefused, SeedFails, historyVars
  <2>2. Running' \subseteq Running /\ Cloud' = Cloud
    BY <2>1 DEF Running, Cloud, SeedTyped
  <2>3. SeedTyped' /\ Meetings'
    BY <2>1, <2>2 DEF SeedTyped, Meetings
  <2>4. ASSUME NEW r \in Running', alone' PROVE Exact(r)'
    BY <2>1, <2>2, <2>4, ExactStays DEF Running
  <2>. QED  BY <2>1, <2>3, <2>4, SoundStays
<1>4. \/ UNCHANGED <<warehouse, dataset, table, run, step, alone, mixed>>
      \/ \E s \in Scripts :
            StartsSeed(s) \/ SeedRefused(s) \/ SeedStep(s) \/ SeedFails(s)
  <2>1. ProvisionNext => warehouse' = warehouse
    BY DEF ProvisionNext, ProvisionStarts, ProvisionStep, ProvisionFails,
           KeyReplaced, ReportCreated
  <2>. QED
    BY <2>1 DEF WarehouseNext, SeedNext, warehouseVars, seedVars, historyVars
<1>. QED  BY <1>1, <1>2, <1>3, <1>4, StatementKeepsInv

LEMMA SeedInvariance == WarehouseSpec => [](SeedInv /\ HolderInv)
BY SeedInvInit, SeedInvStep, HolderInvInit, HolderInvStep, PTL DEF WarehouseSpec

(* Readers find no dangling reference, on any warehouse, whatever runs     *)
(* failed and wherever; runs that mix on a cloud warehouse excepted.       *)
THEOREM ReadersFindNoDanglingReference == WarehouseSpec => []ReferentialIntegrity
<1>1. SeedInv => ReferentialIntegrity
  BY DEF SeedInv, Meetings, Sound, Cloud, ReferentialIntegrity
<1>. QED  BY <1>1, SeedInvariance, PTL

(* A script that ends, having met no other, leaves exactly the data set.   *)
THEOREM SeedLeavesDataset == WarehouseSpec => SeedIsWhole
<1>1. SeedInv /\ HolderInv /\ [WarehouseNext]_warehouseVars
          => [\A s \in Scripts :
                 run[s] = "running" /\ run'[s] = "done" /\ (alone \/ warehouse = "duckdb")
                     => \A t \in Table : table'[t] = Rows(t)]_seedVars
  <2>. SUFFICES ASSUME SeedInv, WarehouseNext, NEW s \in Scripts,
                       run[s] = "running", run'[s] = "done", alone \/ warehouse = "duckdb"
                PROVE  \A t \in Table : table'[t] = Rows(t)
    BY DEF warehouseVars
  <2>1. alone
    BY DEF SeedInv, Meetings, Running, Cloud
  <2>2. PICK r \in Scripts : SeedStep(r)
    BY DEF WarehouseNext, SeedNext, StartsSeed, SeedRefused, SeedFails, SeedInv, SeedTyped
  <2>3. r = s
    BY <2>1, <2>2, StatementDone DEF SeedInv, Meetings, Running
  <2>. QED  BY <2>1, <2>2, <2>3, ExactStep
<1>. QED  BY <1>1, SeedInvariance, PTL DEF WarehouseSpec, SeedIsWhole

-----------------------------------------------------------------------------
(* The type invariant *)

HolderTyped ==
    /\ holder \in Scripts \cup Sessions \cup {NoOne}
    /\ open \subseteq Sessions

LEMMA ProvisionTyped ==
    ProvisionTypeOK /\ ProvisionNext => ProvisionTypeOK'
<1>. SUFFICES ASSUME ProvisionTypeOK, ProvisionNext PROVE ProvisionTypeOK'
  OBVIOUS
<1>. USE DEF ProvisionTypeOK
<1>0. \A f \in 1..MaxKeys, r \in 0..MaxKeys, u \in 0..MaxKeys :
          Keys(f, r, u) \in [file : 1..MaxKeys, read : 0..MaxKeys, user : 0..MaxKeys]
  BY DEF Keys
<1>1. /\ key.file \in 1..MaxKeys /\ key.file \in 0..MaxKeys
      /\ key.read \in 0..MaxKeys /\ key.user \in 0..MaxKeys
  BY ProvisioningAssumption
<1>2. warehouse' = warehouse
  BY DEF ProvisionNext, ProvisionStarts, ProvisionStep, ProvisionFails,
         KeyReplaced, ReportCreated
<1>3. Statements' = Statements /\ Given' = Given
  BY <1>2 DEF Statements, Given
<1>4. Len(Statements) \in Nat \ {0}
  BY DEF Statements
<1>5. CASE ProvisionStarts
  <2>1. key' \in [file : 1..MaxKeys, read : 0..MaxKeys, user : 0..MaxKeys]
    BY <1>0, <1>1, <1>5 DEF ProvisionStarts
  <2>2. statement' = 1 /\ admin' = "running" /\ UNCHANGED <<granted, report, failures>>
    BY <1>5 DEF ProvisionStarts
  <2>. QED  BY <1>2, <1>3, <1>4, <2>1, <2>2
<1>6. CASE ProvisionStep
  <2>1. key' \in [file : 1..MaxKeys, read : 0..MaxKeys, user : 0..MaxKeys]
    BY <1>0, <1>1, <1>6 DEF ProvisionStep
  <2>2. /\ statement' \in 1..Len(Statements) /\ admin' \in {admin, "done"}
        /\ failures' = failures
    BY <1>4, <1>6 DEF ProvisionStep
  <2>3. report' \in {report, "visible"}
    BY <1>6 DEF ProvisionStep
  <2>4. granted' = granted \cup {Statements[statement]}
    BY <1>6 DEF ProvisionStep
  <2>5. granted' \subseteq Given \cup {Statements[i] : i \in 1..Len(Statements)}
    BY <2>4
  <2>. QED  BY <1>2, <1>3, <2>1, <2>2, <2>3, <2>5
<1>7. CASE ProvisionFails
  BY <1>2, <1>3, <1>7, ProvisioningAssumption DEF ProvisionFails
<1>8. CASE KeyReplaced
  <2>1. key.file + 1 \in 1..MaxKeys
    BY <1>1, <1>8, ProvisioningAssumption DEF KeyReplaced
  <2>2. key' \in [file : 1..MaxKeys, read : 0..MaxKeys, user : 0..MaxKeys]
    BY <1>0, <1>1, <1>8, <2>1 DEF KeyReplaced
  <2>. QED  BY <1>2, <1>3, <1>8, <2>2 DEF KeyReplaced
<1>9. CASE ReportCreated
  BY <1>2, <1>3, <1>9 DEF ReportCreated
<1>. QED  BY <1>5, <1>6, <1>7, <1>8, <1>9 DEF ProvisionNext

LEMMA ProvisionTypedStays ==
    ASSUME ProvisionTypeOK, UNCHANGED <<warehouse, provisionVars>>, failures' \in 0..MaxFailures
    PROVE  ProvisionTypeOK'
BY DEF ProvisionTypeOK, provisionVars, Statements, Given

(* Only a run that fails from outside counts as one. *)
LEMMA SeedCounts ==
    ASSUME ProvisionTypeOK, SeedNext
    PROVE  warehouse' = warehouse /\ failures' \in 0..MaxFailures
<1>. PICK s \in Scripts :
         StartsSeed(s) \/ SeedRefused(s) \/ SeedStep(s) \/ SeedFails(s)
  BY DEF SeedNext
<1>1. CASE StartsSeed(s) \/ SeedRefused(s)
  BY <1>1 DEF StartsSeed, SeedRefused, ProvisionTypeOK
<1>2. CASE SeedStep(s)
  BY <1>2 DEF SeedStep, Drops, Creates, InsertsAll, InsertsRow, Advance, ProvisionTypeOK
<1>3. CASE SeedFails(s)
  BY <1>3, ProvisioningAssumption DEF SeedFails, ProvisionTypeOK
<1>. QED  BY <1>1, <1>2, <1>3

LEMMA HolderTypedStep ==
    HolderTyped /\ [WarehouseNext]_warehouseVars => HolderTyped'
<1>. SUFFICES ASSUME HolderTyped, [WarehouseNext]_warehouseVars PROVE HolderTyped'
  OBVIOUS
<1>1. CASE SeedNext /\ UNCHANGED open
  <2>. PICK s \in Scripts :
           StartsSeed(s) \/ SeedRefused(s) \/ SeedStep(s) \/ SeedFails(s)
    BY <1>1 DEF SeedNext
  <2>1. holder' \in {holder, s, NoOne}
    BY StatementAndLock DEF StartsSeed, SeedRefused, SeedFails, Connects, Disconnects
  <2>. QED  BY <1>1, <2>1 DEF HolderTyped
<1>2. CASE \E m \in Sessions : SessionOpens(m) \/ SessionEnds(m)
  BY <1>2 DEF SessionOpens, SessionEnds, Connects, Disconnects, HolderTyped
<1>3. CASE UNCHANGED <<holder, open>>
  BY <1>3 DEF HolderTyped
<1>. QED
  BY <1>1, <1>2, <1>3 DEF WarehouseNext, warehouseVars, seedVars, provisionVars

(* Every variable of the shared warehouse keeps to its type: among others, *)
(* a script never runs past its last statement, and only a bootstrap's own *)
(* statements are ever granted.                                            *)
THEOREM WarehouseKeepsItsTypes == WarehouseSpec => []WarehouseTypeOK
<1>1. WarehouseInit => ProvisionTypeOK /\ HolderTyped
  <2>. SUFFICES ASSUME WarehouseInit PROVE ProvisionTypeOK /\ HolderTyped
    OBVIOUS
  <2>1. Len(Statements) \in Nat \ {0}
    BY DEF Statements
  <2>2. key \in [file : 1..MaxKeys, read : 0..MaxKeys, user : 0..MaxKeys]
    BY ProvisioningAssumption DEF WarehouseInit, ProvisionInit, Keys
  <2>3. ProvisionTypeOK
    BY <2>1, <2>2, ProvisioningAssumption DEF WarehouseInit, ProvisionInit, ProvisionTypeOK
  <2>. QED  BY <2>3 DEF WarehouseInit, SeedInit, HolderTyped
<1>2. ProvisionTypeOK /\ [WarehouseNext]_warehouseVars => ProvisionTypeOK'
  <2>. SUFFICES ASSUME ProvisionTypeOK, [WarehouseNext]_warehouseVars
                PROVE  ProvisionTypeOK'
    OBVIOUS
  <2>1. CASE ProvisionNext
    BY <2>1, ProvisionTyped
  <2>2. CASE SeedNext /\ UNCHANGED <<provisionVars, open>>
    BY <2>2, SeedCounts, ProvisionTypedStays
  <2>3. CASE UNCHANGED <<warehouse, failures, provisionVars>>
    <3>1. failures' \in 0..MaxFailures
      BY <2>3 DEF ProvisionTypeOK
    <3>. QED  BY <2>3, <3>1, ProvisionTypedStays
  <2>. QED  BY <2>1, <2>2, <2>3 DEF WarehouseNext, warehouseVars, seedVars
<1>3. SeedInv => SeedTypeOK
  <2>. SUFFICES ASSUME SeedTyped PROVE SeedTypeOK
    BY DEF SeedInv
  <2>1. \A t \in Table :
           \/ table[t] = Absent
           \/ table[t] \in Seq([key : Nat, ref : 0..NumProducts + NumOrders])
    BY DEF SeedTyped, Row
  <2>2. step \in [Scripts -> 1..Len(Script) + 1]
    BY LastStatement DEF SeedTyped
  <2>3. \A s \in Scripts : run[s] = "running" => step[s] <= Len(Script)
    BY LastStatement DEF SeedTyped
  <2>. QED  BY <2>1, <2>2, <2>3, Zenon DEF SeedTyped, SeedTypeOK
<1>4. SeedInv /\ ProvisionTypeOK /\ HolderTyped => WarehouseTypeOK
  BY <1>3 DEF HolderTyped, WarehouseTypeOK
<1>. QED
  BY <1>1, <1>2, <1>4, HolderTypedStep, SeedInvariance, PTL DEF WarehouseSpec
=============================================================================
