------------------------- MODULE WarehouseSessions --------------------------
(***************************************************************************)
(* All that share a warehouse: the bootstrap (module Provisioning), the    *)
(* seed scripts (module Seeding) and the CLI sessions.  A session's MCP    *)
(* server selects a backend and connects (mcp_server/__main__.py,          *)
(* mcp_server/backends.py, the adapters' __init__); the CLI lists the      *)
(* tables once, for its system prompt, and the model then queries them.    *)
(* Nobody calls the connector's close(): the connection ends with the      *)
(* server process.                                                         *)
(***************************************************************************)
EXTENDS Seeding

CONSTANT Sessions       \* CLI sessions, one MCP server each

ASSUME SessionsAssumption == NoOne \notin Sessions /\ Sessions \cap Scripts = {}

VARIABLE open           \* the sessions whose server is connected

warehouseVars == <<seedVars, provisionVars, open>>

WarehouseTypeOK ==
    /\ ProvisionTypeOK /\ SeedTypeOK
    /\ holder \in Scripts \cup Sessions \cup {NoOne}
    /\ open \subseteq Sessions

WarehouseInit == ProvisionInit /\ SeedInit /\ open = {}

-----------------------------------------------------------------------------
(* build_connector() and the connector's __init__.  Where the file is open *)
(* elsewhere, an optional extra is missing or the login is refused, the    *)
(* server and its CLI end, and nothing has changed.                        *)
SessionOpens(m) ==
    /\ m \notin open /\ Connectable
    /\ Connects(m)
    /\ open' = open \cup {m}

(* The user quits, or the CLI or its server is lost. *)
SessionEnds(m) ==
    /\ m \in open
    /\ Disconnects(m)
    /\ open' = open \ {m}

-----------------------------------------------------------------------------
WarehouseNext ==
    \/ /\ ProvisionNext
       /\ UNCHANGED <<dataset, table, run, step, holder, historyVars, open>>
    \/ SeedNext /\ UNCHANGED <<provisionVars, open>>
    \/ /\ \E m \in Sessions : SessionOpens(m) \/ SessionEnds(m)
       /\ UNCHANGED <<warehouse, dataset, table, run, step, failures, historyVars,
                      provisionVars>>

WarehouseSpec == WarehouseInit /\ [][WarehouseNext]_warehouseVars

(* Statements are answered or refused, and whoever provisions or seeds     *)
(* tries again after a failure.                                            *)
FairWarehouseSpec ==
    /\ WarehouseSpec
    /\ WF_warehouseVars(WarehouseNext /\ (ProvisionStarts \/ ProvisionStep))
    /\ \A s \in Scripts :
          /\ WF_warehouseVars(/\ SeedStep(s) \/ (~Accepted(s) /\ SeedFails(s))
                              /\ UNCHANGED <<provisionVars, open>>)
          /\ WF_warehouseVars(/\ run[s] = "failed" /\ StartsSeed(s)
                              /\ UNCHANGED <<provisionVars, open>>)

-----------------------------------------------------------------------------
(* Properties *)

(* On DuckDB nothing a session reads changes while it lasts: the tables    *)
(* its system prompt names (fetched once, cli.py 32-42) stay, and two      *)
(* queries of one question see the same data.  It is the file lock that    *)
(* does it, held by a connection nobody closes (duckdb_adapter.py 24).     *)
SessionSnapshot ==
    [][\A m \in Sessions :
          ~Cloud /\ m \in open \cap open' => table' = table]_warehouseVars

(* A warehouse in whatever state failed or mixed runs left it, provisioned *)
(* or not yet, can be seeded again, to the end, by whoever finds no one    *)
(* else at work on it, and its key the one that has been provisioned.      *)
SeedRecovers ==
    \A s \in Scripts :
        <>[](/\ Running \subseteq {s} /\ (~Cloud => open = {})
             /\ admin = "done" => LogsIn)
            => (run[s] = "failed" ~> run[s] = "done")
=============================================================================
