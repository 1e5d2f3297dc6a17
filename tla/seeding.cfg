SPECIFICATION FairWarehouseSpec
CONSTANTS
    Scripts = {s1, s2}
    Sessions = {m1}
    NumProducts = 1
    NumOrders = 2
    Warehouses = {"duckdb", "snowflake", "databricks"}
    Absent = Absent
    NoOne = NoOne
    MaxFailures = 1
    MaxKeys = 2
INVARIANTS
    ProvisionedIsUsable
    WarehouseTypeOK
    ReferentialIntegrity
PROPERTIES
    SeedIsWhole
    SessionSnapshot
    SeedRecovers
