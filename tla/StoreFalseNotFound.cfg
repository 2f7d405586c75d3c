CONSTANTS
  t1 = t1
  t2 = t2
  cli = cli
  cli2 = cli2
  Clients = {t1, t2}
  Slugs = {"home"}
  MaxTenants = 1
  TenantTables <- MCTablesHome
  Names = {"ann"}
  Limits = {0, 1}
  ConnOf <- MCConnOf
  PanelConn = "panel"
  Asks <- MCAsksThreads
  OtherStatements = FALSE
  ListLimit = 100
  NoRow = NoRow
  Nullopt = Nullopt
SPECIFICATION Spec
INVARIANT NoFalseNotFound
