CONSTANTS
  t1 = t1
  t2 = t2
  cli = cli
  cli2 = cli2
  Clients = {t1}
  Slugs = {"home", "new"}
  MaxTenants = 2
  TenantTables <- MCTables
  Names = {"ann"}
  Limits = {0, 1}
  ConnOf <- MCConnOf
  PanelConn = "panel"
  Asks <- MCAsksAll
  OtherStatements = TRUE
  ListLimit = 100
  NoRow = NoRow
  Nullopt = Nullopt
SPECIFICATION Spec
INVARIANT TypeOK
PROPERTY ImplementsTable
