CONSTANTS
  t1 = t1
  t2 = t2
  cli = cli
  cli2 = cli2
  Clients = {t1, cli, cli2}
  Slugs = {"home", "new", "newer"}
  MaxTenants = 3
  TenantTables <- MCTablesHome
  Names = {"ann"}
  Limits = {0}
  ConnOf <- MCConnOf
  PanelConn = "panel"
  Asks <- MCAsksClis
  OtherStatements = TRUE
  ListLimit = 100
  NoRow = NoRow
  Nullopt = Nullopt
SPECIFICATION Spec
INVARIANT CliReplyTruthful
PROPERTY AppearsOnlyByCreate
PROPERTY RowsChangeForTheirTenant
