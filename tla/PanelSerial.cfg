CONSTANTS
  t1 = t1
  t2 = t2
  Clients = {t1, t2}
  Slugs = {"home", "other", "unknown"}
  MaxTenants = 2
  TenantTables <- MCTables
  Names = {"ann"}
  Limits = {0}
  ConnOf <- MCConnOf
  PanelConn = "panel"
  Asks <- MCFewAsks
  OtherStatements = TRUE
  ListLimit = 100
  NoRow = NoRow
  Nullopt = Nullopt
  Length <- MCLength
  BufSize = 2
  Unwritable = {}
  Notifying = {"xray"}
SPECIFICATION PanelSpec
INVARIANT SerialRequestsSettleFiles
 
