CONSTANTS
  t1 = t1
  t2 = t2
  Clients = {t1}
  Slugs = {"home", "other", "unknown"}
  MaxTenants = 2
  TenantTables <- MCTables
  Names = {"ann"}
  Limits = {0}
  ConnOf <- MCConnOf
  PanelConn = "panel"
  Asks <- MCAsks
  OtherStatements = FALSE
  ListLimit = 100
  NoRow = NoRow
  Nullopt = Nullopt
  Length <- MCLength
  BufSize = 0
  Unwritable = {}
  Notifying = {"xray", "hysteria"}
SPECIFICATION PanelSpec
INVARIANT FilesFollowTable
