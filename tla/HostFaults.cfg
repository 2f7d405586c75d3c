CONSTANTS
  a = a
  t1 = t1
  cli = cli
  Nobody = Nobody
  ShellMatches = FALSE
  Writers = {t1, cli}
  PanelThreads = {t1}
  Users = {a}
  Listings <- MCListings
  Length <- MCLength
  BufSize = 3
  Unwritable = {}
  Notifying = {"xray"}
SPECIFICATION HostSpec
INVARIANT HostTypeOK
INVARIANT UndisturbedSyncSettles
INVARIANT SettledCoresServeNobodyElse
PROPERTY OnlyEndsStrand
PROPERTY CoresComeToServe
