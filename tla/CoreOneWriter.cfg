CONSTANTS
  a = a
  b = b
  c1 = c1
  c2 = c2
  c3 = c3
  Writers = {c1}
  Users = {a, b}
  Listings <- MCListings
  Length <- MCLength
  BufSize = 3
  Unwritable = {}
  Notifying = {"xray", "hysteria"}
SPECIFICATION Spec
INVARIANT TypeOK
PROPERTY XrayStaysUp
INVARIANT ServesOneList
INVARIANT WrittenWhenReloaded
INVARIANT QuietMeansServed
PROPERTY ImplementsService
