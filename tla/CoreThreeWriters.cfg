CONSTANTS
  a = a
  b = b
  c1 = c1
  c2 = c2
  c3 = c3
  Writers = {c1, c2, c3}
  Users = {a, b}
  Listings <- MCListings
  Length <- MCLength
  BufSize = 3
  Unwritable = {"hysteria"}
  Notifying = {}
SPECIFICATION Spec
INVARIANT EmptyIsOwed
INVARIANT QuietFileIsALastList
INVARIANT QuietFileHoldsNobodyElse
