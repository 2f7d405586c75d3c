CONSTANTS
  c1 = c1
  c2 = c2
  panel = panel
  t1 = t1
  default = default
  acme = acme
  n = n
  Clis = {c1, c2}
  Panel = panel
  Threads = {t1}
  Slugs = {default, acme}
  Labels = {default, acme}
  Default = default
  Multitenancy = TRUE
  Names = {n}
  NoHeader = NoHeader
INIT Init
NEXT Next
SYMMETRY Symmetry
INVARIANT TypeOK
INVARIANT OneTenantPerSlug
INVARIANT UsersInTheirTenant
INVARIANT CommandTakesEffect
