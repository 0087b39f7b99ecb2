SPECIFICATION Spec
CONSTANTS
  c1 = c1
  c2 = c2
  j1 = j1
  j2 = j2
  j3 = j3
  d1 = d1
  u1 = u1
  Cluster = {c1}
  Create = {j1, j2}
  Direct = {}
  User = {u1}
  Service = Service
  Quotas = {1}
  Share = 1
  MaxUpsets = 0
INVARIANT QuotaExact
