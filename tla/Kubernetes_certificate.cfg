SPECIFICATION Spec
CONSTANTS
  k1 = k1
  k2 = k2
  K = {k1, k2}
  Ports = 1
  None = None
  MaxUpsets = 0
CHECK_DEADLOCK FALSE
INVARIANTS CertificateRevoked
SYMMETRY Symmetric
