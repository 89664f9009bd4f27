\* Three tasks of the high-level API race for the handshake.
SPECIFICATION Spec
CONSTANTS
  Callers = {t1, t2, t3}
  Nobody = Nobody
  Ops <- ManagedOps
  MaxCalls = 2
SYMMETRY TaskSymmetry
INVARIANTS
  OkMeansReady
  SingleInitialize
PROPERTIES
  MonotoneState
CHECK_DEADLOCK FALSE
