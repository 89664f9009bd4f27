\* Two tasks mix ensure_ready, the explicit calls and the raw ones; each
\* keeps running.
SPECIFICATION FairSpec
CONSTANTS
  Callers = {t1, t2}
  Nobody = Nobody
  Ops <- AllOps
  MaxCalls = 2
INVARIANTS
  RequestsFollowHandshake
PROPERTIES
  EnsureReadyReturns
CHECK_DEADLOCK FALSE
