\* One workflow, three calls and a single connection: the mutex and the pool are
\* contended together.  No symmetry, for the liveness property.
SPECIFICATION FairSpec
CONSTANTS
  Workflows = {w1}
  Requests = {r1, r2, r3}
  MaxConns = 1
  EmptyBody = EmptyBody
  NoResult = NoResult
  NoReq = NoReq
CHECK_DEADLOCK FALSE
PROPERTIES
  EveryCallAnswered
