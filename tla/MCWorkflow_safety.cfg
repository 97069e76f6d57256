\* One workflow and four calls that compete for it over two connections:
\* enough for a creation, a start and two reports.
SPECIFICATION Spec
CONSTANTS
  Workflows = {w1}
  Requests = {r1, r2, r3, r4}
  MaxConns = 2
  EmptyBody = EmptyBody
  NoResult = NoResult
  NoReq = NoReq
SYMMETRY Symmetric
CHECK_DEADLOCK FALSE
INVARIANTS
  TypeOK
  AuditMatchesStatus
  FinishedOnce
PROPERTIES
  ImplementsLifecycle
