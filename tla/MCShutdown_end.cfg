\* Two composed HTTP requests, a simple one and a gRPC call over two connections;
\* clients may leave at any time or never, and a signal may come at any time.
SPECIFICATION FairSpec
CONSTANTS
  Calls = {r1, r2, r3, r4}
  Composed = {r1, r2}
  Rpcs = {r4}
  Rows = {i1}
  Conns = 2
  Nobody = Nobody
CHECK_DEADLOCK FALSE
INVARIANTS
  TypeOK
  NothingLeaks
  OnlyComposedBlock
  GracefulExit
PROPERTIES
  EveryCallAnswered
  ShutdownEnds
