\* One submitted request and three calls.
SPECIFICATION Spec
CONSTANTS
  Calls = {r1, r2, r3}
  Submitted = {s1}
  Nobody = Nobody
SYMMETRY Symmetric
CHECK_DEADLOCK FALSE
INVARIANTS
  TypeOK
  AuditTellsRow
PROPERTIES
  ImplementsHistory
  AnswerShowsRow
