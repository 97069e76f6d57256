\* A draft and two calls of the store, one of which may confirm it.
SPECIFICATION Spec
CONSTANTS
  Requests = {r1, r2}
  Drafts = {d1}
  Confirmed = {}
  StatusOps = {"CONFIRMED"}
  NoReq = NoReq
SYMMETRY Symmetric
CHECK_DEADLOCK FALSE
PROPERTIES
  ConfirmedImmutable
