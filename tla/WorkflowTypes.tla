--------------------------- MODULE WorkflowTypes ---------------------------
(***************************************************************************)
(* The vocabulary of internal/types/workflow.go and of the workflow rows   *)
(* of internal/audit/audit.go: the statuses of a row of the table          *)
(* workflows, the transitions between them, and the audit actions.         *)
(***************************************************************************)
LOCAL INSTANCE Naturals

Absent == "ABSENT"        \* no committed row with this id

RowStatus == {"PENDING", "RUNNING", "COMPLETED", "FAILED"}

Status == RowStatus \cup {Absent}

Terminal == {"COMPLETED", "FAILED"}

ValidTransitions ==
  [s \in Status |-> CASE s = "PENDING" -> {"RUNNING", "FAILED"}
                      [] s = "RUNNING" -> {"COMPLETED", "FAILED"}
                      [] OTHER         -> {}]

IsValidTransition(from, to) == to \in ValidTransitions[from]

\* The audit rows that stand for a change of a workflow's row.  The row that
\* records a refused callback is kept apart (see the variable rejected).
AuditAction == {"CREATED", "TRANSITIONED_TO_RUNNING", "COMPLETED",
                "FAILED_DISPATCH", "FAILED_CALLBACK"}

NoRows == [a \in AuditAction |-> 0]

\* The audit rows of a workflow whose history took the given actions once each.
Trail(actions) == [a \in AuditAction |-> IF a \in actions THEN 1 ELSE 0]

\* The audit trails that lead to each status, and only those.
TrailsTo(s) ==
  CASE s = Absent      -> {NoRows}
    [] s = "PENDING"   -> {Trail({"CREATED"})}
    [] s = "RUNNING"   -> {Trail({"CREATED", "TRANSITIONED_TO_RUNNING"})}
    [] s = "COMPLETED" -> {Trail({"CREATED", "TRANSITIONED_TO_RUNNING", "COMPLETED"})}
    [] s = "FAILED"    -> {Trail({"CREATED", "FAILED_DISPATCH"}),
                           Trail({"CREATED", "TRANSITIONED_TO_RUNNING",
                                  "FAILED_CALLBACK"})}
=============================================================================
