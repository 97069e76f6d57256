------------------------- MODULE WorkflowLifecycle -------------------------
(***************************************************************************)
(* What the workflow tables promise, with each accepted request one atomic *)
(* step: a row is inserted PENDING, moves along ValidTransitions, receives *)
(* a result at most once and together with a terminal status, and every    *)
(* move leaves exactly one audit row.  The module Workflow, where a        *)
(* request is a transaction of several steps that may fail at each, is     *)
(* shown to implement this specification.                                  *)
(***************************************************************************)
EXTENDS WorkflowTypes, Naturals

CONSTANTS Workflows,    \* the ids uuid.New() hands out
          Results,      \* the JSON documents a result column can hold
          NoResult      \* result_json IS NULL

VARIABLES status,       \* [Workflows -> Status]
          result,       \* [Workflows -> Results \cup {NoResult}]
          auditRows     \* [Workflows -> [AuditAction -> Nat]]

vars == <<status, result, auditRows>>

Init ==
  /\ status = [w \in Workflows |-> Absent]
  /\ result = [w \in Workflows |-> NoResult]
  /\ auditRows = [w \in Workflows |-> NoRows]

Record(w, action) == auditRows' = [auditRows EXCEPT ![w][action] = @ + 1]

\* A workflow is created: the row and its audit row appear together.
Create(w) ==
  /\ status[w] = Absent
  /\ status' = [status EXCEPT ![w] = "PENDING"]
  /\ Record(w, "CREATED")
  /\ UNCHANGED result

\* The task is handed to a worker.
Start(w) ==
  /\ status[w] = "PENDING"
  /\ status' = [status EXCEPT ![w] = "RUNNING"]
  /\ Record(w, "TRANSITIONED_TO_RUNNING")
  /\ UNCHANGED result

\* A running workflow completes, with a result.
Complete(w, res) ==
  /\ status[w] = "RUNNING"
  /\ status' = [status EXCEPT ![w] = "COMPLETED"]
  /\ result' = [result EXCEPT ![w] = res]
  /\ Record(w, "COMPLETED")

\* The task could not be handed over.
FailDispatch(w) ==
  /\ status[w] = "PENDING"
  /\ status' = [status EXCEPT ![w] = "FAILED"]
  /\ Record(w, "FAILED_DISPATCH")
  /\ UNCHANGED result

\* A running workflow fails; a worker's report carries a result, a local
\* failure none.
FailRunning(w, res) ==
  /\ status[w] = "RUNNING"
  /\ status' = [status EXCEPT ![w] = "FAILED"]
  /\ result' = [result EXCEPT ![w] = res]
  /\ Record(w, "FAILED_CALLBACK")

Next ==
  \E w \in Workflows :
    \/ Create(w)
    \/ Start(w)
    \/ FailDispatch(w)
    \/ \E res \in Results : Complete(w, res)
    \/ \E res \in Results \cup {NoResult} : FailRunning(w, res)

Spec == Init /\ [][Next]_vars
=============================================================================
