----------------------------- MODULE Workflow ------------------------------
(***************************************************************************)
(* The workflow service of the control plane on PostgreSQL: the coordinator*)
(* and the state machine (internal/workflow), the callback handler         *)
(* (cmd/server) and the transactions of internal/store/pg_store.go.        *)
(*                                                                         *)
(* A request is one call of one operation.  It is a sequence of steps, as  *)
(* its handler is: wait for the state machine's mutex, take a connection   *)
(* of the pool (BeginTx), read and lock the row (SELECT ... FOR UPDATE),   *)
(* buffer writes that nobody else sees, commit.  Steps of different        *)
(* requests interleave freely; every step may fail, the client or the      *)
(* process may go away between any two.                                    *)
(*                                                                         *)
(* Abstraction: a JSON body is named by the request that carried it; the   *)
(* metrics, the logging, the parsing of ids and bodies (which answer 400   *)
(* before a transaction begins) and the timestamps are left out.           *)
(***************************************************************************)
EXTENDS WorkflowTypes, Naturals, FiniteSets

CONSTANTS Workflows,    \* the ids uuid.New() hands out
          Requests,     \* the calls; each is made once
          MaxConns,     \* connections of the pgx pool
          EmptyBody,    \* the document {}
          NoResult,     \* result_json IS NULL
          NoReq         \* nobody

ASSUME MaxConnsAssumption == MaxConns \in Nat \ {0}

ASSUME DistinctValues == /\ NoReq \notin Requests
                         /\ NoResult \notin Requests
                         /\ EmptyBody \notin Requests
                         /\ NoResult # EmptyBody

\* The operations of the StateMachine, serialised by its mutex.
MachineOps == {"Start", "Complete", "Fail"}

\* Create is ExecuteWorkflowCreate; Read stands for GetWorkflow and
\* CurrentState, which read under FOR UPDATE and roll back.
Ops == MachineOps \cup {"Create", "Read", "Callback"}

Results == Requests \cup {EmptyBody}

\* What a caller asks for: an operation on a workflow, the status it is to
\* move to and the document it is to keep.
NoCall == [op |-> "none", wf |-> NoReq, want |-> Absent, body |-> NoResult]

Call == [op : Ops, wf : Workflows, want : Status, body : Results \cup {NoResult}]

VARIABLES
  status,     \* [Workflows -> Status]: the committed column workflows.status
  result,     \* [Workflows -> Results \cup {NoResult}]: workflows.result_json
  auditRows,  \* [Workflows -> [AuditAction -> Nat]]: committed rows of audit_logs
  rejected,   \* the committed CALLBACK_REJECTED_TERMINAL rows
  mu,         \* who holds StateMachine.mu
  rowLock,    \* [Workflows -> Requests \cup {NoReq}]: who holds the row's lock
  call,       \* [Requests -> Call \cup {NoCall}]: the arguments
  pc,         \* [Requests -> Step]: where the handler is
  read,       \* [Requests -> Status]: wf.State as the handler read it
  tx,         \* [Requests -> Buffer]: the writes of the open transaction
  answer      \* [Requests -> Answer]: what the caller got

database == <<status, result, auditRows, rejected>>
locks    == <<mu, rowLock>>
session  == <<call, pc, read, tx, answer>>
vars     == <<status, result, auditRows, rejected, mu, rowLock,
              call, pc, read, tx, answer>>

Step == {"idle", "lock", "begin", "get", "write", "reject", "commit", "done"}

\* "conflict" is 409 or ErrInvalidTransition, "error" 500 or a lost connection.
Answer == {"none", "ok", "conflict", "notfound", "error"}

\* The buffered writes: the new status (Absent: no update), the new result
\* (NoResult: no update), the audit action ("none": no row) and whether a
\* CALLBACK_REJECTED_TERMINAL row is inserted.
NoWrites == [status |-> Absent, result |-> NoResult, action |-> "none",
             rejects |-> FALSE]

Buffer == [status : Status, result : Results \cup {NoResult},
           action : AuditAction \cup {"none"}, rejects : BOOLEAN]

Rejection == [wf : Workflows, by : Requests, seen : Status]

Init ==
  /\ status = [w \in Workflows |-> Absent]
  /\ result = [w \in Workflows |-> NoResult]
  /\ auditRows = [w \in Workflows |-> NoRows]
  /\ rejected = {}
  /\ mu = NoReq
  /\ rowLock = [w \in Workflows |-> NoReq]
  /\ call = [r \in Requests |-> NoCall]
  /\ pc = [r \in Requests |-> "idle"]
  /\ read = [r \in Requests |-> Absent]
  /\ tx = [r \in Requests |-> NoWrites]
  /\ answer = [r \in Requests |-> "none"]

-----------------------------------------------------------------------------
(* The pool, the locks and the end of a request.                           *)

InTx(r) == pc[r] \in {"get", "write", "reject", "commit"}

Active(r) == pc[r] \notin {"idle", "done"}

\* Mutant: an early return leaves the mutex locked.
Release_KeepsMutex(r) ==
  /\ mu' = mu
  /\ rowLock' = [w \in Workflows |-> IF rowLock[w] = r THEN NoReq ELSE rowLock[w]]
  /\ tx' = [tx EXCEPT ![r] = NoWrites]

\* The deferred Rollback and Unlock run on every return: the connection, the
\* row's lock and the mutex are given back and the buffer is gone.
Release(r) ==
  /\ mu' = IF mu = r THEN NoReq ELSE mu
  /\ rowLock' = [w \in Workflows |-> IF rowLock[w] = r THEN NoReq ELSE rowLock[w]]
  /\ tx' = [tx EXCEPT ![r] = NoWrites]

Finish(r, ans) ==
  /\ pc' = [pc EXCEPT ![r] = "done"]
  /\ answer' = [answer EXCEPT ![r] = ans]
  /\ Release(r)
  /\ UNCHANGED call

\* The handler returns without having committed.
Return(r, ans) == Finish(r, ans) /\ UNCHANGED <<database, read>>

-----------------------------------------------------------------------------
(* The arrival of a call and the steps every handler shares.               *)

\* uuid.New(): an id no row has and no other call in flight was given.
Fresh(w) == status[w] = Absent /\ \A r \in Requests :
                                    call[r].op = "Create" => call[r].wf # w

\* A callback wants COMPLETED or FAILED and may leave its document out;
\* Complete always passes one; the others have none.
WellFormed(c, r) ==
  CASE c.op = "Callback" -> c.want \in Terminal /\ c.body \in {r, NoResult}
    [] c.op = "Complete" -> c.want = "COMPLETED" /\ c.body = r
    [] c.op = "Fail"     -> c.want = "FAILED" /\ c.body = NoResult
    [] c.op = "Start"    -> c.want = "RUNNING" /\ c.body = NoResult
    [] c.op = "Create"   -> c.want = "PENDING" /\ c.body = NoResult
    [] c.op = "Read"     -> c.want = Absent /\ c.body = NoResult

Arrive(r) ==
  /\ pc[r] = "idle"
  /\ \E c \in Call :
       /\ WellFormed(c, r)
       /\ c.op = "Create" => Fresh(c.wf)
       /\ call' = [call EXCEPT ![r] = c]
       /\ pc' = [pc EXCEPT ![r] = IF c.op \in MachineOps THEN "lock" ELSE "begin"]
  /\ UNCHANGED <<database, locks, read, tx, answer>>

\* sm.mu.Lock(): held from before BeginTx until the call returns.
LockMachine(r) ==
  /\ pc[r] = "lock"
  /\ mu = NoReq
  /\ mu' = r
  /\ pc' = [pc EXCEPT ![r] = "begin"]
  /\ UNCHANGED <<database, rowLock, call, read, tx, answer>>

\* BeginTx waits until the pool has a connection to give.
BeginTx(r) ==
  /\ pc[r] = "begin"
  /\ Cardinality({q \in Requests : InTx(q)}) < MaxConns
  /\ pc' = [pc EXCEPT ![r] = IF call[r].op = "Create" THEN "write" ELSE "get"]
  /\ UNCHANGED <<database, locks, call, read, tx, answer>>

\* The checks that follow GetWorkflow: the state machine's IsValidTransition,
\* the callback handler's test for RUNNING; a read has none.
Admits(r, s) ==
  CASE call[r].op = "Callback"    -> s = "RUNNING"
    [] call[r].op \in MachineOps  -> IsValidTransition(s, call[r].want)
    [] OTHER                      -> TRUE

\* Mutant: SELECT without FOR UPDATE.
GetWorkflow_NoLock(r) ==
  /\ pc[r] = "get"
  /\ LET s == status[call[r].wf] IN
     /\ s # Absent
     /\ read' = [read EXCEPT ![r] = s]
     /\ \/ call[r].op = "Read" /\ Finish(r, "ok")
        \/ call[r].op \in MachineOps /\ ~Admits(r, s) /\ Finish(r, "conflict")
        \/ /\ call[r].op # "Read" /\ (call[r].op = "Callback" \/ Admits(r, s))
           /\ pc' = [pc EXCEPT ![r] = IF Admits(r, s) THEN "write" ELSE "reject"]
           /\ UNCHANGED <<locks, call, tx, answer>>
  /\ UNCHANGED database

\* GetWorkflow when a committed row exists: wait for the row's lock, then read
\* the latest committed version.
GetWorkflow(r) ==
  /\ pc[r] = "get"
  /\ LET w == call[r].wf IN
     /\ status[w] # Absent
     /\ rowLock[w] = NoReq
     /\ read' = [read EXCEPT ![r] = status[w]]
     /\ \/ /\ call[r].op = "Read"
           /\ Finish(r, "ok")
        \/ /\ call[r].op \in MachineOps
           /\ ~Admits(r, status[w])
           /\ Finish(r, "conflict")
        \/ /\ call[r].op \in MachineOps \cup {"Callback"}
           /\ call[r].op = "Callback" \/ Admits(r, status[w])
           /\ rowLock' = [rowLock EXCEPT ![w] = r]
           /\ pc' = [pc EXCEPT ![r] = IF Admits(r, status[w]) THEN "write" ELSE "reject"]
           /\ UNCHANGED <<mu, call, tx, answer>>
  /\ UNCHANGED database

\* GetWorkflow finds no committed row: ErrWorkflowNotFound.
GetNothing(r) ==
  /\ pc[r] = "get"
  /\ status[call[r].wf] = Absent
  /\ Return(r, "notfound")

-----------------------------------------------------------------------------
(* The writes of each operation, buffered in its transaction.              *)

\* Mutant: Fail does not look at the status it found.
ActionOf_OneFailure(r) ==
  CASE call[r].op = "Create"     -> "CREATED"
    [] call[r].want = "RUNNING"   -> "TRANSITIONED_TO_RUNNING"
    [] call[r].want = "COMPLETED" -> "COMPLETED"
    [] call[r].want = "FAILED"    -> "FAILED_CALLBACK"

\* Fail logs a dispatch failure for a PENDING row, a callback failure for a
\* RUNNING one; a failed callback is logged like the latter.
ActionOf(r) ==
  CASE call[r].op = "Create"     -> "CREATED"
    [] call[r].want = "RUNNING"   -> "TRANSITIONED_TO_RUNNING"
    [] call[r].want = "COMPLETED" -> "COMPLETED"
    [] call[r].want = "FAILED"    -> IF read[r] = "PENDING" THEN "FAILED_DISPATCH"
                                                            ELSE "FAILED_CALLBACK"

\* A callback without a document persists {}; Complete persists its argument;
\* the others leave result_json alone.
ResultOf(r) ==
  IF call[r].op = "Callback" /\ call[r].body = NoResult THEN EmptyBody
                                                        ELSE call[r].body

\* Mutant: the audit row is left to a later transaction.
Writes_Unaudited(r) == [status |-> call[r].want, result |-> ResultOf(r),
                        action |-> "none", rejects |-> FALSE]

\* InsertWorkflow or UpdateWorkflowState, then UpdateWorkflowResult, then the
\* audit row: three statements nobody sees before the commit.
Writes(r) == [status |-> call[r].want, result |-> ResultOf(r),
              action |-> ActionOf(r), rejects |-> FALSE]

Write(r) ==
  /\ pc[r] = "write"
  /\ tx' = [tx EXCEPT ![r] = Writes(r)]
  /\ pc' = [pc EXCEPT ![r] = "commit"]
  /\ UNCHANGED <<database, locks, call, read, answer>>

\* Mutant: the refusal is buffered like the row of a status change.
RecordRejectedTerminal_AsMove(r) ==
  /\ pc[r] = "reject"
  /\ tx' = [tx EXCEPT ![r] = [NoWrites EXCEPT !.action = "CALLBACK_REJECTED_TERMINAL"]]
  /\ pc' = [pc EXCEPT ![r] = "commit"]
  /\ UNCHANGED <<database, locks, call, read, answer>>

\* recordRejectedTerminal: when the INSERT fails the transaction is aborted,
\* the error is logged and the handler goes on.
RecordRejectedTerminal(r) ==
  /\ pc[r] = "reject"
  /\ \E inserted \in BOOLEAN :
       tx' = [tx EXCEPT ![r] = [NoWrites EXCEPT !.rejects = inserted]]
  /\ pc' = [pc EXCEPT ![r] = "commit"]
  /\ UNCHANGED <<database, locks, call, read, answer>>

-----------------------------------------------------------------------------
(* Commit.                                                                 *)

Publish(r) ==
  LET w == call[r].wf
      t == tx[r]
  IN /\ status' = IF t.status = Absent THEN status
                                       ELSE [status EXCEPT ![w] = t.status]
     /\ result' = IF t.result = NoResult THEN result
                                         ELSE [result EXCEPT ![w] = t.result]
     /\ auditRows' = IF t.action = "none" THEN auditRows
                                          ELSE [auditRows EXCEPT ![w][t.action] = @ + 1]
     /\ rejected' = IF t.rejects THEN rejected \cup {[wf |-> w, by |-> r, seen |-> read[r]]}
                                 ELSE rejected

\* A callback that was refused answers 409 whatever became of its commit.
Refused(r) == call[r].op = "Callback" /\ tx[r].action = "none"

Commit(r) ==
  /\ pc[r] = "commit"
  /\ Publish(r)
  /\ Finish(r, IF Refused(r) THEN "conflict" ELSE "ok")
  /\ UNCHANGED read

\* The commit took effect but its acknowledgement did not arrive.
CommitUnknown(r) ==
  /\ pc[r] = "commit"
  /\ Publish(r)
  /\ Finish(r, IF Refused(r) THEN "conflict" ELSE "error")
  /\ UNCHANGED read

\* A statement or the commit fails, or the caller's context ends: rollback.
\* BeginTx fails when the context ends while the pool is exhausted.
StepFails(r) ==
  /\ pc[r] \in {"begin", "get", "write", "commit"}
  /\ Return(r, IF pc[r] = "commit" /\ Refused(r) THEN "conflict" ELSE "error")

\* The process dies: PostgreSQL rolls back every transaction that was open and
\* no caller gets an answer.
Crash ==
  /\ \E r \in Requests : Active(r)
  /\ pc' = [r \in Requests |-> IF Active(r) THEN "done" ELSE pc[r]]
  /\ answer' = [r \in Requests |-> IF Active(r) THEN "error" ELSE answer[r]]
  /\ mu' = NoReq
  /\ rowLock' = [w \in Workflows |-> NoReq]
  /\ tx' = [r \in Requests |-> NoWrites]
  /\ UNCHANGED <<database, call, read>>

-----------------------------------------------------------------------------
Advance(r) ==
  \/ LockMachine(r)
  \/ BeginTx(r)
  \/ GetWorkflow(r)
  \/ GetNothing(r)
  \/ Write(r)
  \/ RecordRejectedTerminal(r)
  \/ Commit(r)

Next ==
  \/ \E r \in Requests : Arrive(r) \/ Advance(r) \/ CommitUnknown(r) \/ StepFails(r)
  \/ Crash

Spec == Init /\ [][Next]_vars

\* A request that can take its next step does: goroutines are scheduled, and
\* the mutex, the row's lock and the pool are granted in arrival order.  Calls
\* need not arrive, and faults need not happen.
Fairness == \A r \in Requests : WF_vars(Advance(r))

FairSpec == Spec /\ Fairness

-----------------------------------------------------------------------------
(* Properties.                                                             *)

TypeOK ==
  /\ status \in [Workflows -> Status]
  /\ result \in [Workflows -> Results \cup {NoResult}]
  /\ auditRows \in [Workflows -> [AuditAction -> Nat]]
  /\ rejected \subseteq Rejection
  /\ mu \in Requests \cup {NoReq}
  /\ rowLock \in [Workflows -> Requests \cup {NoReq}]
  /\ call \in [Requests -> Call \cup {NoCall}]
  /\ pc \in [Requests -> Step]
  /\ read \in [Requests -> Status]
  /\ tx \in [Requests -> Buffer]
  /\ answer \in [Requests -> Answer]

\* The audit rows of a workflow are exactly one path of the status diagram and
\* end in its present status: no move is unlogged, logged twice or logged as
\* another, whatever failed in between.
AuditMatchesStatus == \A w \in Workflows : auditRows[w] \in TrailsTo(status[w])

\* A result is there exactly when a report ended the workflow: COMPLETED has
\* one, a failed dispatch has none, and no unfinished workflow has one.
ResultOnlyWhenFinished ==
  \A w \in Workflows :
    /\ result[w] # NoResult => status[w] \in Terminal
    /\ status[w] = "COMPLETED" => result[w] # NoResult
    /\ auditRows[w]["FAILED_DISPATCH"] > 0 => result[w] = NoResult

\* Reports may be duplicated and race with Complete and Fail, but one request at
\* most is told that it ended the workflow, and the row then holds the status
\* and the document of that request.
FinishedOnce ==
  \A r \in Requests :
    answer[r] = "ok" /\ call[r].want \in Terminal =>
      /\ status[call[r].wf] = call[r].want
      /\ result[call[r].wf] = ResultOf(r)
      /\ \A q \in Requests \ {r} :
           ~(answer[q] = "ok" /\ call[q].wf = call[r].wf /\ call[q].want \in Terminal)

\* Every call is answered: nothing waits for ever on the mutex, the pool and
\* the rows' locks together.
EveryCallAnswered == \A r \in Requests : Active(r) ~> pc[r] = "done"

\* The tables move as WorkflowLifecycle says.
Lifecycle == INSTANCE WorkflowLifecycle
  WITH Workflows <- Workflows, Results <- Results, NoResult <- NoResult,
       status <- status, result <- result, auditRows <- auditRows

ImplementsLifecycle == Lifecycle!Spec
=============================================================================
