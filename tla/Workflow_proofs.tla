-------------------------- MODULE Workflow_proofs --------------------------
(***************************************************************************)
(* Proofs about Workflow, for any number of workflows, calls and           *)
(* connections.  The argument: a handler that writes holds the row's lock  *)
(* and has checked the row under it (Checked), so what it publishes is one *)
(* step of WorkflowLifecycle (PublishIsLifecycleStep); what the database   *)
(* satisfies then follows from the steps of WorkflowLifecycle alone.       *)
(***************************************************************************)
EXTENDS Workflow, FiniteSetTheorems, TLAPS

\* A request that has arrived has well-formed arguments.
CallsOK ==
  \A r \in Requests :
    /\ pc[r] = "idle" => call[r] = NoCall
    /\ pc[r] # "idle" => call[r] \in Call /\ WellFormed(call[r], r)

\* A creation in flight has an id that nobody else was given and no row has.
CreationsFresh ==
  \A r \in Requests :
    call[r].op = "Create" =>
      /\ Active(r) => status[call[r].wf] = Absent
      /\ \A q \in Requests : call[q].op = "Create" /\ call[q].wf = call[r].wf => q = r

\* After GetWorkflow a handler holds the row's lock and knows its status.
Checked ==
  \A r \in Requests :
    pc[r] \in {"write", "reject", "commit"} /\ call[r].op # "Create" =>
      /\ call[r].op \in MachineOps \cup {"Callback"}
      /\ rowLock[call[r].wf] = r
      /\ status[call[r].wf] = read[r]
      /\ read[r] # Absent

\* It goes on to write only if the status admits the operation.
AdmittedAt(r) ==
  /\ pc[r] = "write" => Admits(r, read[r])
  /\ pc[r] = "reject" => call[r].op = "Callback"
  /\ pc[r] = "commit" =>
       \/ tx[r] = Writes(r) /\ Admits(r, read[r])
       \/ /\ call[r].op = "Callback"
          /\ tx[r] \in {[NoWrites EXCEPT !.rejects = b] : b \in BOOLEAN}

Admitted == \A r \in Requests : AdmittedAt(r)

\* Creating takes no lock, and skips the steps that read.
CreatesDoNotRead ==
  \A r \in Requests : /\ call[r].op = "Create" => pc[r] \notin {"lock", "get", "reject"}
                      /\ call[r].op = "Read" => pc[r] \notin {"lock", "write", "reject", "commit"}

\* The requests that act on what they know of a row.
Relies(q) == /\ Active(q)
             /\ call[q].op = "Create" \/ pc[q] \in {"write", "reject", "commit"}

IInv == /\ TypeOK
        /\ CallsOK
        /\ CreationsFresh
        /\ Checked
        /\ Admitted
        /\ CreatesDoNotRead
        /\ AuditMatchesStatus
        /\ ResultOnlyWhenFinished

LEMMA InitIInv == Init => IInv
BY DistinctValues DEF Init, IInv, TypeOK, CallsOK, CreationsFresh, Checked, Admitted,
  AdmittedAt, CreatesDoNotRead, AuditMatchesStatus, ResultOnlyWhenFinished, Active, Status,
  RowStatus, Absent, NoRows, AuditAction, TrailsTo, NoWrites, Buffer, Step, Answer,
  NoCall, Results, Terminal

\* A step of another request changes nothing this one was admitted on.
LEMMA AdmittedFrame ==
  ASSUME NEW q \in Requests, AdmittedAt(q), call'[q] = call[q], pc'[q] = pc[q],
         read'[q] = read[q], tx'[q] = tx[q]
  PROVE  AdmittedAt(q)'
BY DEF AdmittedAt, Admits, Writes, ResultOf, ActionOf

LEMMA ArriveIInv == ASSUME NEW r \in Requests, IInv, Arrive(r) PROVE IInv'
<1> USE DEF Arrive, IInv, database, locks
<1>0. PICK c \in Call : /\ WellFormed(c, r)
                        /\ c.op = "Create" => Fresh(c.wf)
                        /\ call' = [call EXCEPT ![r] = c]
                        /\ pc' = [pc EXCEPT ![r] = IF c.op \in MachineOps THEN "lock" ELSE "begin"]
  OBVIOUS
<1>a. call[r] = NoCall /\ ~Active(r)
  BY DEF CallsOK, Active
<1>1. TypeOK'
  BY <1>0 DEF TypeOK, Step
<1>2. CallsOK'
  BY <1>0 DEF CallsOK, TypeOK, WellFormed
<1>3. CreationsFresh'
  BY <1>0, <1>a DEF CreationsFresh, Fresh, TypeOK, Active, MachineOps, Call, Ops, NoCall
<1>4. Checked'
  BY <1>0 DEF Checked, TypeOK
<1>5. Admitted'
  <2> SUFFICES ASSUME NEW q \in Requests PROVE AdmittedAt(q)'
    BY DEF Admitted
  <2>1. CASE q = r
    BY <1>0, <2>1 DEF AdmittedAt, TypeOK
  <2>2. CASE q # r
    BY <1>0, <2>2, AdmittedFrame DEF TypeOK, Admitted
  <2>3. QED
    BY <2>1, <2>2
<1>6. CreatesDoNotRead'
  BY <1>0 DEF CreatesDoNotRead, TypeOK, MachineOps
<1>7. AuditMatchesStatus' /\ ResultOnlyWhenFinished'
  BY DEF AuditMatchesStatus, ResultOnlyWhenFinished
<1>8. QED
  BY <1>1, <1>2, <1>3, <1>4, <1>5, <1>6, <1>7

LEMMA LockMachineIInv == ASSUME NEW r \in Requests, IInv, LockMachine(r) PROVE IInv'
<1> USE DEF LockMachine, IInv, database, locks
<1>1. TypeOK'
  BY DEF TypeOK, Step
<1>2. CallsOK'
  BY DEF CallsOK, TypeOK
<1>3. CreationsFresh'
  BY DEF CreationsFresh, TypeOK, Active
<1>4. Checked'
  BY DEF Checked, TypeOK
<1>5. Admitted'
  <2> SUFFICES ASSUME NEW q \in Requests PROVE AdmittedAt(q)'
    BY DEF Admitted
  <2>1. CASE q = r
    BY <2>1 DEF AdmittedAt, TypeOK
  <2>2. CASE q # r
    BY <2>2, AdmittedFrame DEF TypeOK, Admitted
  <2>3. QED
    BY <2>1, <2>2
<1>6. CreatesDoNotRead'
  BY DEF CreatesDoNotRead, TypeOK
<1>7. AuditMatchesStatus' /\ ResultOnlyWhenFinished'
  BY DEF AuditMatchesStatus, ResultOnlyWhenFinished
<1>8. QED
  BY <1>1, <1>2, <1>3, <1>4, <1>5, <1>6, <1>7

LEMMA BeginTxIInv == ASSUME NEW r \in Requests, IInv, BeginTx(r) PROVE IInv'
<1> USE DEF BeginTx, IInv, database, locks
<1>1. TypeOK'
  BY DEF TypeOK, Step
<1>2. CallsOK'
  BY DEF CallsOK, TypeOK
<1>3. CreationsFresh'
  BY DEF CreationsFresh, TypeOK, Active
<1>4. Checked'
  BY DEF Checked, TypeOK
<1>5. Admitted'
  <2> SUFFICES ASSUME NEW q \in Requests PROVE AdmittedAt(q)'
    BY DEF Admitted
  <2>1. CASE q = r
    BY <2>1 DEF AdmittedAt, TypeOK, Admits, MachineOps
  <2>2. CASE q # r
    BY <2>2, AdmittedFrame DEF TypeOK, Admitted
  <2>3. QED
    BY <2>1, <2>2
<1>6. CreatesDoNotRead'
  BY DEF CreatesDoNotRead, TypeOK
<1>7. AuditMatchesStatus' /\ ResultOnlyWhenFinished'
  BY DEF AuditMatchesStatus, ResultOnlyWhenFinished
<1>8. QED
  BY <1>1, <1>2, <1>3, <1>4, <1>5, <1>6, <1>7

\* What a handler buffers is a status, a document and an audit action.
LEMMA WritesTyped ==
  ASSUME NEW r \in Requests, TypeOK, call[r] \in Call, WellFormed(call[r], r),
         call[r].op # "Read"
  PROVE  Writes(r) \in Buffer
<1>1. call[r].want \in Status /\ call[r].body \in Results \cup {NoResult}
  BY DEF Call
<1>2. ResultOf(r) \in Results \cup {NoResult}
  BY <1>1 DEF ResultOf, Results
<1>3. ActionOf(r) \in AuditAction
  BY DEF ActionOf, AuditAction, WellFormed, Terminal, Call, Ops, MachineOps
<1>4. QED
  BY <1>1, <1>2, <1>3 DEF Writes, Buffer

LEMMA WriteIInv == ASSUME NEW r \in Requests, IInv, Write(r) PROVE IInv'
<1> USE DEF Write, IInv, database, locks
<1>1. TypeOK'
  BY WritesTyped DEF TypeOK, Step, CallsOK, CreatesDoNotRead
<1>2. CallsOK'
  BY DEF CallsOK, TypeOK
<1>3. CreationsFresh'
  BY DEF CreationsFresh, TypeOK, Active
<1>4. Checked'
  BY DEF Checked, TypeOK
<1>5. Admitted'
  <2> SUFFICES ASSUME NEW q \in Requests PROVE AdmittedAt(q)'
    BY DEF Admitted
  <2>1. CASE q = r
    BY <2>1, AdmittedFrame DEF AdmittedAt, TypeOK, Admitted, Admits, Writes, ResultOf, ActionOf
  <2>2. CASE q # r
    BY <2>2, AdmittedFrame DEF TypeOK, Admitted
  <2>3. QED
    BY <2>1, <2>2
<1>6. CreatesDoNotRead'
  BY DEF CreatesDoNotRead, TypeOK
<1>7. AuditMatchesStatus' /\ ResultOnlyWhenFinished'
  BY DEF AuditMatchesStatus, ResultOnlyWhenFinished
<1>8. QED
  BY <1>1, <1>2, <1>3, <1>4, <1>5, <1>6, <1>7

LEMMA RecordRejectedTerminalIInv == ASSUME NEW r \in Requests, IInv, RecordRejectedTerminal(r) PROVE IInv'
<1> USE DEF RecordRejectedTerminal, IInv, database, locks
<1>1. TypeOK'
  BY DEF TypeOK, Step, NoWrites, Buffer, Status
<1>2. CallsOK'
  BY DEF CallsOK, TypeOK
<1>3. CreationsFresh'
  BY DEF CreationsFresh, TypeOK, Active
<1>4. Checked'
  BY DEF Checked, TypeOK
<1>5. Admitted'
  <2> SUFFICES ASSUME NEW q \in Requests PROVE AdmittedAt(q)'
    BY DEF Admitted
  <2>1. CASE q = r
    BY <2>1 DEF AdmittedAt, Admitted, TypeOK
  <2>2. CASE q # r
    BY <2>2, AdmittedFrame DEF TypeOK, Admitted
  <2>3. QED
    BY <2>1, <2>2
<1>6. CreatesDoNotRead'
  BY DEF CreatesDoNotRead, TypeOK
<1>7. AuditMatchesStatus' /\ ResultOnlyWhenFinished'
  BY DEF AuditMatchesStatus, ResultOnlyWhenFinished
<1>8. QED
  BY <1>1, <1>2, <1>3, <1>4, <1>5, <1>6, <1>7

\* The end of a request, whatever it published: it suffices that the tables
\* stay consistent and that nobody else's row moved.
LEMMA FinishIInv ==
  ASSUME IInv, NEW r \in Requests, NEW ans \in Answer, Active(r), Finish(r, ans),
         status' \in [Workflows -> Status],
         result' \in [Workflows -> Results \cup {NoResult}],
         auditRows' \in [Workflows -> [AuditAction -> Nat]],
         rejected' \subseteq Rejection,
         read' \in [Requests -> Status],
         \A q \in Requests \ {r} :
           /\ read'[q] = read[q]
           /\ Relies(q) => status'[call[q].wf] = status[call[q].wf],
         AuditMatchesStatus', ResultOnlyWhenFinished'
  PROVE  IInv'
<1> USE DEF Finish, Release, IInv
<1>1. TypeOK'
  <2>1. NoWrites \in Buffer
    BY DEF NoWrites, Buffer, Status
  <2>2. mu' \in Requests \cup {NoReq} /\ rowLock' \in [Workflows -> Requests \cup {NoReq}]
    BY DEF TypeOK
  <2>3. QED
    BY <2>1, <2>2 DEF TypeOK, Step
<1>2. CallsOK'
  BY DEF CallsOK, TypeOK, Active
<1>3. CreationsFresh'
  BY DEF CreationsFresh, TypeOK, Active, Relies
<1>4. Checked'
  <2> SUFFICES ASSUME NEW q \in Requests, pc'[q] \in {"write", "reject", "commit"},
                      call'[q].op # "Create"
               PROVE  /\ call'[q].op \in MachineOps \cup {"Callback"}
                      /\ rowLock'[call'[q].wf] = q
                      /\ status'[call'[q].wf] = read'[q]
                      /\ read'[q] # Absent
    BY DEF Checked
  <2>1. q # r /\ Relies(q) /\ pc[q] = pc'[q] /\ call[q] \in Call
    BY DEF TypeOK, Active, CallsOK, Relies
  <2>2. call[q].wf \in Workflows
    BY <2>1 DEF Call
  <2>3. QED
    BY <2>1, <2>2 DEF Checked, TypeOK
<1>5. Admitted'
  <2> SUFFICES ASSUME NEW q \in Requests PROVE AdmittedAt(q)'
    BY DEF Admitted
  <2>1. CASE q = r
    BY <2>1 DEF AdmittedAt, TypeOK
  <2>2. CASE q # r
    BY <2>2, AdmittedFrame DEF TypeOK, Admitted
  <2>3. QED
    BY <2>1, <2>2
<1>6. CreatesDoNotRead'
  BY DEF CreatesDoNotRead, TypeOK
<1>7. QED
  BY <1>1, <1>2, <1>3, <1>4, <1>5, <1>6

\* Without a commit the tables are as they were.
LEMMA ReturnIInv ==
  ASSUME IInv, NEW r \in Requests, NEW ans \in Answer, Active(r), Return(r, ans)
  PROVE  IInv'
<1>1. Finish(r, ans) /\ UNCHANGED <<database, read>>
  BY DEF Return
<1>2. AuditMatchesStatus' /\ ResultOnlyWhenFinished'
  BY <1>1 DEF IInv, database, AuditMatchesStatus, ResultOnlyWhenFinished
<1>3. QED
  BY <1>1, <1>2, FinishIInv DEF IInv, TypeOK, database

LEMMA GetWorkflowIInv == ASSUME NEW r \in Requests, IInv, GetWorkflow(r) PROVE IInv'
<1> DEFINE w == call[r].wf
<1>0. /\ pc[r] = "get" /\ Active(r) /\ w \in Workflows
      /\ read' = [read EXCEPT ![r] = status[w]] /\ status[w] \in Status
      /\ UNCHANGED database
      /\ status[w] # Absent /\ rowLock[w] = NoReq
      /\ call[r].op # "Create"
  BY DEF GetWorkflow, Active, IInv, CallsOK, Call, TypeOK, CreatesDoNotRead
<1>1. AuditMatchesStatus' /\ ResultOnlyWhenFinished'
  BY <1>0 DEF IInv, database, AuditMatchesStatus, ResultOnlyWhenFinished
<1>2. ASSUME NEW ans \in Answer, Finish(r, ans) PROVE IInv'
  BY <1>0, <1>1, <1>2, FinishIInv DEF IInv, TypeOK, database
<1>3. CASE /\ call[r].op \in MachineOps \cup {"Callback"}
           /\ call[r].op = "Callback" \/ Admits(r, status[w])
           /\ rowLock' = [rowLock EXCEPT ![w] = r]
           /\ pc' = [pc EXCEPT ![r] = IF Admits(r, status[w]) THEN "write" ELSE "reject"]
           /\ UNCHANGED <<mu, call, tx, answer>>
  <2> USE <1>0, <1>3 DEF IInv
  <2>1. TypeOK'
    BY DEF TypeOK, Step, database
  <2>2. CallsOK'
    BY DEF CallsOK, TypeOK
  <2>3. CreationsFresh'
    BY DEF CreationsFresh, TypeOK, Active, database
  <2>4. Checked'
    <3> SUFFICES ASSUME NEW q \in Requests, pc'[q] \in {"write", "reject", "commit"},
                        call'[q].op # "Create"
                 PROVE  /\ call'[q].op \in MachineOps \cup {"Callback"}
                        /\ rowLock'[call'[q].wf] = q
                        /\ status'[call'[q].wf] = read'[q]
                        /\ read'[q] # Absent
      BY DEF Checked
    <3>1. CASE q = r
      BY <3>1 DEF TypeOK, database
    <3>2. CASE q # r
      <4>1. rowLock[call[q].wf] = q /\ q # NoReq
        BY <3>2, DistinctValues DEF Checked, TypeOK
      <4>2. QED
        BY <3>2, <4>1 DEF Checked, TypeOK, database
    <3>3. QED
      BY <3>1, <3>2
  <2>5. Admitted'
    <3> SUFFICES ASSUME NEW q \in Requests PROVE AdmittedAt(q)'
      BY DEF Admitted
    <3>1. CASE q = r
      <4>1. read'[r] = status[w] /\ pc'[r] \in {"write", "reject"}
            /\ (pc'[r] = "write" => Admits(r, status[w]))
            /\ (pc'[r] = "reject" => ~Admits(r, status[w]))
        BY DEF TypeOK
      <4>2. Admits(r, status[w])' <=> Admits(r, status[w])
        BY DEF Admits, database
      <4>3. QED
        BY <3>1, <4>1, <4>2 DEF AdmittedAt, database
    <3>2. CASE q # r
      BY <3>2, AdmittedFrame DEF TypeOK, Admitted
    <3>3. QED
      BY <3>1, <3>2
  <2>6. CreatesDoNotRead'
    BY DEF CreatesDoNotRead, TypeOK, MachineOps
  <2>7. QED
    BY <1>1, <2>1, <2>2, <2>3, <2>4, <2>5, <2>6
<1>4. QED
  BY <1>2, <1>3 DEF GetWorkflow, Answer

-----------------------------------------------------------------------------
(* What a commit publishes is a step of WorkflowLifecycle.                 *)

\* The row a request writes when it commits is admitted by the operation.
LEMMA CommitAdmitted ==
  ASSUME IInv, NEW r \in Requests, pc[r] = "commit", tx[r] = Writes(r), Admits(r, read[r])
  PROVE  /\ call[r].wf \in Workflows
         /\ \/ /\ call[r].op = "Create" /\ call[r].want = "PENDING"
               /\ ResultOf(r) = NoResult /\ ActionOf(r) = "CREATED"
               /\ status[call[r].wf] = Absent
            \/ /\ call[r].op = "Start" /\ call[r].want = "RUNNING"
               /\ ResultOf(r) = NoResult /\ ActionOf(r) = "TRANSITIONED_TO_RUNNING"
               /\ status[call[r].wf] = "PENDING"
            \/ /\ call[r].want = "COMPLETED" /\ ActionOf(r) = "COMPLETED"
               /\ ResultOf(r) \in Results /\ status[call[r].wf] = "RUNNING"
            \/ /\ call[r].want = "FAILED" /\ ActionOf(r) = "FAILED_DISPATCH"
               /\ ResultOf(r) = NoResult /\ status[call[r].wf] = "PENDING"
            \/ /\ call[r].want = "FAILED" /\ ActionOf(r) = "FAILED_CALLBACK"
               /\ ResultOf(r) \in Results \cup {NoResult}
               /\ status[call[r].wf] = "RUNNING"
<1>1. /\ call[r] \in Call /\ WellFormed(call[r], r) /\ call[r].op # "Read"
      /\ call[r].op = "Create" => status[call[r].wf] = Absent
      /\ call[r].op # "Create" => status[call[r].wf] = read[r]
      /\ read[r] \in Status
  BY DEF IInv, CallsOK, CreatesDoNotRead, CreationsFresh, Checked, Active, TypeOK
<1>2. call[r].wf \in Workflows /\ call[r].op \in Ops
  BY <1>1 DEF Call
<1>3. CASE call[r].op = "Create"
  BY <1>1, <1>2, <1>3 DEF WellFormed, ResultOf, ActionOf
<1>4. CASE call[r].op \in MachineOps
  <2>1. read[r] \in Status /\ IsValidTransition(read[r], call[r].want)
    BY <1>1, <1>4 DEF Admits, MachineOps
  <2>2. CASE call[r].op = "Start"
    BY <1>1, <1>2, <2>1, <2>2
       DEF WellFormed, ResultOf, ActionOf, IsValidTransition, ValidTransitions, Status, RowStatus, Absent
  <2>3. CASE call[r].op = "Complete"
    BY <1>1, <1>2, <2>1, <2>3
       DEF WellFormed, ResultOf, ActionOf, IsValidTransition, ValidTransitions, Status, RowStatus, Absent, Results
  <2>4. CASE call[r].op = "Fail"
    BY <1>1, <1>2, <2>1, <2>4
       DEF WellFormed, ResultOf, ActionOf, IsValidTransition, ValidTransitions, Status, RowStatus, Absent
  <2>5. QED
    BY <1>4, <2>2, <2>3, <2>4 DEF MachineOps
<1>5. CASE call[r].op = "Callback"
  <2>1. read[r] = "RUNNING"
    BY <1>5 DEF Admits, MachineOps
  <2>2. ResultOf(r) \in Results /\ call[r].want \in Terminal
    BY <1>1, <1>5, DistinctValues DEF WellFormed, ResultOf, Results
  <2>3. QED
    BY <1>1, <1>2, <1>5, <2>1, <2>2 DEF ActionOf, Terminal
<1>6. QED
  BY <1>1, <1>2, <1>3, <1>4, <1>5 DEF Ops

LEMMA PublishIsLifecycleStep ==
  ASSUME IInv, NEW r \in Requests, pc[r] = "commit", Publish(r)
  PROVE  \/ /\ Lifecycle!Next
            /\ \A v \in Workflows \ {call[r].wf} : status'[v] = status[v]
            /\ status'[call[r].wf] = call[r].want
         \/ UNCHANGED <<status, result, auditRows>>
<1> DEFINE w == call[r].wf
<1>1. CASE tx[r] = Writes(r) /\ Admits(r, read[r])
  <2>1. /\ tx[r].status = call[r].want /\ tx[r].result = ResultOf(r)
        /\ tx[r].action = ActionOf(r)
    BY <1>1 DEF Writes
  <2>2. w \in Workflows /\ status \in [Workflows -> Status]
        /\ result \in [Workflows -> Results \cup {NoResult}]
    BY <1>1, CommitAdmitted DEF IInv, TypeOK
  <2>3. CASE /\ call[r].op = "Create" /\ call[r].want = "PENDING"
             /\ ResultOf(r) = NoResult /\ ActionOf(r) = "CREATED"
             /\ status[w] = Absent
    <3>1. Lifecycle!Create(w)
      BY <2>1, <2>2, <2>3 DEF Publish, Lifecycle!Create, Lifecycle!Record, Absent, Lifecycle!Absent
    <3>2. QED
      BY <2>1, <2>2, <2>3, <3>1 DEF Lifecycle!Next, Lifecycle!Create
  <2>4. CASE /\ call[r].op = "Start" /\ call[r].want = "RUNNING"
             /\ ResultOf(r) = NoResult /\ ActionOf(r) = "TRANSITIONED_TO_RUNNING"
             /\ status[w] = "PENDING"
    <3>1. Lifecycle!Start(w)
      BY <2>1, <2>2, <2>4 DEF Publish, Lifecycle!Start, Lifecycle!Record, Absent
    <3>2. QED
      BY <2>1, <2>2, <2>4, <3>1 DEF Lifecycle!Next, Lifecycle!Start
  <2>5. CASE /\ call[r].want = "COMPLETED" /\ ActionOf(r) = "COMPLETED"
             /\ ResultOf(r) \in Results /\ status[w] = "RUNNING"
    <3>1. ResultOf(r) # NoResult
      BY <2>5, DistinctValues DEF Results
    <3>2. Lifecycle!Complete(w, ResultOf(r))
      BY <2>1, <2>2, <2>5, <3>1 DEF Publish, Lifecycle!Complete, Lifecycle!Record, Absent
    <3>3. QED
      BY <2>1, <2>2, <2>5, <3>2 DEF Lifecycle!Next, Lifecycle!Complete
  <2>6. CASE /\ call[r].want = "FAILED" /\ ActionOf(r) = "FAILED_DISPATCH"
             /\ ResultOf(r) = NoResult /\ status[w] = "PENDING"
    <3>1. Lifecycle!FailDispatch(w)
      BY <2>1, <2>2, <2>6 DEF Publish, Lifecycle!FailDispatch, Lifecycle!Record, Absent
    <3>2. QED
      BY <2>1, <2>2, <2>6, <3>1 DEF Lifecycle!Next, Lifecycle!FailDispatch
  <2>7. CASE /\ call[r].want = "FAILED" /\ ActionOf(r) = "FAILED_CALLBACK"
             /\ ResultOf(r) \in Results \cup {NoResult} /\ status[w] = "RUNNING"
    <3>1. result[w] = NoResult
      BY <2>2, <2>7 DEF IInv, ResultOnlyWhenFinished, Terminal
    <3>2. result' = [result EXCEPT ![w] = ResultOf(r)]
      BY <2>1, <2>2, <3>1 DEF Publish
    <3>3. Lifecycle!FailRunning(w, ResultOf(r))
      BY <2>1, <2>2, <2>7, <3>2 DEF Publish, Lifecycle!FailRunning, Lifecycle!Record, Absent
    <3>4. QED
      BY <2>1, <2>2, <2>7, <3>3 DEF Lifecycle!Next, Lifecycle!FailRunning
  <2>8. QED
    BY <1>1, <2>3, <2>4, <2>5, <2>6, <2>7, CommitAdmitted
<1>2. CASE tx[r] \in {[NoWrites EXCEPT !.rejects = b] : b \in BOOLEAN}
  BY <1>2 DEF Publish, NoWrites
<1>3. QED
  BY <1>1, <1>2 DEF IInv, Admitted, AdmittedAt

\* A workflow's audit rows and result are in line with its status.
Consistent(w) ==
  /\ auditRows[w] \in TrailsTo(status[w])
  /\ result[w] # NoResult => status[w] \in Terminal
  /\ status[w] = "COMPLETED" => result[w] # NoResult
  /\ auditRows[w]["FAILED_DISPATCH"] > 0 => result[w] = NoResult

\* One more audit row of an action the trail does not have yet.
LEMMA TrailExtends ==
  ASSUME NEW S, NEW a \in AuditAction, a \notin S
  PROVE  [Trail(S) EXCEPT ![a] = @ + 1] = Trail(S \cup {a})
<1>1. Trail(S) \in [AuditAction -> {0, 1}] /\ Trail(S)[a] = 0
  BY DEF Trail
<1>2. [Trail(S) EXCEPT ![a] = @ + 1] \in [AuditAction -> {0, 1}]
  BY <1>1
<1>3. Trail(S \cup {a}) \in [AuditAction -> {0, 1}]
  BY DEF Trail
<1>4. ASSUME NEW x \in AuditAction
      PROVE  [Trail(S) EXCEPT ![a] = @ + 1][x] = Trail(S \cup {a})[x]
  <2>1. CASE x = a
    BY <1>1, <2>1 DEF Trail
  <2>2. CASE x # a
    BY <1>1, <2>2 DEF Trail
  <2>3. QED
    BY <2>1, <2>2
<1>5. QED
  BY <1>2, <1>3, <1>4

\* A step of WorkflowLifecycle keeps every workflow consistent.
LEMMA LifecycleStepKeeps ==
  ASSUME TypeOK, \A v \in Workflows : Consistent(v), Lifecycle!Next
  PROVE  \A v \in Workflows : Consistent(v)'
<1> USE DEF TypeOK
<1>1. PICK w \in Workflows :
         \/ Lifecycle!Create(w)
         \/ Lifecycle!Start(w)
         \/ Lifecycle!FailDispatch(w)
         \/ \E res \in Results : Lifecycle!Complete(w, res)
         \/ \E res \in Results \cup {NoResult} : Lifecycle!FailRunning(w, res)
  BY DEF Lifecycle!Next
<1>2. ASSUME NEW v \in Workflows, v # w PROVE Consistent(v)'
  <2>1. status'[v] = status[v] /\ result'[v] = result[v] /\ auditRows'[v] = auditRows[v]
    BY <1>1, <1>2 DEF Lifecycle!Create, Lifecycle!Start, Lifecycle!FailDispatch,
       Lifecycle!Complete, Lifecycle!FailRunning, Lifecycle!Record
  <2>2. QED
    BY <2>1 DEF Consistent, TrailsTo
<1>3. Consistent(w)'
  <2>1. CASE Lifecycle!Create(w)
    <3>1. status'[w] = "PENDING" /\ result'[w] = NoResult
      BY <2>1 DEF Lifecycle!Create, Consistent, Terminal, Lifecycle!Absent
    <3>2. auditRows'[w] = Trail({"CREATED"})
      <4>1. auditRows[w] = Trail({})
        BY <2>1 DEF Lifecycle!Create, Consistent, TrailsTo, Absent, Lifecycle!Absent, Trail, NoRows
      <4>2. auditRows'[w] = [auditRows[w] EXCEPT !["CREATED"] = @ + 1]
        BY <2>1 DEF Lifecycle!Create, Lifecycle!Record
      <4>3. QED
        BY <4>1, <4>2, TrailExtends, {} \cup {"CREATED"} = {"CREATED"} DEF AuditAction
    <3>3. QED
      BY <3>1, <3>2 DEF Consistent, TrailsTo, Absent, Trail, AuditAction
  <2>2. CASE Lifecycle!Start(w)
    <3>1. status'[w] = "RUNNING" /\ result'[w] = NoResult
      BY <2>2 DEF Lifecycle!Start, Consistent, Terminal
    <3>2. auditRows'[w] = Trail({"CREATED", "TRANSITIONED_TO_RUNNING"})
      <4>1. auditRows[w] = Trail({"CREATED"})
        BY <2>2 DEF Lifecycle!Start, Consistent, TrailsTo, Absent
      <4>2. auditRows'[w] = [auditRows[w] EXCEPT !["TRANSITIONED_TO_RUNNING"] = @ + 1]
        BY <2>2 DEF Lifecycle!Start, Lifecycle!Record
      <4>3. QED
        BY <4>1, <4>2, TrailExtends, {"CREATED"} \cup {"TRANSITIONED_TO_RUNNING"} = {"CREATED", "TRANSITIONED_TO_RUNNING"} DEF AuditAction
    <3>3. QED
      BY <3>1, <3>2 DEF Consistent, TrailsTo, Absent, Trail, AuditAction
  <2>3. CASE Lifecycle!FailDispatch(w)
    <3>1. status'[w] = "FAILED" /\ result'[w] = NoResult
      BY <2>3 DEF Lifecycle!FailDispatch, Consistent, Terminal
    <3>2. auditRows'[w] = Trail({"CREATED", "FAILED_DISPATCH"})
      <4>1. auditRows[w] = Trail({"CREATED"})
        BY <2>3 DEF Lifecycle!FailDispatch, Consistent, TrailsTo, Absent
      <4>2. auditRows'[w] = [auditRows[w] EXCEPT !["FAILED_DISPATCH"] = @ + 1]
        BY <2>3 DEF Lifecycle!FailDispatch, Lifecycle!Record
      <4>3. QED
        BY <4>1, <4>2, TrailExtends, {"CREATED"} \cup {"FAILED_DISPATCH"} = {"CREATED", "FAILED_DISPATCH"} DEF AuditAction
    <3>3. QED
      BY <3>1, <3>2 DEF Consistent, TrailsTo, Absent, Trail, AuditAction, Terminal
  <2>4. ASSUME NEW res \in Results, Lifecycle!Complete(w, res) PROVE Consistent(w)'
    <3>1. status'[w] = "COMPLETED" /\ result'[w] = res /\ res # NoResult
      BY <2>4, DistinctValues DEF Lifecycle!Complete, Results
    <3>2. auditRows'[w] = Trail({"CREATED", "TRANSITIONED_TO_RUNNING", "COMPLETED"})
      <4>1. auditRows[w] = Trail({"CREATED", "TRANSITIONED_TO_RUNNING"})
        BY <2>4 DEF Lifecycle!Complete, Consistent, TrailsTo, Absent
      <4>2. auditRows'[w] = [auditRows[w] EXCEPT !["COMPLETED"] = @ + 1]
        BY <2>4 DEF Lifecycle!Complete, Lifecycle!Record
      <4>3. QED
        BY <4>1, <4>2, TrailExtends, {"CREATED", "TRANSITIONED_TO_RUNNING"} \cup {"COMPLETED"} = {"CREATED", "TRANSITIONED_TO_RUNNING", "COMPLETED"} DEF AuditAction
    <3>3. QED
      BY <3>1, <3>2 DEF Consistent, TrailsTo, Absent, Trail, AuditAction, Terminal
  <2>5. ASSUME NEW res \in Results \cup {NoResult}, Lifecycle!FailRunning(w, res)
        PROVE  Consistent(w)'
    <3>1. status'[w] = "FAILED"
      BY <2>5 DEF Lifecycle!FailRunning
    <3>2. auditRows'[w] = Trail({"CREATED", "TRANSITIONED_TO_RUNNING", "FAILED_CALLBACK"})
      <4>1. auditRows[w] = Trail({"CREATED", "TRANSITIONED_TO_RUNNING"})
        BY <2>5 DEF Lifecycle!FailRunning, Consistent, TrailsTo, Absent
      <4>2. auditRows'[w] = [auditRows[w] EXCEPT !["FAILED_CALLBACK"] = @ + 1]
        BY <2>5 DEF Lifecycle!FailRunning, Lifecycle!Record
      <4>3. QED
        BY <4>1, <4>2, TrailExtends, {"CREATED", "TRANSITIONED_TO_RUNNING"} \cup {"FAILED_CALLBACK"} = {"CREATED", "TRANSITIONED_TO_RUNNING", "FAILED_CALLBACK"} DEF AuditAction
    <3>3. QED
      BY <3>1, <3>2 DEF Consistent, TrailsTo, Absent, Trail, AuditAction, Terminal
  <2>6. QED
    BY <1>1, <2>1, <2>2, <2>3, <2>4, <2>5
<1>4. QED
  BY <1>2, <1>3

LEMMA ConsistentIsBoth ==
  (\A v \in Workflows : Consistent(v)) <=> AuditMatchesStatus /\ ResultOnlyWhenFinished
BY DEF Consistent, AuditMatchesStatus, ResultOnlyWhenFinished

LEMMA PublishKeepsTypes ==
  ASSUME IInv, NEW r \in Requests, pc[r] = "commit", Publish(r)
  PROVE  /\ status' \in [Workflows -> Status]
         /\ result' \in [Workflows -> Results \cup {NoResult}]
         /\ auditRows' \in [Workflows -> [AuditAction -> Nat]]
         /\ rejected' \subseteq Rejection
<1>1. tx[r] \in Buffer /\ call[r] \in Call /\ read[r] \in Status
  BY DEF IInv, TypeOK, CallsOK
<1>2. call[r].wf \in Workflows
  BY <1>1 DEF Call
<1>3. rejected' \subseteq Rejection
  BY <1>1, <1>2 DEF Publish, IInv, TypeOK, Rejection
<1>4. auditRows' \in [Workflows -> [AuditAction -> Nat]]
  BY <1>1, <1>2 DEF Publish, IInv, TypeOK, Buffer
<1>5. QED
  BY <1>1, <1>2, <1>3, <1>4 DEF Publish, IInv, TypeOK, Buffer

LEMMA PublishIInv ==
  ASSUME IInv, NEW r \in Requests, NEW ans \in Answer, pc[r] = "commit",
         Publish(r), Finish(r, ans), UNCHANGED read
  PROVE  IInv'
<1>1. \A v \in Workflows : Consistent(v)'
  <2>1. \A v \in Workflows : Consistent(v)
    BY ConsistentIsBoth DEF IInv
  <2>2. CASE Lifecycle!Next
    BY <2>1, <2>2, LifecycleStepKeeps DEF IInv
  <2>3. CASE UNCHANGED <<status, result, auditRows>>
    BY <2>1, <2>3 DEF Consistent, TrailsTo
  <2>4. QED
    BY <2>2, <2>3, PublishIsLifecycleStep
<1>2. AuditMatchesStatus' /\ ResultOnlyWhenFinished'
  BY <1>1 DEF Consistent, AuditMatchesStatus, ResultOnlyWhenFinished
<1>3. ASSUME NEW q \in Requests \ {r}, Relies(q)
      PROVE  status'[call[q].wf] = status[call[q].wf]
  <2>1. call[q] \in Call /\ call[r] \in Call /\ Active(r) /\ Active(q)
    BY <1>3 DEF IInv, CallsOK, Active, Relies
  <2>2. call[q].wf \in Workflows /\ call[r].wf \in Workflows
    BY <2>1 DEF Call
  <2>3. call[q].wf # call[r].wf
    <3>1. CASE call[q].op = "Create"
      BY <1>3, <2>1, <3>1 DEF IInv, CreationsFresh, Checked
    <3>2. CASE call[q].op # "Create"
      BY <1>3, <2>1, <3>2 DEF IInv, CreationsFresh, Checked, Relies
    <3>3. QED
      BY <3>1, <3>2
  <2>4. QED
    BY <2>2, <2>3, PublishIsLifecycleStep
<1>4. QED
  BY <1>2, <1>3, FinishIInv, PublishKeepsTypes DEF Active, IInv, TypeOK

\* The process dies: what was open is gone, the tables are as they were.
LEMMA CrashIInv == ASSUME IInv, Crash PROVE IInv'
<1> USE DEF Crash, IInv, database
<1>1. TypeOK'
  <2>1. NoWrites \in Buffer
    BY DEF NoWrites, Buffer, Status
  <2>2. QED
    BY <2>1 DEF TypeOK, Step, Answer
<1>2. CallsOK'
  BY DEF CallsOK, TypeOK, Active
<1>3. CreationsFresh'
  BY DEF CreationsFresh, TypeOK, Active
<1>4. \A q \in Requests : pc'[q] \in {"idle", "done"}
  BY DEF TypeOK, Active
<1>5. Checked' /\ CreatesDoNotRead'
  BY <1>4 DEF Checked, CreatesDoNotRead
<1>6. Admitted'
  BY <1>4 DEF Admitted, AdmittedAt
<1>7. AuditMatchesStatus' /\ ResultOnlyWhenFinished'
  BY DEF AuditMatchesStatus, ResultOnlyWhenFinished
<1>8. QED
  BY <1>1, <1>2, <1>3, <1>5, <1>6, <1>7

\* Every step keeps the inductive invariant.
LEMMA StepIInv == IInv /\ [Next]_vars => IInv'
<1> SUFFICES ASSUME IInv, [Next]_vars PROVE IInv'
  OBVIOUS
<1>1. ASSUME NEW r \in Requests, Arrive(r) PROVE IInv'
  BY <1>1, ArriveIInv
<1>2. ASSUME NEW r \in Requests, Advance(r) PROVE IInv'
  <2>1. CASE LockMachine(r)
    BY <2>1, LockMachineIInv
  <2>2. CASE BeginTx(r)
    BY <2>2, BeginTxIInv
  <2>3. CASE GetWorkflow(r)
    BY <2>3, GetWorkflowIInv
  <2>4. CASE GetNothing(r)
    BY <2>4, ReturnIInv DEF GetNothing, Active, Answer
  <2>5. CASE Write(r)
    BY <2>5, WriteIInv
  <2>6. CASE RecordRejectedTerminal(r)
    BY <2>6, RecordRejectedTerminalIInv
  <2>7. CASE Commit(r)
    BY <2>7, PublishIInv DEF Commit, Answer
  <2>8. QED
    BY <1>2, <2>1, <2>2, <2>3, <2>4, <2>5, <2>6, <2>7 DEF Advance
<1>3. ASSUME NEW r \in Requests, CommitUnknown(r) PROVE IInv'
  BY <1>3, PublishIInv DEF CommitUnknown, Answer
<1>4. ASSUME NEW r \in Requests, StepFails(r) PROVE IInv'
  BY <1>4, ReturnIInv DEF StepFails, Active, Answer
<1>5. CASE Crash
  BY <1>5, CrashIInv
<1>6. CASE UNCHANGED vars
  <2>1. TypeOK' /\ CallsOK' /\ CreationsFresh' /\ Checked' /\ CreatesDoNotRead'
    BY <1>6 DEF IInv, vars, TypeOK, CallsOK, CreationsFresh, Checked, CreatesDoNotRead, Active
  <2>2. Admitted'
    BY <1>6, AdmittedFrame DEF IInv, vars, Admitted
  <2>3. AuditMatchesStatus' /\ ResultOnlyWhenFinished'
    BY <1>6 DEF IInv, vars, AuditMatchesStatus, ResultOnlyWhenFinished
  <2>4. QED
    BY <2>1, <2>2, <2>3 DEF IInv
<1>7. QED
  BY <1>1, <1>2, <1>3, <1>4, <1>5, <1>6 DEF Next

\* The inductive invariant holds of every reachable state.
THEOREM Invariance == Spec => []IInv
BY InitIInv, StepIInv, PTL DEF Spec

-----------------------------------------------------------------------------
(* The theorems.                                                           *)

\* Every variable keeps its type, whatever fails.
THEOREM TypeCorrect == Spec => []TypeOK
BY Invariance, PTL DEF IInv

\* The audit rows of a workflow are exactly the path to its status.
THEOREM AuditTrail == Spec => []AuditMatchesStatus
BY Invariance, PTL DEF IInv

\* A result is there exactly when a report ended the workflow.
THEOREM ResultSound == Spec => []ResultOnlyWhenFinished
BY Invariance, PTL DEF IInv

\* Each step of the service is one step of WorkflowLifecycle on the tables, or
\* none.
LEMMA StepIsLifecycleStep ==
  IInv /\ [Next]_vars => [Lifecycle!Next]_<<status, result, auditRows>>
<1> SUFFICES ASSUME IInv, [Next]_vars
             PROVE  Lifecycle!Next \/ UNCHANGED <<status, result, auditRows>>
  OBVIOUS
<1>1. ASSUME NEW r \in Requests, Commit(r) \/ CommitUnknown(r)
      PROVE  Lifecycle!Next \/ UNCHANGED <<status, result, auditRows>>
  BY <1>1, PublishIsLifecycleStep DEF Commit, CommitUnknown
<1>2. ASSUME NEW r \in Requests, GetNothing(r) \/ StepFails(r)
      PROVE  UNCHANGED <<status, result, auditRows>>
  BY <1>2 DEF GetNothing, StepFails, Return, database
<1>3. ASSUME NEW r \in Requests,
             Arrive(r) \/ LockMachine(r) \/ BeginTx(r) \/ GetWorkflow(r) \/ Write(r)
               \/ RecordRejectedTerminal(r)
      PROVE  UNCHANGED <<status, result, auditRows>>
  BY <1>3 DEF Arrive, LockMachine, BeginTx, GetWorkflow, Write, RecordRejectedTerminal, database
<1>4. CASE Crash \/ UNCHANGED vars
  BY <1>4 DEF Crash, vars, database
<1>5. QED
  BY <1>1, <1>2, <1>3, <1>4 DEF Next, Advance

\* The service implements its abstract specification.
THEOREM Refinement == Spec => ImplementsLifecycle
<1>1. Init => Lifecycle!Init
  BY DEF Init, Lifecycle!Init, Absent, Lifecycle!Absent, NoRows, Lifecycle!NoRows,
     AuditAction, Lifecycle!AuditAction
<1>2. IInv /\ [Next]_vars => [Lifecycle!Next]_Lifecycle!vars
  BY StepIsLifecycleStep DEF Lifecycle!vars
<1>3. QED
  BY <1>1, <1>2, Invariance, PTL DEF Spec, Lifecycle!Spec, ImplementsLifecycle

-----------------------------------------------------------------------------
(* What the callers were told.                                             *)

AnsweredIsDone == \A r \in Requests : answer[r] # "none" => pc[r] = "done"

AInv == IInv /\ AnsweredIsDone /\ FinishedOnce

\* A step that ends no workflow, and tells nobody that it did.
LEMMA QuietStep ==
  ASSUME AInv, UNCHANGED <<status, result>>,
         \A q \in Requests : answer'[q] = "ok" /\ call'[q].want \in Terminal =>
                               answer[q] = "ok" /\ call'[q] = call[q]
  PROVE  FinishedOnce'
BY DEF AInv, FinishedOnce, ResultOf

\* A commit that publishes finds the workflow unfinished, so nobody had been
\* told before that it ended.
LEMMA CommitFinishesOnce ==
  ASSUME AInv, NEW r \in Requests, NEW ans \in {"ok", "error"}, pc[r] = "commit",
         tx[r] = Writes(r), Admits(r, read[r]), Publish(r), Finish(r, ans)
  PROVE  FinishedOnce'
<1> DEFINE w == call[r].wf
<1>1. /\ w \in Workflows /\ status[w] \notin Terminal
      /\ status \in [Workflows -> Status] /\ answer \in [Requests -> Answer]
      /\ result \in [Workflows -> Results \cup {NoResult}]
      /\ call[r].want # Absent
  BY CommitAdmitted DEF AInv, IInv, TypeOK, Terminal, Absent
<1>2. result[w] = NoResult
  BY <1>1 DEF AInv, IInv, ResultOnlyWhenFinished
<1>3. status'[w] = call[r].want /\ result'[w] = ResultOf(r)
  BY <1>1, <1>2 DEF Publish, Writes
<1>4. \A v \in Workflows \ {w} : status'[v] = status[v] /\ result'[v] = result[v]
  BY <1>1 DEF Publish
<1>5. call' = call /\ \A q \in Requests \ {r} : answer'[q] = answer[q]
  BY <1>1 DEF Finish
<1>6. \A q \in Requests \ {r} :
         answer[q] = "ok" /\ call[q].want \in Terminal => call[q].wf \in Workflows \ {w}
  <2> SUFFICES ASSUME NEW q \in Requests \ {r}, answer[q] = "ok", call[q].want \in Terminal
               PROVE  call[q].wf \in Workflows \ {w}
    OBVIOUS
  <2>1. call[q] \in Call
    BY DEF AInv, AnsweredIsDone, IInv, CallsOK
  <2>2. status[call[q].wf] \in Terminal
    BY DEF AInv, FinishedOnce
  <2>3. QED
    BY <1>1, <2>1, <2>2 DEF Call
<1>7. \A q \in Requests : ResultOf(q)' = ResultOf(q)
  BY <1>5 DEF ResultOf
<1>8. QED
  <2> SUFFICES ASSUME NEW q \in Requests, answer'[q] = "ok", call'[q].want \in Terminal
               PROVE  /\ status'[call'[q].wf] = call'[q].want
                      /\ result'[call'[q].wf] = ResultOf(q)'
                      /\ \A p \in Requests \ {q} :
                           ~(answer'[p] = "ok" /\ call'[p].wf = call'[q].wf
                             /\ call'[p].want \in Terminal)
    BY DEF FinishedOnce
  <2>1. CASE q = r
    BY <1>3, <1>5, <1>6, <1>7, <2>1
  <2>2. CASE q # r
    <3>1. answer[q] = "ok" /\ call[q].want \in Terminal /\ call[q].wf \in Workflows \ {w}
      BY <1>5, <1>6, <2>2
    <3>2. /\ status[call[q].wf] = call[q].want /\ result[call[q].wf] = ResultOf(q)
          /\ \A p \in Requests \ {q} :
                 ~(answer[p] = "ok" /\ call[p].wf = call[q].wf /\ call[p].want \in Terminal)
      BY <3>1 DEF AInv, FinishedOnce
    <3>3. ASSUME NEW p \in Requests \ {q}, answer'[p] = "ok", call[p].wf = call[q].wf,
                 call[p].want \in Terminal
          PROVE  FALSE
      BY <1>5, <3>1, <3>2, <3>3
    <3>4. QED
      BY <1>4, <1>5, <1>7, <3>1, <3>2, <3>3
  <2>3. QED
    BY <2>1, <2>2

LEMMA StepAInv == AInv /\ [Next]_vars => AInv'
<1> SUFFICES ASSUME AInv, [Next]_vars PROVE AnsweredIsDone' /\ FinishedOnce'
  BY StepIInv DEF AInv
<1>0. TypeOK /\ CallsOK /\ AnsweredIsDone /\ FinishedOnce
  BY DEF AInv, IInv
<1>1. ASSUME NEW r \in Requests, Arrive(r) PROVE AnsweredIsDone' /\ FinishedOnce'
  <2>1. answer[r] = "none" /\ answer' = answer /\ UNCHANGED <<status, result>>
        /\ \A q \in Requests \ {r} : call'[q] = call[q] /\ pc'[q] = pc[q]
    BY <1>0, <1>1 DEF Arrive, AnsweredIsDone, TypeOK, database
  <2>2. AnsweredIsDone'
    BY <1>0, <2>1 DEF AnsweredIsDone
  <2>3. QED
    BY <2>1, <2>2, QuietStep
<1>2. ASSUME NEW r \in Requests,
             LockMachine(r) \/ BeginTx(r) \/ Write(r) \/ RecordRejectedTerminal(r)
      PROVE  AnsweredIsDone' /\ FinishedOnce'
  <2>1. UNCHANGED <<status, result, answer, call>> /\ pc[r] # "done"
        /\ \A q \in Requests \ {r} : pc'[q] = pc[q]
    BY <1>0, <1>2
       DEF LockMachine, BeginTx, Write, RecordRejectedTerminal, TypeOK, database
  <2>2. QED
    BY <1>0, <2>1, QuietStep DEF AnsweredIsDone
<1>3. ASSUME NEW r \in Requests, NEW ans \in Answer, Finish(r, ans)
      PROVE  AnsweredIsDone'
  BY <1>0, <1>3 DEF Finish, AnsweredIsDone, TypeOK
<1>4. ASSUME NEW r \in Requests, GetWorkflow(r) PROVE AnsweredIsDone' /\ FinishedOnce'
  <2>1. UNCHANGED <<status, result>> /\ pc[r] = "get" /\ call' = call
        /\ call[r] \in Call /\ WellFormed(call[r], r)
    BY <1>0, <1>4 DEF GetWorkflow, Finish, database, CallsOK
  <2>2. CASE call[r].op = "Read" /\ Finish(r, "ok")
    <3>1. call[r].want \notin Terminal
      BY <2>1, <2>2 DEF WellFormed, Terminal, Absent
    <3>2. \A q \in Requests \ {r} : answer'[q] = answer[q]
      BY <1>0, <2>2 DEF Finish, TypeOK
    <3>3. QED
      BY <1>3, <2>1, <2>2, <3>1, <3>2, QuietStep DEF Answer
  <2>3. CASE Finish(r, "conflict")
    <3>1. answer'[r] = "conflict" /\ \A q \in Requests \ {r} : answer'[q] = answer[q]
      BY <1>0, <2>3 DEF Finish, TypeOK
    <3>2. QED
      BY <1>3, <2>1, <2>3, <3>1, QuietStep DEF Answer
  <2>4. CASE answer' = answer /\ \A q \in Requests \ {r} : pc'[q] = pc[q]
    BY <1>0, <2>1, <2>4, QuietStep DEF AnsweredIsDone
  <2>5. QED
    BY <1>0, <1>4, <2>2, <2>3, <2>4 DEF GetWorkflow, TypeOK
<1>5. ASSUME NEW r \in Requests, GetNothing(r) \/ StepFails(r)
      PROVE  AnsweredIsDone' /\ FinishedOnce'
  <2>1. PICK ans \in {"notfound", "error", "conflict"} : Return(r, ans)
    BY <1>5 DEF GetNothing, StepFails
  <2>2. answer'[r] = ans /\ call' = call /\ UNCHANGED <<status, result>>
        /\ \A q \in Requests \ {r} : answer'[q] = answer[q]
    BY <1>0, <2>1 DEF Return, Finish, TypeOK, database
  <2>3. QED
    BY <1>3, <2>1, <2>2, QuietStep DEF Answer, Return
<1>6. ASSUME NEW r \in Requests, Commit(r) \/ CommitUnknown(r)
      PROVE  AnsweredIsDone' /\ FinishedOnce'
  <2>1. pc[r] = "commit" /\ Publish(r)
    BY <1>6 DEF Commit, CommitUnknown
  <2>2. CASE tx[r] = Writes(r) /\ Admits(r, read[r])
    <3>1. ActionOf(r) # "none"
      BY <2>1, <2>2, CommitAdmitted DEF AInv
    <3>2. PICK ans \in {"ok", "error"} : Finish(r, ans)
      BY <1>6, <2>2, <3>1 DEF Commit, CommitUnknown, Refused, Writes
    <3>3. QED
      BY <1>3, <2>1, <2>2, <3>2, CommitFinishesOnce DEF Answer
  <2>3. CASE /\ call[r].op = "Callback"
             /\ tx[r] \in {[NoWrites EXCEPT !.rejects = b] : b \in BOOLEAN}
    <3>1. Finish(r, "conflict") /\ UNCHANGED <<status, result>>
      BY <1>6, <2>1, <2>3 DEF Commit, CommitUnknown, Refused, Publish, NoWrites
    <3>2. answer'[r] = "conflict" /\ call' = call
          /\ \A q \in Requests \ {r} : answer'[q] = answer[q]
      BY <1>0, <3>1 DEF Finish, TypeOK
    <3>3. QED
      BY <1>3, <3>1, <3>2, QuietStep DEF Answer
  <2>4. QED
    BY <2>1, <2>2, <2>3 DEF AInv, IInv, Admitted, AdmittedAt
<1>7. CASE Crash
  <2>1. /\ \A q \in Requests : pc'[q] \in {"idle", "done"} /\ answer'[q] \in {answer[q], "error"}
        /\ \A q \in Requests : answer'[q] # "none" => pc'[q] = "done"
        /\ UNCHANGED <<status, result, call>>
    BY <1>0, <1>7 DEF Crash, Active, AnsweredIsDone, TypeOK, database
  <2>2. QED
    BY <2>1, QuietStep DEF AnsweredIsDone
<1>8. CASE UNCHANGED vars
  BY <1>0, <1>8, QuietStep DEF vars, AnsweredIsDone
<1>9. QED
  BY <1>1, <1>2, <1>4, <1>5, <1>6, <1>7, <1>8 DEF Next, Advance

\* However often a report is repeated and whatever races with it, one caller at
\* most is told that it ended the workflow, and the row holds what it asked for.
THEOREM EndedByOne == Spec => []FinishedOnce
<1>1. Init => AInv
  BY InitIInv DEF Init, AInv, AnsweredIsDone, FinishedOnce
<1>2. QED
  BY <1>1, StepAInv, PTL DEF Spec, AInv

-----------------------------------------------------------------------------
(* Nobody waits for ever: the safety half of EveryCallAnswered.            *)

\* The guard of Advance(r): the mutex is free, the pool has a connection, the
\* row is free or not there; the other steps wait for nobody.
Ready(r) ==
  \/ pc[r] = "lock" /\ mu = NoReq
  \/ pc[r] = "begin" /\ Cardinality({q \in Requests : InTx(q)}) < MaxConns
  \/ pc[r] = "get" /\ (status[call[r].wf] = Absent \/ rowLock[call[r].wf] = NoReq)
  \/ pc[r] \in {"write", "reject", "commit"}

\* Mutex before connection before row: a call that holds one has left the wait
\* for it behind, and a call that holds a row waits for nothing.
HoldersActive ==
  /\ mu # NoReq => Active(mu) /\ pc[mu] # "lock"
  /\ \A w \in Workflows :
       rowLock[w] # NoReq => pc[rowLock[w]] \in {"write", "reject", "commit"}

\* As long as a call is in flight, some call can take its next step.
SomeoneReady == (\E r \in Requests : Active(r)) => \E r \in Requests : Ready(r)

\* How many steps a call is from its answer, at most.
Distance(r) ==
  CASE pc[r] = "idle" -> 6  [] pc[r] = "lock" -> 5  [] pc[r] = "begin" -> 4
    [] pc[r] = "get" -> 3   [] pc[r] \in {"write", "reject"} -> 2
    [] pc[r] = "commit" -> 1 [] OTHER -> 0

\* No step takes a call further from its answer, and each brings one nearer.
Nearer ==
  /\ \A r \in Requests : Distance(r)' <= Distance(r)
  /\ \E r \in Requests : Distance(r)' < Distance(r)

\* The end of a request gives back what it held.
LEMMA FinishReleases ==
  ASSUME TypeOK, HoldersActive, NEW r \in Requests, NEW ans, Finish(r, ans)
  PROVE  HoldersActive'
BY DistinctValues DEF Finish, Release, HoldersActive, TypeOK, Active

LEMMA HoldersStep ==
  ASSUME TypeOK, CallsOK, HoldersActive, [Next]_vars PROVE HoldersActive'
<1> USE DEF TypeOK, HoldersActive, database, locks, Active
<1>1. ASSUME NEW r \in Requests, Arrive(r) PROVE HoldersActive'
  BY <1>1, DistinctValues DEF Arrive
<1>2. ASSUME NEW r \in Requests, LockMachine(r) PROVE HoldersActive'
  BY <1>2, DistinctValues DEF LockMachine
<1>3. ASSUME NEW r \in Requests, BeginTx(r) \/ Write(r) \/ RecordRejectedTerminal(r)
      PROVE  HoldersActive'
  <2>1. /\ UNCHANGED <<mu, rowLock>> /\ pc[r] \in {"begin", "write", "reject"}
        /\ pc[r] = "begin" => pc'[r] \in {"get", "write"}
        /\ pc[r] # "begin" => pc'[r] = "commit"
        /\ \A q \in Requests \ {r} : pc'[q] = pc[q]
    BY <1>3 DEF BeginTx, Write, RecordRejectedTerminal
  <2>2. mu # NoReq => Active(mu)' /\ pc'[mu] # "lock"
    BY <2>1
  <2>3. ASSUME NEW w \in Workflows, rowLock[w] # NoReq
        PROVE  pc'[rowLock[w]] \in {"write", "reject", "commit"}
    BY <2>1, <2>3
  <2>4. QED
    BY <2>1, <2>2, <2>3
<1>4. ASSUME NEW r \in Requests, GetWorkflow(r) PROVE HoldersActive'
  <2>1. CASE Finish(r, "ok") \/ Finish(r, "conflict")
    BY <2>1, FinishReleases
  <2>2. CASE /\ rowLock' = [rowLock EXCEPT ![call[r].wf] = r]
             /\ pc' = [pc EXCEPT ![r] = IF Admits(r, status[call[r].wf]) THEN "write"
                                                                        ELSE "reject"]
             /\ UNCHANGED <<mu, call, tx, answer>>
    BY <1>4, <2>2, DistinctValues DEF GetWorkflow
  <2>3. QED
    BY <1>4, <2>1, <2>2 DEF GetWorkflow
<1>5. ASSUME NEW r \in Requests, GetNothing(r) \/ StepFails(r) \/ Commit(r) \/ CommitUnknown(r)
      PROVE  HoldersActive'
  <2>1. PICK ans : Finish(r, ans)
    BY <1>5 DEF GetNothing, StepFails, Return, Commit, CommitUnknown
  <2>2. QED
    BY <2>1, FinishReleases
<1>6. CASE Crash
  BY <1>6 DEF Crash
<1>7. CASE UNCHANGED vars
  BY <1>7 DEF vars
<1>8. QED
  BY <1>1, <1>2, <1>3, <1>4, <1>5, <1>6, <1>7 DEF Next, Advance

\* Walk from a waiting call to the call it waits for: from the mutex to its
\* holder, from the pool to a call in a transaction, from a row to the call that
\* holds it, which waits for nobody.
LEMMA HoldersSuffice ==
  ASSUME TypeOK, CallsOK, HoldersActive PROVE SomeoneReady
<1> SUFFICES ASSUME NEW r \in Requests, Active(r) PROVE \E q \in Requests : Ready(q)
  BY DEF SomeoneReady
<1>1. ASSUME NEW q \in Requests, InTx(q) PROVE \E p \in Requests : Ready(p)
  <2>1. CASE Ready(q)
    BY <2>1
  <2>2. CASE ~Ready(q)
    <3> DEFINE w == call[q].wf
    <3>1. pc[q] = "get" /\ status[w] # Absent /\ rowLock[w] # NoReq
      BY <1>1, <2>2 DEF InTx, Ready
    <3>2. w \in Workflows
      BY <3>1 DEF CallsOK, Call
    <3>3. rowLock[w] \in Requests /\ pc[rowLock[w]] \in {"write", "reject", "commit"}
      BY <3>1, <3>2 DEF TypeOK, HoldersActive
    <3>4. QED
      BY <3>3 DEF Ready
  <2>3. QED
    BY <2>1, <2>2
<1>2. ASSUME NEW q \in Requests, pc[q] = "begin" PROVE \E p \in Requests : Ready(p)
  <2>1. CASE \E p \in Requests : InTx(p)
    BY <1>1, <2>1
  <2>2. CASE ~ \E p \in Requests : InTx(p)
    <3>1. {p \in Requests : InTx(p)} = {}
      BY <2>2
    <3>2. Cardinality({p \in Requests : InTx(p)}) < MaxConns
      BY <3>1, FS_EmptySet, MaxConnsAssumption
    <3>3. QED
      BY <1>2, <3>2 DEF Ready
  <2>3. QED
    BY <2>1, <2>2
<1>3. ASSUME NEW q \in Requests, Active(q), pc[q] # "lock"
      PROVE  \E p \in Requests : Ready(p)
  <2>1. pc[q] \in {"begin", "get", "write", "reject", "commit"}
    BY <1>3 DEF TypeOK, Step, Active
  <2>2. QED
    BY <1>1, <1>2, <2>1 DEF InTx
<1>4. CASE pc[r] = "lock"
  <2>1. CASE mu = NoReq
    BY <1>4, <2>1 DEF Ready
  <2>2. CASE mu # NoReq
    BY <1>3, <2>2 DEF TypeOK, HoldersActive
  <2>3. QED
    BY <2>1, <2>2
<1>5. QED
  BY <1>3, <1>4

\* Whatever the calls, their order and the size of the pool, the mutex, the
\* connections and the rows' locks never wait on each other: no deadlock.
THEOREM NoDeadlock == Spec => []SomeoneReady
<1>1. Init => HoldersActive
  BY DEF Init, HoldersActive
<1>2. IInv /\ HoldersActive /\ [Next]_vars => HoldersActive'
  BY HoldersStep DEF IInv
<1>3. IInv /\ HoldersActive => SomeoneReady
  BY HoldersSuffice DEF IInv
<1>4. QED
  BY <1>1, <1>2, <1>3, Invariance, PTL DEF Spec

\* A step of one call that lowers its distance leaves the others where they are.
LEMMA NearerByOne ==
  ASSUME NEW r \in Requests, \A q \in Requests \ {r} : pc'[q] = pc[q],
         \/ pc[r] = "idle" /\ pc'[r] \in {"lock", "begin"}
         \/ pc[r] = "lock" /\ pc'[r] = "begin"
         \/ pc[r] = "begin" /\ pc'[r] \in {"get", "write"}
         \/ pc[r] = "get" /\ pc'[r] \in {"write", "reject"}
         \/ pc[r] \in {"write", "reject"} /\ pc'[r] = "commit"
         \/ pc[r] \in Step /\ Active(r) /\ pc'[r] = "done"
  PROVE  Nearer
<1>1. Distance(r)' < Distance(r) /\ Distance(r)' <= Distance(r)
  BY DEF Distance, Step, Active
<1>2. ASSUME NEW q \in Requests \ {r} PROVE Distance(q)' <= Distance(q)
  BY DEF Distance
<1>3. QED
  BY <1>1, <1>2 DEF Nearer

\* Each step brings some call nearer to its answer and none further from it, so
\* finitely many calls take finitely many steps; with NoDeadlock and a
\* scheduler that does not stop, every one of them is answered.
THEOREM EveryStepCounts == Spec => [][Nearer]_vars
<1>1. ASSUME TypeOK, Next PROVE Nearer
  <2> USE <1>1 DEF TypeOK
  <2>1. ASSUME NEW r \in Requests, Arrive(r) PROVE Nearer
    <3>1. /\ pc[r] = "idle" /\ pc'[r] \in {"lock", "begin"}
          /\ \A q \in Requests \ {r} : pc'[q] = pc[q]
      BY <2>1 DEF Arrive
    <3>2. QED
      BY <3>1, NearerByOne
  <2>2. ASSUME NEW r \in Requests,
               LockMachine(r) \/ BeginTx(r) \/ Write(r) \/ RecordRejectedTerminal(r)
        PROVE  Nearer
    <3>1. \A q \in Requests \ {r} : pc'[q] = pc[q]
      BY <2>2 DEF LockMachine, BeginTx, Write, RecordRejectedTerminal
    <3>2. \/ pc[r] = "lock" /\ pc'[r] = "begin"
          \/ pc[r] = "begin" /\ pc'[r] \in {"get", "write"}
          \/ pc[r] \in {"write", "reject"} /\ pc'[r] = "commit"
      BY <2>2 DEF LockMachine, BeginTx, Write, RecordRejectedTerminal
    <3>3. QED
      BY <3>1, <3>2, NearerByOne
  <2>3. ASSUME NEW r \in Requests, NEW ans, Active(r), Finish(r, ans) PROVE Nearer
    <3>1. /\ pc[r] \in Step /\ pc'[r] = "done"
          /\ \A q \in Requests \ {r} : pc'[q] = pc[q]
      BY <2>3 DEF Finish
    <3>2. QED
      BY <2>3, <3>1, NearerByOne
  <2>4. ASSUME NEW r \in Requests, GetWorkflow(r) PROVE Nearer
    <3>1. pc[r] = "get" /\ Active(r)
      BY <2>4 DEF GetWorkflow, Active
    <3>2. CASE Finish(r, "ok") \/ Finish(r, "conflict")
      BY <2>3, <3>1, <3>2
    <3>3. CASE pc' = [pc EXCEPT ![r] = IF Admits(r, status[call[r].wf]) THEN "write"
                                                                        ELSE "reject"]
      <4>1. /\ pc'[r] \in {"write", "reject"}
            /\ \A q \in Requests \ {r} : pc'[q] = pc[q]
        BY <3>3
      <4>2. QED
        BY <3>1, <4>1, NearerByOne
    <3>4. QED
      BY <2>4, <3>2, <3>3 DEF GetWorkflow
  <2>5. ASSUME NEW r \in Requests, GetNothing(r) \/ StepFails(r) PROVE Nearer
    BY <2>3, <2>5 DEF GetNothing, StepFails, Return, Active
  <2>6. ASSUME NEW r \in Requests, Commit(r) \/ CommitUnknown(r) PROVE Nearer
    BY <2>3, <2>6 DEF Commit, CommitUnknown, Active
  <2>7. CASE Crash
    <3>1. PICK r \in Requests : Active(r)
      BY <2>7 DEF Crash
    <3>2. pc[r] \in Step \ {"idle", "done"} /\ pc'[r] = "done"
      BY <2>7, <3>1 DEF Crash, Active
    <3>3. Distance(r)' < Distance(r)
      BY <3>2 DEF Distance, Step
    <3>4. ASSUME NEW q \in Requests PROVE Distance(q)' <= Distance(q)
      BY <2>7 DEF Crash, Distance, Step, Active
    <3>5. QED
      BY <3>3, <3>4 DEF Nearer
  <2>8. QED
    BY <1>1, <2>1, <2>2, <2>4, <2>5, <2>6, <2>7 DEF Next, Advance
<1>2. [Next]_vars /\ TypeOK => [Nearer]_vars
  BY <1>1
<1>3. QED
  BY <1>2, TypeCorrect, PTL DEF Spec
=============================================================================
