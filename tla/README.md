# A verification of iroum-ax

iroum-ax helps public institutions to prepare their management evaluation. A control plane
in Go (`src/apps/control-plane`) keeps workflows, evaluation items, scores, evidence, review
requests and rubrics in PostgreSQL and serves them over REST and gRPC. Python workers
(`src/pipelines`) ingest documents and report back over HTTP. A Next.js site (`src/apps/web`)
is the interface. This directory holds TLA+ models of the parts of it whose correctness
depends on the order of events, TLC configurations that check them on small instances, and
proofs that TLAPS checks for instances of any size.

Contents:

1. [Inventory](#1-inventory)
2. [What is hard in this code](#2-what-is-hard-in-this-code)
3. [The modules](#3-the-modules)
4. [The runs](#4-the-runs)
5. [Fairness](#5-fairness)
6. [What is proved](#6-what-is-proved)
7. [Where the code and its documents disagree](#7-where-the-code-and-its-documents-disagree)
8. [What is not modelled](#8-what-is-not-modelled)
9. [Plan](#9-plan)

Paths below are relative to `src/apps/control-plane` unless they begin with `src/`.

## 1. Inventory

| Component | State it keeps | Operations | What makes it correct |
|---|---|---|---|
| Workflow service (`internal/workflow`, `internal/types`, `cmd/server/workflow_callback_handler.go`) | tables `workflows`, `audit_logs`; the state machine's mutex | CreateWorkflow (gRPC, REST), Start, Complete, Fail, CurrentState, worker's callback | statuses follow `ValidTransitions`, ended workflows stay as they are, the audit is one path of the diagram, every call is answered |
| Scores (`internal/store/score.go`, `cmd/server/score_handlers.go`) | table `scores` | create, update, correct (supersede and replace), list, rollup, grade | a CONFIRMED value changes in one known race only, a score is corrected once and in one step, the audit accounts for every value |
| Evidence (`internal/store/evidence.go`, `cmd/server/evidence_handlers.go`) | table `evidences`: chains of versions of an item | upload (first or next version), change of a body, list | chains do not fork, one ACTIVE version, version numbers are unique |
| Review requests (`internal/store/score_review_request.go`, `cmd/server/review_handlers.go`) | table `score_review_requests` | submit, assign, approve, reject | a decision is final, row, audit and answer agree |
| Rubrics (`internal/store/rubric.go`, `cmd/server/rubric_handlers.go`) | tables `rubrics`, `rubric_criteria`, `rubric_bands` | create, clone, update, archive, add criterion, add band, apply | one active rubric of a name and a scope, archived is final, bands are disjoint, weights sum to at most 1.0 |
| Connection pool (`internal/store/pg_store.go`) | the connections of the one `pgxpool` | BeginTx of each store, Commit, Rollback | nothing leaks, handlers do not block each other |
| Evaluation items (`internal/store/eval_item.go`, `cmd/server/eval_item_handlers.go`) | table `evaluation_items`, a tree | insert, update (also of the parent), list | no orphans, the tree stays a tree, codes are unique, every change is audited |
| Reports (`cmd/server/report_handlers.go`, parts of `score.go`) | none | category report, grade, rollup | sums and grades are what the tables say |
| Audit (`internal/audit`) | table `audit_logs` | Record..., queries | each change has its row, with the right actor |
| JWKS cache (`internal/auth/jwks_cache.go`) | keys, time of the last success, refresh flag, `fetchMu` | GetKey, background and blocking refresh | a withdrawn key is not used for long, a published one is not reported missing, fetches are few and no call waits for ever |
| Authentication and authorisation chain (`internal/auth`, assembled in `cmd/server/server.go`) | none of its own | verify a token, look up a permission, guard of /metrics | who reaches a handler is entitled to at that moment |
| Server (`cmd/server`) | listeners, shutdown flag and deadline | Run, shutdown, probes | the pool is closed after its users, the shutdown ends |
| Scheduler (`internal/scheduler`) | a Redis list | Dispatch | a workflow that was accepted is handed over |
| Worker (`src/pipelines/workers`, `src/pipelines/callbacks`) | none | process a task, report once | a task is reported once |
| Document pipelines (`src/pipelines/*`) | vector table | chunk, embed, predict, draft | no shared state but the table |
| Web (`src/apps/web`) | cookies | pages, proxies | none of their own |

How they interact: every mutating handler opens a transaction on the one pool, makes its
statements and its audit row in it and commits; requests meet only in PostgreSQL (row locks,
constraints) and in the pool, and, for workflows, in the state machine's mutex. Before them, the
chain of middlewares validates the token against the keys of the JWKS cache, which all requests
share. A shutdown lets the servers drain one after the other and closes the pool under what is
left. The scheduler can push to Redis, the worker takes from there and calls the control plane
back over HTTP. PROJECT.json lists the components with the
modules that model them.

## 2. What is hard in this code

* **Checks before locks.** The stores differ in when they read what they check. `GetWorkflow`
  and the review store read `FOR UPDATE`; the score store reads with a plain SELECT and relies
  on the WHERE clause of the UPDATE; evidence locks the latest version it finds, if there is
  one; the rubric handlers check names, weights and bands in the transaction but before the
  lock, with constraints behind some of the checks and not behind others.
* **PostgreSQL's row versions.** A statement that waited for a lock sees the row that was
  committed meanwhile, but chose it by its own snapshot. This decides what the second of two
  uploads or corrections gets.
* **Several statements, one outcome.** Row, result and audit row are separate statements; each
  may fail, the process may die between any two, and a commit may take effect without its
  acknowledgement.
* **Locks of different kinds.** The state machine's mutex is held while a connection of the
  pool is awaited, a connection is held while a row is awaited, and two handlers hold one
  connection while they wait for another.
* **Reports from outside.** A worker's callback may come early (before Start), twice, or
  late.
* **Two ways to fetch.** A stale key is answered at once while a goroutine refreshes the cache; a
  missing one makes the call fetch under `fetchMu`. The two fetches are not ordered: the answer
  that arrives last replaces the keys, also if it is older, and renews their age.
* **Time.** Keys age, tokens expire, fetches time out, and the one call queues behind the time-out
  of another.
* **One deadline for everything.** The shutdown has one deadline for HTTP and gRPC; what is
  cut then still runs, and holds connections, while the pool is being closed.

PROJECT.json lists each of these at its line under "hazards", with the properties that would
catch it, or the reason why there is none.

## 3. The modules

All modules are written in the same way. A call is made once, by one of the elements of
`Calls` (or `Requests`); its `pc` says which statement is next. The committed contents of a
table are a variable; what a transaction has written but not committed is not in it, and
appears with the action `Commit`. A row lock is an entry of `rowLock`. `Abort` (`StepFails`,
`Cancel`) is any failing statement, a client that leaves or the process's death; a commit may
answer with an error although it took effect. Documents, names and users are stood for by the
call that brought them, so that a property can tell whose value a column holds.

**WorkflowTypes, WorkflowLifecycle, Workflow.** WorkflowLifecycle is the abstract
specification: the status, the result and the audit rows of every workflow, moved by five
atomic actions (Create, Start, Complete, FailDispatch, FailRunning). Workflow is the code:
`Arrive`, `LockMachine` (state_machine.go's mutex, for Start, Complete and Fail), `BeginTx`
(a connection of the pool), `GetWorkflow` (the locking read and the check of the transition or
of the callback), `Write` (its statements), `Commit` or `CommitUnknown`, `RecordRejectedTerminal`
(the callback handler's second transaction), `StepFails` at any point and `Crash` of the
process, which frees the mutex, the connections and the locks. `Lifecycle == INSTANCE
WorkflowLifecycle WITH ...` maps the committed tables to the abstract ones, and
`ImplementsLifecycle` is the refinement.

**Score.** `Read` is GetScoreByID and the checks of UpdateScore or SupersedeAndReplaceScore,
made without a lock; `Update` takes the row's lock and evaluates the WHERE clause on the
version found then; `Commit` publishes (`Publish`). `StatusOps` is the set of statuses callers
pass to UpdateScore: the HTTP handlers pass none, other callers of the store may.

**Evidence.** `Find` is the snapshot of GetLatestVersionByEvalItem's statement, `Lock` the
grant of the lock on the row it chose, `Write` persistEvidenceTx with MarkSuperseded's
condition, `CountSuccessors` the unlocked count of UpdateEvidenceBodyColumn, and its update
follows as a separate step.

**ScoreLedger, EvidenceHistory, ReviewHistory, RubricHistory, ItemTree.** What these components
promise, without transactions: the abstract specifications of Score, Evidence, Review, Rubric and
EvalItem.

* ReviewHistory has the log of what was done to each request and the calls with their answers. A
  call is performed, refused or fails in one step; a refusal gives a reason that the log bears
  out at that moment. Review implements it with the audit table as the log.
* ScoreLedger has the table, its audit and the calls with their answers. A creation, a revision
  and a correction are one step each, judged by the row they change, and a refusal is true when
  it is given. Score reads without a lock and writes later; it implements the ledger as long as
  no caller passes CONFIRMED, and the ledger shows what the unlocked read costs even then: a row
  may be withdrawn that is withdrawn already (`MayBecome`).
* EvidenceHistory has, for each item that has a version, the list of its versions: an upload looks
  at the list and is added only if the list is as it was, else it is told that it was raced.
  Evidence implements it: the list is read off the column `version` (`Versions`), what a call has
  seen off the row it locked (`Seen`). For an item without a version there is no such promise;
  evidence_first shows why.
* RubricHistory has the three tables, their audit and the calls with their answers. Each of the six
  operations is one step, held to the status and the constraints of the tables in that step, and
  each refusal is true when it is given. Rubric looks up first and locks later; what this costs
  is visible: a clone copies what its source was called when the call looked, and the weights
  are a reason to refuse (`Load`), never a condition of `AddCriterion` (rubric_weights).
* ItemTree has the table, its audit and the calls with their answers. Parents are there and keys
  are free in the step that relies on them. EvalItem's two looks that are not repeated are steps
  of their own here: `Look` (the row the audit is written from, which may be out of date then) and
  `LookBelow` (no children, `Unblocked` in EvalItem: a child may have come since).

**Review.** `FindScore` is the first transaction of handleCreateReview, `Lock`
lockAndCheckStatus, `Write` the update, the audit row and the row read back for the answer
(`executeMutation`), `Commit` the end.

**Rubric.** `Look` and `Count` are the handlers' reads and checks before the lock, `Lock`
lockAndCheckRubricStatus, `Write` the statement with the constraints of migration 0006
(`Violated`: unique index, CHECK, exclusion), `Commit` the end. A writer whose key another
transaction is about to take or to give up waits for it (`KeyInDoubt`), as the index makes it.

**EvalItem.** `FindParent` and `FindItem` are the plain SELECTs of InsertEvalItem and
handleUpdate, `HierarchyMutationGuard` the unlocked count of children, `InsertEvalItem` and
`UpdateEvalItem` the statements with the constraints of migration 0003 (`KeyTaken`,
`KeyInDoubt`, `ParentRefers`), `Commit` the end. `ParentAsked` is what the body's decoding makes
of `parent_id`. The ghost `raced` remembers the items that got a child between the guard's
count and the commit of their move.

**JWKSCache.** GetKey is `Look` (the first look, under the read lock), `Revalidate` (the stale
answer, which starts a goroutine unless the flag `refreshing` is set), `Lock` (`fetchMu` and the
second look) and `Reread` (after the call's own fetch). refresh is `Produce` (the endpoint
answers), `Apply` (the answer replaces the cache) or `Fail`, and `ClearFlag`. `Rotate` is the
provider, `Tick` the clock: only the network and the wait for `fetchMu` take time, a fetch at
most `Timeout`, so the clock stands still while a goroutine can run. `changed` is a ghost: when
a key was last published or withdrawn.

**Access.** The chain over the cache. `Receive` is a request up to the lookup of its key:
`Front` answers the probes, what is not mapped and what has no usable token; the others call
GetKey, whose steps are those of JWKSCache. `Conclude` is what follows: `Valid` (Verify), the
guard of /metrics or `Authz` with the permission tables and the role matrix. `WarmUp` is the
first fetch, which New forces. The tables are written for the classes of routes that the chain
tells apart.

**Pool.** Only who holds a connection while waiting for what. A handler runs one transaction
(`begin2`, ...) or two (`begin1`, `probe`, `begin2`, ...); `Composed` are the requests to
handleCreateReview and handleAddCriterion, which keep the first transaction open until they
return. `Cancel` is the end of the request's context: the client leaves or the server's
ReadTimeout fires. The other modules leave the pool out (Workflow, where it meets the mutex,
has its own) and take for granted what Pool shows.

**Shutdown.** The end of the server, on top of Pool. `Signal` sets the flag and closes the HTTP
listener; `HTTPDone` or, after `Deadline`, `HTTPForce` ends the wait for the HTTP requests,
`GRPCDone` or `GRPCForce` that for the gRPC calls, which come in until then; `PoolDone` is the
return of `pgxpool.Close` and the exit reason. `cut` are the calls whose connection a forced
stop has closed; their handlers end when they notice (`Severed`). On the closed pool BeginTx
fails (`Refused`).

The map in PROJECT.json gives for each definition the lines it translates. Modules named
`MC...` declare the symmetries, modules named `..._proofs` hold the proofs. Definitions whose
name has an underscore and whose comment begins with "Mutant:" are not part of the models:
each is a plausible fault of the definition below it, kept to show that the properties would
notice it.

## 4. The runs

| Run | Instance | What it shows |
|---|---|---|
| workflow_safety | 1 workflow, 4 calls of any kind, 2 connections | status, audit and answers agree; the refinement of WorkflowLifecycle |
| workflow_liveness | 1 workflow, 3 calls, 1 connection | the mutex, the pool and the row lock leave no call waiting |
| score_race | 1 draft, 1 confirmed row, 3 calls, `StatusOps = {"SUPERSEDED"}` | one correction per score, the audit is complete; the refinement of ScoreLedger |
| score_confirm (violation) | 1 draft, 2 calls, `StatusOps = {"CONFIRMED"}` | a row confirmed between the read and the UPDATE of another call is overwritten |
| evidence_versions | 2 items, one with a version, 4 calls | chains, the audit of versions; the refinement of EvidenceHistory |
| evidence_first (violation) | 1 item without evidence, 2 uploads | both become version 1 |
| review_decide | 1 submitted request, 3 calls, which may submit others | row, audit and answer agree; the refinement of ReviewHistory, by which decisions are final |
| rubric_edit | 1 draft, 3 calls of any kind, which may create and clone rubrics | uniqueness, disjoint bands, audit; the refinement of RubricHistory, by which archived rubrics stay as they are |
| rubric_weights (violation) | 1 draft, 2 criteria of weight 1.0 | weights sum to 2.0 |
| items_tree | 1 root, 2 free ids, 3 calls of any kind | cycles only by a race or a self-reference, unique codes, audit; the refinement of ItemTree, by which there are no orphans |
| access | the warm-up and 2 requests of 5 kinds, 2 keys, one of an unsupported type; TTL 1, stale age 2, time-out 1, tolerance 1, clock up to 5 | how long a withdrawn key is used and a new one missed, how many fetches there are, how long a call waits, who reaches a handler |
| shutdown | 2 composed and a simple HTTP request, a gRPC call, 2 connections, 1 row, a signal at any time | nothing leaks; what blocks; everyone is answered while fewer composed calls than connections are under way; the pool is closed after its users; the shutdown ends |

Why the instances are large enough. Every property speaks of one row (or of two rows of one
key) and of the calls that meet on it. The hard interleavings are one call that acts between
two steps of another, and a third that follows up on the result; with three calls, each of
which may be of any kind, all of these occur, and four are used where a sequence needs them
(create, start and two reports of a workflow). A second row matters where calls create rows
(scores, rubrics) or rows are compared (evidence of two items, active rubrics): created rows
are rows of the same table and later calls act on them. Three items are the fewest with a cycle
of two below a root and an item that is inserted meanwhile. The pool's instance has as many
composed calls as connections, the smallest number that can block. For rubrics, four points
are the fewest with two disjoint, two adjacent and two overlapping intervals, and `Full = 1`
makes a second criterion too heavy. For the key cache, a call with a stale answer and a second
one that fetches itself are the fewest whose fetches overtake each other, the warm-up has filled
the cache before, and five units of time are enough for the cache to become stale, then too
old, and for one more fetch to time out; the three limits are small but distinct in their
effect. Beyond these bounds the theorems of section 6 hold for any number of calls, rows,
connections and keys, and any limits.

Deadlock is not checked in any run: each call is made once, so every behaviour ends when all
are answered. That calls do not block each other is stated by properties instead
(`OnlyComposedBlock`, `EveryCallAnswered`, `WaitBounded`, `ShutdownEnds`). The runs with a
liveness property use no symmetry. Liveness of Pool and Shutdown is checked together, and TLC
takes most of its time for that.

Every property of a passing run has a mutant: an operator that changes one definition of the
model as a plausible fault of the code would, under which TLC finds the property violated.

## 5. Fairness

Safety is checked without fairness. `Workflow!FairSpec` has weak fairness of each request's
`Advance`: goroutines are scheduled, PostgreSQL executes statements, `sync.Mutex`, the pool
and the lock manager hand over in the order of arrival, so that whoever waits for a lock that
is free again and again gets it; in the instance the queue's order is abstracted by the
choice of the request that goes on, and each call is made once, so that weak fairness is
enough. No fairness is assumed of arrivals, failures or crashes. `Shutdown!FairSpec` has weak
fairness of each `Handler` for the same reasons, and of what the shutdown itself does: its phases
(`End`), its timer (`Deadline`), and, for calls that it has cut, the end of their context
(`Severed`), since closing a connection makes the reads of net/http and the transport of gRPC
fail at once, which cancels the context that every statement was given. None is assumed of
`Signal`, `Come` or `Leave`: the properties are about clients that wait for as long as it takes.
With as many composed calls as connections only `Cancel` resolves the blockade, and in
the code that is the client leaving or the ReadTimeout of 30 s (`cmd/server/server.go:325`).

## 6. What is proved

Assumptions: only those stated in the modules (sets of identifiers are disjoint, the pool's
size is positive, limits of time are natural numbers, `Calls` is finite in Pool and JWKSCache,
Ed25519 keys are unusable in Access, and, for CorrectedOnce and LedgerRefinement of Score, that
no caller passes CONFIRMED). The proofs are of the specifications without fairness.

* **Workflow_proofs.** TypeCorrect, AuditTrail, ResultSound, EndedByOne and Refinement. None of
  the properties is inductive: they speak of committed rows, and what the next commit publishes
  was decided steps before. The invariant adds that a handler which
  is going to write holds the row's lock and has checked the status the row still has
  (`Checked`), that it is a handler admitted for this status (`Admitted`), and that a creation
  is alone with its new row (`CreationsFresh`). Then what a commit publishes is one step of
  WorkflowLifecycle, which gives the refinement, and the others follow. NoDeadlock and
  EveryStepCounts are the safety half of `EveryCallAnswered`. The first says that as long as a
  call is in flight, the guard of some call's `Advance` holds: the holder of the mutex has
  passed the wait for it, and the holder of a row waits for nothing (`HoldersActive`), so every
  chain of waiting calls ends at one that can go on. The second gives each call a `Distance`
  from its answer, which no step raises and each lowers for somebody. Finitely many calls
  therefore take finitely many steps, and stop only when all are answered, if a step that can
  be taken is taken: that last inference, from fairness, is what TLC checks on the instance.
* **Score_proofs.** `IInv`: a call about to commit holds its row's lock, and what the WHERE
  clause found then still holds. It gives TypeCorrect, AtomicCorrection and AuditTrail for any
  callers, and OverwritesRaced: the score of a CONFIRMED row can be overwritten, as score_confirm
  shows, but only like this: the overwriter was past its check before the row was confirmed, somebody else confirmed it and is on record, and the row
  began as a DRAFT, so that a corrected score, or one that was inserted CONFIRMED, keeps its
  value while in force. Its invariant says that a confirming call has read a DRAFT and no row
  becomes a DRAFT again (`DraftsOK`), and that every row that was confirmed has a confirmer whose
  call is over (`ConfirmersOK`). The property is not in a .cfg; TLC checked it with both statuses
  in `StatusOps` on the instance of score_race before it was proved. `NInv`, for callers that
  never pass CONFIRMED, adds that what an unlocked read found stays true where it matters: no
  row becomes CONFIRMED or leaves SUPERSEDED, so a check made against DRAFT cannot be overtaken.
  It gives CorrectedOnce. LedgerRefinement follows under the same assumption: a commit is one step of ScoreLedger, because what its
  unlocked read found is still enough for the ledger's guard (`CommitMaps`); a return without
  one is a refusal that the row bears out in the step that gives it (`RefusalIsTrue`), and every
  other step changes nothing the ledger sees. NoDeadlock and EveryStepCounts are as in Workflow,
  but shorter: a call locks one row, the last thing it waits for, so its holder waits for nothing.
* **Evidence_proofs.** An upload about to commit holds the lock of the row it replaces, which
  it found ACTIVE under that lock, hence without a successor. It gives TypeCorrect, NoFork,
  AuditTrail and NumberedOnce (for items that have a version; for others evidence_first is the
  counterexample). For HistoryRefinement the versions of an item must be a list at all:
  HistoryInvariance adds that they are numbered 1, 2, ... without a gap up to the one in force
  (`Listed`), and that a call under way has found a version on that list (`CallsOK`). The commit
  of an upload then appends (`VersionsList`), every other step leaves the list (`VersionsKept`),
  and MarkSuperseded matching no row means that the list has grown since the call looked
  (`ReturnMaps`). NoDeadlock and EveryStepCounts are as in Score.
* **Review_proofs.** From the locking read to the commit the row is the call's own. It gives
  TypeCorrect, Decided, AuditTrail, ReasonSound and TruthfulAnswer. HistoryRefinement rests on
  AuditTrail: since the audit rows of a request are what its columns tell, the status a call
  reads under the lock is what the log says (`LogTellsStatus`), a refusal is the log's
  (`RefusalByLog`), and a commit appends one event to it (`CommitMaps`). NoDeadlock and
  EveryStepCounts are as in Score.
* **Pool_proofs.** The invariant says exactly which transactions a call has open at each step
  (`Holding`), that only a call at work holds a row (`Locking`), and that at most `Conns`
  transactions are open. It gives TypeCorrect and NoLeak. When calls block each other, nobody
  works, so no row is locked, so every open transaction is the first one of a composed call
  that waits for its second (BlockedByComposed); counting them gives NoBlocking, and NoDeadlock
  restates it as the guard of a call that can go on. EveryStepCounts is as in Workflow. Every step of
  Shutdown is a step of Pool or leaves its calls alone (ShutdownUsesPool), a refused BeginTx
  being one more way to end. CleanExit adds what each phase leaves behind (`SInv`): after its
  phase, the calls of a server that are under way have been cut, and calls can only become
  fewer. It gives ShutdownNeverStalls: whatever the shutdown waits for is a step of its own or a
  call it has cut, whose context has ended; a closed pool waits for connections, their owners are
  under way (NothingLeaks), and those have been cut. With EveryServerStepCounts (four phases, one
  deadline, and the distances of the calls) this is the safety half of `ShutdownEnds`.
* **Rubric_proofs.** The checks the handlers make before the lock appear nowhere in the
  invariant: nothing that is true of them lasts. It says instead that a call which writes
  holds the row's lock and its status still allows the operation (`Locked`), that what it has
  written satisfies the constraints (`Cleared`), and that two calls about to commit never
  bring the same key (`Reserved`), because a writer waits for the other's outcome. It gives
  TypeCorrect, ActiveOnce, ReasonSound, BandsDisjoint, AuditTrail, TruthfulAnswers and
  Finality. The same invariant gives HistoryRefinement: status and constraints still hold at the
  commit (`CommitMaps`), and each refusal, early or late, is read off the tables of the step that
  gives it (`ObjectionIsTrue`, `RefusalIsTrue`, `ViolatedIsTrue`); only that a clone has seen a
  rubric not archived must be added (`Looked`). NoDeadlock: who holds a row is about to write or to
  commit, and who keeps a key in doubt is about to commit, so a chain of waiting calls has two
  links at most. EveryStepCounts is as in Workflow.
* **EvalItem_proofs.** What the handlers look up without a lock matters only where it lasts: a
  parent that was found stays, because items are never deleted, and an item keeps its code
  (`Found`); the keys of an item about to be inserted are nobody else's (`KeysOwn`). It gives
  TypeCorrect, NoOrphans, OneCreation and AuditTrail. That an item has no children does not
  last; TreeButForRaces says that nothing else can close a cycle. TreeRefinement follows from
  the same invariant: a commit finds the parents and the keys as ItemTree wants them
  (`CommitMaps`), a refusal is a look that is true (`DeclineMaps`), and the guard's count is
  the abstract `LookBelow`. NoDeadlock (a call waits only for one that is about to commit) and
  EveryStepCounts are as in Rubric.
* **Access_proofs.** The invariant of the cache says who fetches (`Owners`: the owner of
  `fetchMu`, and one goroutine while the flag is set), that no fetch is older than `Timeout`
  (`Times`), that what is cached or on its way was true when its fetch was sent (`Truth`), and
  that a key that was found is returned before time passes (`Fresh`). It gives
  CacheTypeCorrect, TwoFetches, Revocation and Unknown. BoundedWait counts the calls that are
  over (`Waits`): as long as a call waits for `fetchMu`, somebody holds it, for a `Timeout` at
  most, and never again. Every step of the chain is a step of the cache (ChainUsesCache), so all
  this holds of the chain; TypeCorrect and OnlyEntitled follow, since no time passes between the
  end of GetKey and the answer.

Only model-checked: liveness (both `EveryCallAnswered`, and `ShutdownEnds`), which is beyond the
installed provers; what is proved of it is that nobody is stuck and that every step counts. The
guards these theorems speak of (`Ready`) are written out, since ENABLED is beyond the provers,
too. Everything else the passing runs check is proved.

PROJECT.json lists the theorems to look at first. EveryStepCounts is listed for Workflow, Pool and
Shutdown, and is proved for Score, Evidence, Review, Rubric and EvalItem, too; NoBlocking of Pool
stands behind NoDeadlock.

Some theorems are about properties that no run lists, because a stronger one has taken their
place: Decided, NumberedOnce, AtomicCorrection, Finality and NoOrphans (`DecidedOnce`,
`SeededVersionsUnique`, `CorrectionIsAtomic`, `ArchivedIsFinal`, `ParentsExist`; the refinements
say more), ResultSound of Workflow, ReasonSound of Review and of Rubric, TruthfulAnswers of Rubric and NoBlocking of Pool (`ResultOnlyWhenFinished`,
`ReasonOfRejection`, `ArchivedForReason`, `AnswersTrue`, `NeverStuck`). These properties,
and `OverwritesNeedARace` of Score, can be added to the .cfg of the module as they are.

## 7. Where the code and its documents disagree

Shown by violation runs (PROJECT.json, "findings", quotes the lines):

* `evidence_first`: for an item without evidence there is no row to lock and no unique
  constraint behind it; two uploads both become version 1, both ACTIVE.
* `rubric_weights`: the weights are summed before the lock and nothing stands behind the
  check.
* `score_confirm`: an update checks the status in a read without a lock (`score.go:259`) and
  writes by id (`score.go:291`), into a row that another caller of the store has confirmed
  meanwhile; the header says that the score fields of a CONFIRMED row are immutable
  (`score.go:4`, requirement REQ-SCORE-UBI-004). The store accepts DRAFT to CONFIRMED
  (`score.go:401`), but no HTTP handler passes a status today.

Met while modelling, visible in the models, without a run of their own:

* UpdateScore protects CONFIRMED rows only (`score.go:259`): a PUT changes the value of a
  SUPERSEDED row, which acceptance criterion AC-SCORE-UBI-004 calls frozen.
* The unique index of active rubrics is on (name, scope), and NULL scopes are distinct: two
  rubrics of one name without a scope can both be active.
* handleCreateReview and handleAddCriterion begin their second transaction before the first is
  ended (`review_handlers.go:360`, `rubric_handlers.go:682`), where handleCategoryReport
  (`report_handlers.go:224`) ends it first. With as many such requests as connections nobody goes on
  before a context ends.
* An update of a score that passes CONFIRMED also revives a row that was superseded after it
  was read as a DRAFT (`score.go:272`).
* `"parent_id": null` in the body of a PUT should make an item a root
  (`eval_item_handlers.go:165` and `191`); the decoder makes no difference between null and an
  absent field, so the request is answered with success and changes nothing.
* The second of two uploads that wait for one version fails (`evidence.go:223`) where
  acceptance criterion AC-EVID-001-4 lets both succeed.
* UpdateEvidenceBodyColumn counts successors without a lock (`evidence.go:259`).
* A callback to a PENDING workflow is recorded as CALLBACK_REJECTED_TERMINAL
  (`workflow_callback_handler.go:177`; the action's comment speaks of ended workflows).
* The rubric handlers' check for a duplicate looks at the scope only, not at the name
  (`rubric_handlers.go:545`), and a PUT with the status archived fails on the table's CHECK
  with 500 (`rubric.go:371`).
* REQ-CTRL-004-S1 promises an acquire timeout of 5 s with 503; BeginTx has none
  (`pg_store.go:87`), and the end of the context is answered with 500.
* A PUT of an item that changes nothing is audited as a change; an item may become its own parent
  (`eval_item.go:302`); and handleUpdate's audit row holds the parent before the move.
* `validator.go:96` promises EdDSA; the cache skips keys of type OKP (`jwks_cache.go`,
  parseJWKKey), so such a token is refused with an unknown key.
* `authz_mapping.go:18` lets HEAD and OPTIONS pass without authentication and authorisation;
  RESTMiddleware, which comes first, still answers 401 without a token.
* With authentication enabled, all routes that are not in restPermissionTable are denied with
  503: scores, evidence, rubrics, reviews, reports, items, the audit and the worker's callback.
* CLOCK_SKEW_SECONDS is read (`config.go:117`) and never given to `auth.New` (`server.go:170`);
  the tolerance is always 30 s. A token without `exp` never expires.
* `jwks_cache.go:69`: a failed fetch is to fall back on a stale key. A call that waited for
  `fetchMu` and fails is answered with an error, even if another fetch has brought its key
  meanwhile. And the age is not looked at after a call's own fetch.
* Only requests refresh the cache: a server without traffic for the stale age reports itself not
  ready, and gets no requests that could change this (`probes.go:130`).
* A second signal should force the end (`CHANGELOG.md:240`, AC-SERVER-003-S1-DoubleSignal).
  signal.NotifyContext goes on catching signals, shutdown runs once, and nobody passes the
  reason `double_signal`: a second signal has no effect. `Signal` of Shutdown therefore happens
  once.
* Readiness is to turn to 503 at once when the shutdown begins (`probes.go:50`), but Shutdown
  closes the HTTP listener with its first step, so new probes are refused, not answered.

## 8. What is not modelled

* Formats, wording, headers, logging, metrics, tracing; the letters and metadata of rows; the
  guards and the checks of a body alone, which turn a call away before it reads a table.
* Operations that only read (lists, audit queries, rollup, grade, category report, ApplyRubric),
  but for those whose result decides. The sums are computed by PostgreSQL in one statement on
  one snapshot; which states of the tables a report may mix, and whether superseded scores count,
  no document says, so there is nothing to set the code against. Pool has the order of their
  transactions.
* Floating point: weights are integers in Rubric.
* The path from the control plane to the worker. Dispatch (`internal/scheduler`) has no caller
  but tests, nor has Start; the order of Start, Dispatch and the worker's report, on which a
  model of the pipeline would turn, is not written down in code. Workflow has what the code
  decides: the callback handler under reports that come early, twice, late or never. The client
  of the callback posts once and accepts (`src/pipelines/callbacks/control_plane.py:10`) that a
  lost report leaves the workflow RUNNING.
* The document pipelines: parsing, embedding, prediction and text generation on one document at
  a time, numerical and by calls of models.
* ABAC: the evaluator is wired with an empty set of policies. The provider's discovery document,
  read once at the start.
* Generated code, the web interface (its state is in the control plane and in cookies),
  deployment files, the in-memory fake, the object storage interface, and the refresh tokens:
  the server constructs only the Redis store, whose methods are stubs (`server.go:183`), and
  nothing outside the tests constructs the service. PROJECT.json gives the reason for each.
* The start of the server, which is a sequence of constructors, and the exit of the process,
  which would cut short the handlers that Shutdown leaves running.
* PostgreSQL is modelled by what the code relies on at READ COMMITTED: atomic commits, row
  locks held to the end of a transaction, a statement's snapshot, the re-evaluation of a WHERE
  clause after a wait, and the constraints of the migrations.

## 9. Plan

Done, in this order: Workflow (with WorkflowTypes and WorkflowLifecycle), Score, Evidence,
Review, Pool, Rubric, EvalItem, JWKSCache, Access, Shutdown; then the abstract specifications
ScoreLedger, EvidenceHistory, ReviewHistory, RubricHistory and ItemTree with their refinements,
and the safety half of liveness: no deadlock, and every step counts, for every module with calls
that lock rows (Workflow, Score, Evidence, Review, Pool, Rubric, EvalItem) and for Shutdown.

To prove next:

1. **Weights**: how far the sum of a rubric's weights can exceed 1.0 (by the criteria whose calls
   were under way at once, and no others), as CyclesNeedARace does it for the tree; a property
   for TLC, since sums over sets are beyond the provers.

When the code grows, next:

1. **Pipeline**, as soon as a handler calls Dispatch: the Redis list, the worker and its report
   over WorkflowLifecycle, with lost tasks and lost reports; whether Dispatch may come before
   Start commits, and what remains RUNNING for ever.
2. **Refresh tokens**, when RefreshService is wired and has a store: rotation and reuse.
3. **Report**, when a document says which rows count and what a report may mix: rollup, grade
   and ApplyRubric as operators, compared with a reference definition.

Runs are few on purpose: one for each question. When a new component needs one, a violation run
whose point is made gives its place to it and stays in section 7.
