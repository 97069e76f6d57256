-------------------------------- MODULE Pool --------------------------------
(***************************************************************************)
(* The one pool of PostgreSQL connections: the Begin...Tx functions of     *)
(* internal/store/pg_store.go and how the HTTP handlers use them.          *)
(*                                                                         *)
(* Most handlers run one transaction.  The handlers that look into another *)
(* store first run two: handleApplyRubric and handleCategoryReport end the *)
(* first before they begin the second; handleCreateReview and              *)
(* handleAddCriterion leave the first to a deferred Rollback, so they hold *)
(* its connection while they wait for the second.  A transaction may wait  *)
(* for the lock of one row.                                                *)
(*                                                                         *)
(* BeginTx waits until a connection is free or the request's context ends: *)
(* there is no acquire timeout.  The context ends when the client goes     *)
(* away or the server's ReadTimeout closes the read side of the connection.*)
(*                                                                         *)
(* Abstraction: what the statements do; the server opens every connection  *)
(* of the pool.                                                            *)
(***************************************************************************)
EXTENDS Integers, FiniteSets

CONSTANTS Calls,     \* HTTP requests; each is made once
          Composed,  \* those to handleCreateReview and handleAddCriterion
          Rows,
          Conns,     \* the size of the pool
          Nobody     \* nobody, and no row

ASSUME PoolAssumption ==
  /\ IsFiniteSet(Calls)
  /\ Composed \subseteq Calls
  /\ Conns \in Nat \ {0}
  /\ Nobody \notin Calls \cup Rows

VARIABLES
  open,     \* \subseteq Calls \X {1, 2}: the open transactions, a connection each
  rowLock,  \* [Rows -> Calls \cup {Nobody}]
  wants,    \* [Calls -> Rows \cup {Nobody}]: the row a call's last transaction locks
  pc,       \* [Calls -> Step]
  answer    \* [Calls -> Answer]

vars == <<open, rowLock, wants, pc, answer>>

\* "begin1" and "begin2" wait for a connection, "probe" is in the first of two
\* transactions, "lock" waits for the row.
Step == {"idle", "begin1", "probe", "begin2", "lock", "work", "done"}

Answer == {"none", "ok", "notfound", "error"}

Init ==
  /\ open = {}
  /\ rowLock = [i \in Rows |-> Nobody]
  /\ wants = [r \in Calls |-> Nobody]
  /\ pc = [r \in Calls |-> "idle"]
  /\ answer = [r \in Calls |-> "none"]

Goto(r, step) == pc' = [pc EXCEPT ![r] = step]

-----------------------------------------------------------------------------
\* Mutant: only the transaction that was begun last is ended.
Return_LastOnly(r, ans) ==
  /\ Goto(r, "done")
  /\ answer' = [answer EXCEPT ![r] = ans]
  /\ open' = open \ {<<r, IF <<r, 2>> \in open THEN 2 ELSE 1>>}
  /\ rowLock' = [i \in Rows |-> IF rowLock[i] = r THEN Nobody ELSE rowLock[i]]
  /\ UNCHANGED wants

\* A handler returns: Commit or the deferred Rollbacks end its transactions.
Return(r, ans) ==
  /\ Goto(r, "done")
  /\ answer' = [answer EXCEPT ![r] = ans]
  /\ open' = {t \in open : t[1] # r}
  /\ rowLock' = [i \in Rows |-> IF rowLock[i] = r THEN Nobody ELSE rowLock[i]]
  /\ UNCHANGED wants

Arrive(r) ==
  /\ pc[r] = "idle"
  /\ \E w \in Rows \cup {Nobody} : wants' = [wants EXCEPT ![r] = w]
  /\ \/ Goto(r, "begin1")
     \/ r \notin Composed /\ Goto(r, "begin2")
  /\ UNCHANGED <<open, rowLock, answer>>

\* Mutant: the transaction is not tied to the handler that begins it.
Acquire_Anonymous(r, n) == Cardinality(open) < Conns /\ open' = open \cup {<<Nobody, n>>}

\* pool.BeginTx of the n-th transaction of a call.
Acquire(r, n) == Cardinality(open) < Conns /\ open' = open \cup {<<r, n>>}

\* The handlers with two transactions begin the one that only reads.
BeginFirst(r) ==
  /\ pc[r] = "begin1"
  /\ Acquire(r, 1)
  /\ Goto(r, "probe")
  /\ UNCHANGED <<rowLock, wants, answer>>

\* Mutant: every handler leaves its first transaction to the deferred Rollback.
Found_Deferred(r) ==
  /\ pc[r] = "probe"
  /\ Goto(r, "begin2")
  /\ UNCHANGED <<open, rowLock, wants, answer>>

\* It finds what it looks for; a composed handler keeps it open.
Found(r) ==
  /\ pc[r] = "probe"
  /\ open' = IF r \in Composed THEN open ELSE open \ {<<r, 1>>}
  /\ Goto(r, "begin2")
  /\ UNCHANGED <<rowLock, wants, answer>>

Missing(r) == pc[r] = "probe" /\ Return(r, "notfound")

BeginLast(r) ==
  /\ pc[r] = "begin2"
  /\ Acquire(r, 2)
  /\ Goto(r, IF wants[r] = Nobody THEN "work" ELSE "lock")
  /\ UNCHANGED <<rowLock, wants, answer>>

\* SELECT ... FOR UPDATE, or the UPDATE of a row somebody else has updated.
Lock(r) ==
  /\ pc[r] = "lock"
  /\ rowLock[wants[r]] = Nobody
  /\ rowLock' = [rowLock EXCEPT ![wants[r]] = r]
  /\ Goto(r, "work")
  /\ UNCHANGED <<open, wants, answer>>

\* The last transaction commits, or a statement of it fails.
Work(r) == pc[r] = "work" /\ (Return(r, "ok") \/ Return(r, "error"))

\* The request's context ends, wherever the handler is.
Cancel(r) == pc[r] \notin {"idle", "done"} /\ Return(r, "error")

Advance(r) == BeginFirst(r) \/ Found(r) \/ Missing(r) \/ BeginLast(r) \/ Lock(r) \/ Work(r)

Next == \E r \in Calls : Arrive(r) \/ Advance(r) \/ Cancel(r)

Spec == Init /\ [][Next]_vars

-----------------------------------------------------------------------------
(* Properties.                                                             *)

TypeOK ==
  /\ open \subseteq Calls \X {1, 2}
  /\ rowLock \in [Rows -> Calls \cup {Nobody}]
  /\ wants \in [Calls -> Rows \cup {Nobody}]
  /\ pc \in [Calls -> Step]
  /\ answer \in [Calls -> Answer]

Waiting == {r \in Calls : pc[r] \in {"begin1", "begin2", "lock"}}

Running == {r \in Calls : pc[r] \in {"probe", "work"}}

\* What each waiting call needs is taken, and no other call runs.
Stuck ==
  /\ Waiting # {} /\ Running = {}
  /\ \A r \in Waiting : IF pc[r] = "lock" THEN rowLock[wants[r]] # Nobody
                                          ELSE Cardinality(open) >= Conns

\* Connections and row locks are given back on every path: whoever has returned
\* or waits for his first connection holds nothing, and there are never more
\* transactions than connections (the defer Rollback of every handler).
NothingLeaks ==
  /\ Cardinality(open) <= Conns
  /\ \A t \in open : pc[t[1]] \in {"probe", "begin2", "lock", "work"}
  /\ \A i \in Rows : rowLock[i] # Nobody => pc[rowLock[i]] = "work"

\* The only way the handlers can block each other: every connection is held by
\* a composed handler that waits for its second one.  Row locks never matter.
OnlyComposedBlock ==
  Stuck => /\ Cardinality(open) = Conns
           /\ \A t \in open : t[1] \in Composed /\ pc[t[1]] = "begin2"

InFlight == {r \in Composed : pc[r] \notin {"idle", "done"}}

\* As long as fewer composed calls are under way than there are connections, no
\* calls block each other, however many come.
NeverStuck == Cardinality(InFlight) < Conns => ~Stuck

\* Under the same condition every call is answered although no client gives up.
EveryCallAnswered ==
  [](Cardinality(InFlight) < Conns) => \A r \in Calls : pc[r] # "idle" ~> pc[r] = "done"
=============================================================================
