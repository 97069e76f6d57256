----------------------------- MODULE Pool_proofs -----------------------------
(***************************************************************************)
(* Proofs about Pool and Shutdown.                                         *)
(*                                                                         *)
(* The inductive invariant of the pool says which transactions a handler   *)
(* has open at each step, that only a handler at work holds a row, and that*)
(* there are never more transactions than connections.  A step moves one   *)
(* handler and touches no transaction of another.  That handlers block each*)
(* other only through their second connections follows from the invariant, *)
(* and a counting argument gives the bound.                                *)
(*                                                                         *)
(* The shutdown implements the pool, so all this holds while the server    *)
(* ends, too.  Its own invariant follows the calls under way: they can only*)
(* become fewer once nobody may come in, and what a phase leaves behind has*)
(* been cut.                                                               *)
(***************************************************************************)
EXTENDS Shutdown, FiniteSetTheorems, TLAPS

\* The transactions a call has open, by where it is.
Holding(r) ==
  /\ <<r, 1>> \in open <=> \/ pc[r] = "probe"
                           \/ r \in Composed /\ pc[r] \in {"begin2", "lock", "work"}
  /\ <<r, 2>> \in open <=> pc[r] \in {"lock", "work"}

\* A row is locked by a call that works, and only a call that wants a row waits
\* for one.
Locking ==
  /\ \A i \in Rows : rowLock[i] # Nobody => pc[rowLock[i]] = "work"
  /\ \A r \in Calls : pc[r] = "lock" => wants[r] \in Rows

IInv ==
  /\ TypeOK
  /\ \A r \in Calls : Holding(r)
  /\ Locking
  /\ Cardinality(open) <= Conns

-----------------------------------------------------------------------------
\* Only finitely many transactions are open.
LEMMA FiniteOpen ==
  ASSUME NEW S, S \subseteq Calls \X {1, 2}
  PROVE  IsFiniteSet(S) /\ Cardinality(S) \in Nat
<1>1. IsFiniteSet(Calls) /\ IsFiniteSet({1, 2})
  <2>1. {1, 2} = {1} \cup {2}
    OBVIOUS
  <2>2. IsFiniteSet({1} \cup {2})
    BY FS_Singleton, FS_AddElement
  <2> QED BY <2>1, <2>2, PoolAssumption
<1>2. IsFiniteSet(Calls \X {1, 2})
  BY <1>1, FS_Product
<1> QED BY <1>2, FS_Subset, FS_CardinalityType

\* Beginning a transaction uses up one connection at most.
LEMMA AcquireBound ==
  ASSUME TypeOK, NEW r \in Calls, NEW n \in {1, 2}, Acquire(r, n)
  PROVE  /\ open' \subseteq Calls \X {1, 2}
         /\ Cardinality(open') <= Conns
<1>1. open \subseteq Calls \X {1, 2} /\ open' = open \cup {<<r, n>>} /\ Cardinality(open) < Conns
  BY DEF TypeOK, Acquire
<1>2. IsFiniteSet(open) /\ Cardinality(open) \in Nat
  BY <1>1, FiniteOpen
<1>3. Cardinality(open') = IF <<r, n>> \in open THEN Cardinality(open) ELSE Cardinality(open) + 1
  BY <1>1, <1>2, FS_AddElement
<1> QED BY <1>1, <1>2, <1>3, PoolAssumption

\* Ending transactions frees connections.
LEMMA ReleaseBound ==
  ASSUME IInv, open' \subseteq open
  PROVE  /\ open' \subseteq Calls \X {1, 2}
         /\ Cardinality(open') <= Conns
<1>1. open \subseteq Calls \X {1, 2} /\ Cardinality(open) <= Conns
  BY DEF IInv, TypeOK
<1>2. /\ IsFiniteSet(open) /\ Cardinality(open) \in Nat
      /\ Cardinality(open') \in Nat
  BY <1>1, FiniteOpen
<1>3. Cardinality(open') <= Cardinality(open)
  BY <1>2, FS_Subset
<1> QED BY <1>1, <1>2, <1>3, PoolAssumption

\* A handler that returns has nothing left.
LEMMA ReturnInv ==
  ASSUME IInv, NEW r \in Calls, NEW a \in Answer, Return(r, a)
  PROVE  IInv'
<1> USE DEF Return, Goto
<1>1. open' \subseteq open
  OBVIOUS
<1>2. open' \subseteq Calls \X {1, 2} /\ Cardinality(open') <= Conns
  BY <1>1, ReleaseBound
<1>3. TypeOK'
  BY <1>2 DEF IInv, TypeOK, Step
<1>4. ASSUME NEW q \in Calls PROVE Holding(q)'
  <2>1. <<q, 1>> \in open' <=> q # r /\ <<q, 1>> \in open
    OBVIOUS
  <2>2. <<q, 2>> \in open' <=> q # r /\ <<q, 2>> \in open
    OBVIOUS
  <2>3. pc'[q] = IF q = r THEN "done" ELSE pc[q]
    BY DEF IInv, TypeOK
  <2> QED BY <2>1, <2>2, <2>3 DEF IInv, Holding
<1>5. Locking'
  <2>1. ASSUME NEW i \in Rows, rowLock'[i] # Nobody PROVE pc'[rowLock'[i]] = "work"
    <3>1. rowLock'[i] = rowLock[i] /\ rowLock[i] # r /\ rowLock[i] \in Calls
      BY <2>1 DEF IInv, TypeOK
    <3> QED BY <2>1, <3>1 DEF IInv, TypeOK, Locking
  <2>2. ASSUME NEW q \in Calls, pc'[q] = "lock" PROVE wants'[q] \in Rows
    BY <2>2 DEF IInv, TypeOK, Locking
  <2> QED BY <2>1, <2>2 DEF Locking
<1> QED BY <1>2, <1>3, <1>4, <1>5 DEF IInv

\* A handler that moves on without returning.
LEMMA MoveInv ==
  ASSUME IInv, NEW r \in Calls, NEW s \in Step \ {"idle", "done"}, Goto(r, s),
         pc[r] # "work",
         open' \subseteq Calls \X {1, 2}, Cardinality(open') <= Conns,
         \A q \in Calls, n \in {1, 2} : q # r => (<<q, n>> \in open' <=> <<q, n>> \in open),
         Holding(r)',
         wants' \in [Calls -> Rows \cup {Nobody}],
         \A q \in Calls : q # r => wants'[q] = wants[q],
         s = "lock" => wants'[r] \in Rows,
         answer' = answer,
         \/ rowLock' = rowLock
         \/ s = "work" /\ \E i \in Rows : rowLock' = [rowLock EXCEPT ![i] = r]
  PROVE  IInv'
<1>1. /\ pc' = [pc EXCEPT ![r] = s] /\ pc' \in [Calls -> Step]
  BY DEF Goto, IInv, TypeOK
<1>2. TypeOK'
  BY <1>1 DEF IInv, TypeOK
<1>3. ASSUME NEW q \in Calls PROVE Holding(q)'
  <2>1. CASE q = r
    BY <2>1
  <2>2. CASE q # r
    <3>1. pc'[q] = pc[q]
      BY <1>1, <2>2 DEF IInv, TypeOK
    <3>2. Holding(q)
      BY DEF IInv
    <3>3. /\ <<q, 1>> \in open' <=> <<q, 1>> \in open
          /\ <<q, 2>> \in open' <=> <<q, 2>> \in open
      BY <2>2
    <3> QED BY <3>1, <3>2, <3>3 DEF Holding
  <2> QED BY <2>1, <2>2
<1>4. Locking'
  <2>1. ASSUME NEW i \in Rows, rowLock'[i] # Nobody PROVE pc'[rowLock'[i]] = "work"
    <3>1. CASE rowLock'[i] = rowLock[i]
      <4>1. rowLock[i] \in Calls /\ pc[rowLock[i]] = "work"
        BY <2>1, <3>1 DEF IInv, TypeOK, Locking
      <4>2. rowLock[i] # r
        BY <4>1
      <4> QED BY <1>1, <3>1, <4>1, <4>2 DEF IInv, TypeOK
    <3>2. CASE rowLock'[i] # rowLock[i]
      <4>1. s = "work" /\ rowLock'[i] = r
        BY <3>2 DEF IInv, TypeOK
      <4> QED BY <1>1, <4>1 DEF IInv, TypeOK
    <3> QED BY <3>1, <3>2
  <2>2. ASSUME NEW q \in Calls, pc'[q] = "lock" PROVE wants'[q] \in Rows
    BY <1>1, <2>2 DEF IInv, TypeOK, Locking
  <2> QED BY <2>1, <2>2 DEF Locking
<1> QED BY <1>2, <1>3, <1>4 DEF IInv

-----------------------------------------------------------------------------
LEMMA InitInv == Init => IInv
<1> SUFFICES ASSUME Init PROVE IInv
  OBVIOUS
<1>1. TypeOK
  BY DEF Init, TypeOK, Step, Answer
<1>2. \A r \in Calls : Holding(r)
  BY DEF Init, Holding
<1>3. Locking
  BY DEF Init, Locking
<1>4. Cardinality(open) <= Conns
  BY FS_EmptySet, PoolAssumption DEF Init
<1> QED BY <1>1, <1>2, <1>3, <1>4 DEF IInv

LEMMA NextInv ==
  ASSUME IInv, [Next]_vars
  PROVE  IInv'
<1>1. CASE UNCHANGED vars
  BY <1>1 DEF vars, IInv, TypeOK, Holding, Locking
<1>2. ASSUME NEW r \in Calls, Arrive(r) PROVE IInv'
  <2>1. Holding(r)
    BY DEF IInv
  <2>2. /\ pc[r] = "idle" /\ pc[r] # "work" /\ open' = open /\ rowLock' = rowLock
        /\ answer' = answer
        /\ wants' \in [Calls -> Rows \cup {Nobody}]
        /\ \A q \in Calls : q # r => wants'[q] = wants[q]
    BY <1>2 DEF Arrive, IInv, TypeOK
  <2>3. open' \subseteq Calls \X {1, 2} /\ Cardinality(open') <= Conns
    BY <2>2, ReleaseBound
  <2>4. PICK s \in {"begin1", "begin2"} : Goto(r, s) /\ (s = "begin2" => r \notin Composed)
    BY <1>2 DEF Arrive
  <2>5. Holding(r)'
    BY <2>1, <2>2, <2>4 DEF Holding, Goto, IInv, TypeOK
  <2>6. s \in Step \ {"idle", "done"} /\ s # "lock"
    BY <2>4 DEF Step
  <2> QED BY <2>2, <2>3, <2>4, <2>5, <2>6, MoveInv
<1>3. ASSUME NEW r \in Calls, BeginFirst(r) PROVE IInv'
  <2>1. Holding(r)
    BY DEF IInv
  <2>2. /\ pc[r] = "begin1" /\ Acquire(r, 1) /\ Goto(r, "probe")
        /\ rowLock' = rowLock /\ answer' = answer /\ wants' = wants
    BY <1>3 DEF BeginFirst
  <2>3. open' \subseteq Calls \X {1, 2} /\ Cardinality(open') <= Conns
    BY <2>2, AcquireBound DEF IInv
  <2>4. open' = open \cup {<<r, 1>>}
    BY <2>2 DEF Acquire
  <2>5. Holding(r)'
    BY <2>1, <2>2, <2>4 DEF Holding, Goto, IInv, TypeOK
  <2>6. wants' \in [Calls -> Rows \cup {Nobody}]
    BY <2>2 DEF IInv, TypeOK
  <2>7. "probe" \in Step \ {"idle", "done"}
    BY DEF Step
  <2> QED BY <2>2, <2>3, <2>4, <2>5, <2>6, <2>7, MoveInv
<1>4. ASSUME NEW r \in Calls, Found(r) PROVE IInv'
  <2>1. Holding(r)
    BY DEF IInv
  <2>2. /\ pc[r] = "probe" /\ Goto(r, "begin2")
        /\ open' = (IF r \in Composed THEN open ELSE open \ {<<r, 1>>})
        /\ rowLock' = rowLock /\ answer' = answer /\ wants' = wants
    BY <1>4 DEF Found
  <2>3. open' \subseteq open
    BY <2>2
  <2>4. open' \subseteq Calls \X {1, 2} /\ Cardinality(open') <= Conns
    BY <2>3, ReleaseBound
  <2>5. Holding(r)'
    BY <2>1, <2>2 DEF Holding, Goto, IInv, TypeOK
  <2>6. wants' \in [Calls -> Rows \cup {Nobody}]
    BY <2>2 DEF IInv, TypeOK
  <2>7. "begin2" \in Step \ {"idle", "done"}
    BY DEF Step
  <2>8. \A q \in Calls, n \in {1, 2} : q # r => (<<q, n>> \in open' <=> <<q, n>> \in open)
    BY <2>2
  <2> QED BY <2>2, <2>4, <2>5, <2>6, <2>7, <2>8, MoveInv
<1>5. ASSUME NEW r \in Calls, BeginLast(r) PROVE IInv'
  <2> DEFINE s == IF wants[r] = Nobody THEN "work" ELSE "lock"
  <2>1. Holding(r)
    BY DEF IInv
  <2>2. /\ pc[r] = "begin2" /\ Acquire(r, 2) /\ Goto(r, s)
        /\ rowLock' = rowLock /\ answer' = answer /\ wants' = wants
    BY <1>5 DEF BeginLast
  <2>3. open' \subseteq Calls \X {1, 2} /\ Cardinality(open') <= Conns
    BY <2>2, AcquireBound DEF IInv
  <2>4. open' = open \cup {<<r, 2>>}
    BY <2>2 DEF Acquire
  <2>5. Holding(r)'
    BY <2>1, <2>2, <2>4 DEF Holding, Goto, IInv, TypeOK
  <2>6. wants' \in [Calls -> Rows \cup {Nobody}] /\ (s = "lock" => wants'[r] \in Rows)
    BY <2>2 DEF IInv, TypeOK
  <2>7. s \in Step \ {"idle", "done"}
    BY DEF Step
  <2> HIDE DEF s
  <2> QED BY <2>2, <2>3, <2>4, <2>5, <2>6, <2>7, MoveInv
<1>6. ASSUME NEW r \in Calls, Lock(r) PROVE IInv'
  <2>1. Holding(r) /\ wants[r] \in Rows
    BY <1>6 DEF IInv, Locking, Lock
  <2>2. /\ pc[r] = "lock" /\ Goto(r, "work")
        /\ rowLock' = [rowLock EXCEPT ![wants[r]] = r]
        /\ open' = open /\ answer' = answer /\ wants' = wants
    BY <1>6 DEF Lock
  <2>3. open' \subseteq Calls \X {1, 2} /\ Cardinality(open') <= Conns
    BY <2>2, ReleaseBound
  <2>4. Holding(r)'
    BY <2>1, <2>2 DEF Holding, Goto, IInv, TypeOK
  <2>5. wants' \in [Calls -> Rows \cup {Nobody}]
    BY <2>2 DEF IInv, TypeOK
  <2>6. "work" \in Step \ {"idle", "done"}
    BY DEF Step
  <2>7. \E i \in Rows : rowLock' = [rowLock EXCEPT ![i] = r]
    BY <2>1, <2>2
  <2> QED BY <2>2, <2>3, <2>4, <2>5, <2>6, <2>7, MoveInv
<1>7. ASSUME NEW r \in Calls, Missing(r) \/ Work(r) \/ Cancel(r) PROVE IInv'
  <2>1. \E a \in Answer : Return(r, a)
    BY <1>7 DEF Missing, Work, Cancel, Answer
  <2> QED BY <2>1, ReturnInv
<1> QED BY <1>1, <1>2, <1>3, <1>4, <1>5, <1>6, <1>7 DEF Next, Advance

\* The invariant holds always, for any calls, rows and size of the pool.
THEOREM Invariance == Spec => []IInv
<1>1. IInv /\ [Next]_vars => IInv'
  BY NextInv
<1> QED BY <1>1, InitInv, PTL DEF Spec

\* TypeOK for any calls, rows and size of the pool.
THEOREM TypeCorrect == Spec => []TypeOK
<1>1. IInv => TypeOK
  BY DEF IInv
<1> QED BY <1>1, Invariance, PTL

\* NothingLeaks for any calls, rows and size of the pool.
THEOREM NoLeak == Spec => []NothingLeaks
<1>1. IInv => NothingLeaks
  <2> SUFFICES ASSUME IInv, NEW t \in open
               PROVE  pc[t[1]] \in {"probe", "begin2", "lock", "work"}
    BY DEF IInv, Locking, NothingLeaks
  <2>1. PICK r \in Calls, n \in {1, 2} : t = <<r, n>>
    BY DEF IInv, TypeOK
  <2>2. Holding(r)
    BY DEF IInv
  <2> QED BY <2>1, <2>2 DEF Holding
<1> QED BY <1>1, Invariance, PTL

\* What the invariant says of handlers that block each other.
LEMMA StuckShape ==
  ASSUME IInv, Stuck
  PROVE  /\ Cardinality(open) = Conns
         /\ \A t \in open : t[1] \in Composed /\ t[2] = 1 /\ pc[t[1]] = "begin2"
<1>1. ASSUME NEW r \in Calls PROVE pc[r] # "lock"
  <2> SUFFICES ASSUME pc[r] = "lock" PROVE FALSE
    OBVIOUS
  <2>1. wants[r] \in Rows /\ rowLock[wants[r]] # Nobody
    BY DEF IInv, Locking, Stuck, Waiting
  <2>2. rowLock[wants[r]] \in Calls /\ pc[rowLock[wants[r]]] = "work"
    BY <2>1 DEF IInv, TypeOK, Locking
  <2> QED BY <2>2 DEF Stuck, Running
<1>2. Cardinality(open) = Conns
  <2>1. PICK r \in Calls : pc[r] \in {"begin1", "begin2"}
    BY <1>1 DEF Stuck, Waiting
  <2>2. Cardinality(open) >= Conns
    BY <2>1 DEF Stuck, Waiting
  <2>3. Cardinality(open) \in Nat
    BY FiniteOpen DEF IInv, TypeOK
  <2> QED BY <2>2, <2>3, PoolAssumption DEF IInv
<1>3. ASSUME NEW t \in open PROVE t[1] \in Composed /\ t[2] = 1 /\ pc[t[1]] = "begin2"
  <2>1. PICK r \in Calls, n \in {1, 2} : t = <<r, n>>
    BY DEF IInv, TypeOK
  <2>2. Holding(r)
    BY DEF IInv
  <2>3. pc[r] \notin {"probe", "lock", "work"}
    BY <1>1 DEF Stuck, Running
  <2> QED BY <2>1, <2>2, <2>3 DEF Holding
<1> QED BY <1>2, <1>3

\* OnlyComposedBlock for any calls, rows and size of the pool.
THEOREM BlockedByComposed == Spec => []OnlyComposedBlock
<1>1. IInv => OnlyComposedBlock
  BY StuckShape DEF OnlyComposedBlock
<1> QED BY <1>1, Invariance, PTL

\* NeverStuck for any calls, rows and size of the pool: if fewer composed calls are
\* under way than there are connections, their first transactions leave one free.
THEOREM NoBlocking == Spec => []NeverStuck
<1>1. IInv => NeverStuck
  <2> SUFFICES ASSUME IInv, Cardinality(InFlight) < Conns, Stuck PROVE FALSE
    BY DEF NeverStuck
  <2>1. Cardinality(open) = Conns /\ open \subseteq InFlight \X {1}
    <3>1. open \subseteq Calls \X {1, 2}
      BY DEF IInv, TypeOK
    <3> QED BY <3>1, StuckShape DEF InFlight
  <2>2. IsFiniteSet(InFlight)
    <3>1. InFlight \subseteq Calls /\ IsFiniteSet(Calls)
      BY PoolAssumption DEF InFlight
    <3> QED BY <3>1, FS_Subset
  <2>3. IsFiniteSet({1}) /\ Cardinality({1}) = 1
    BY FS_Singleton
  <2>4. /\ IsFiniteSet(InFlight \X {1})
        /\ Cardinality(InFlight \X {1}) = Cardinality(InFlight) * 1
    BY <2>2, <2>3, FS_Product
  <2>5. Cardinality(open) <= Cardinality(InFlight \X {1})
    BY <2>1, <2>4, FS_Subset
  <2>6. Cardinality(InFlight) \in Nat /\ Cardinality(open) \in Nat
    BY <2>2, <2>1, FS_CardinalityType, PoolAssumption
  <2> QED BY <2>1, <2>4, <2>5, <2>6
<1> QED BY <1>1, Invariance, PTL

-----------------------------------------------------------------------------
(* The safety half of EveryCallAnswered.                                   *)

\* The guard of Advance(r): a connection, or the row, is there to be taken; who
\* is in a transaction and waits for no row waits for nobody.
Ready(r) ==
  \/ pc[r] \in {"begin1", "begin2"} /\ Cardinality(open) < Conns
  \/ pc[r] = "lock" /\ rowLock[wants[r]] = Nobody
  \/ pc[r] \in {"probe", "work"}

\* As long as fewer composed calls are under way than there are connections, and
\* some call is, some call can take its next step.
SomeoneReady ==
  Cardinality(InFlight) < Conns /\ (\E r \in Calls : pc[r] \notin {"idle", "done"})
    => \E r \in Calls : Ready(r)

\* How many steps a call is from its answer, at most.
Distance(r) ==
  CASE pc[r] = "idle" -> 6  [] pc[r] = "begin1" -> 5 [] pc[r] = "probe" -> 4
    [] pc[r] = "begin2" -> 3 [] pc[r] = "lock" -> 2  [] pc[r] = "work" -> 1
    [] OTHER -> 0

\* No step takes a call further from its answer, and each brings one nearer.
Nearer ==
  /\ \A r \in Calls : Distance(r)' <= Distance(r)
  /\ \E r \in Calls : Distance(r)' < Distance(r)

\* With fewer composed calls than connections nobody waits for ever, whatever the
\* calls, the rows and the size of the pool.
THEOREM NoDeadlock == Spec => []SomeoneReady
<1>1. TypeOK /\ NeverStuck => SomeoneReady
  <2> SUFFICES ASSUME TypeOK, ~Stuck, NEW r \in Calls, pc[r] \notin {"idle", "done"}
               PROVE  \E q \in Calls : Ready(q)
    BY DEF SomeoneReady, NeverStuck
  <2>1. CASE Running # {}
    BY <2>1 DEF Running, Ready
  <2>2. CASE Running = {}
    <3>1. r \in Waiting
      BY <2>2 DEF Waiting, Running, TypeOK, Step
    <3>2. PICK q \in Waiting : ~(IF pc[q] = "lock" THEN rowLock[wants[q]] # Nobody
                                                   ELSE Cardinality(open) >= Conns)
      BY <2>2, <3>1 DEF Stuck
    <3>3. q \in Calls /\ pc[q] \in {"begin1", "begin2", "lock"}
      BY DEF Waiting
    <3>4. Cardinality(open) \in Nat
      BY FiniteOpen DEF TypeOK
    <3> QED BY <3>2, <3>3, <3>4, PoolAssumption DEF Ready
  <2> QED BY <2>1, <2>2
<1> QED BY <1>1, TypeCorrect, NoBlocking, PTL

\* A step of one call that lowers its distance leaves the others where they are.
LEMMA NearerByOne ==
  ASSUME NEW r \in Calls, \A q \in Calls \ {r} : pc'[q] = pc[q],
         \/ pc[r] = "idle" /\ pc'[r] \in {"begin1", "begin2"}
         \/ pc[r] = "begin1" /\ pc'[r] = "probe"
         \/ pc[r] = "probe" /\ pc'[r] = "begin2"
         \/ pc[r] = "begin2" /\ pc'[r] \in {"lock", "work"}
         \/ pc[r] = "lock" /\ pc'[r] = "work"
         \/ pc[r] \in Step \ {"idle", "done"} /\ pc'[r] = "done"
  PROVE  Nearer
<1>1. Distance(r)' < Distance(r) /\ Distance(r)' <= Distance(r)
  BY DEF Distance, Step
<1>2. ASSUME NEW q \in Calls \ {r} PROVE Distance(q)' <= Distance(q)
  BY DEF Distance
<1> QED BY <1>1, <1>2 DEF Nearer

LEMMA CallNearer == TypeOK /\ Next => Nearer
<1> SUFFICES ASSUME TypeOK, NEW r \in Calls, Arrive(r) \/ Advance(r) \/ Cancel(r)
             PROVE  Nearer
  BY DEF Next
<1> USE DEF TypeOK, Goto
<1>1. CASE Arrive(r)
  <2>1. pc[r] = "idle" /\ pc'[r] \in {"begin1", "begin2"}
        /\ \A q \in Calls \ {r} : pc'[q] = pc[q]
    BY <1>1 DEF Arrive
  <2> QED BY <2>1, NearerByOne
<1>2. CASE BeginFirst(r) \/ Found(r) \/ BeginLast(r) \/ Lock(r)
  <2>1. \A q \in Calls \ {r} : pc'[q] = pc[q]
    BY <1>2 DEF BeginFirst, Found, BeginLast, Lock
  <2>2. \/ pc[r] = "begin1" /\ pc'[r] = "probe"
        \/ pc[r] = "probe" /\ pc'[r] = "begin2"
        \/ pc[r] = "begin2" /\ pc'[r] \in {"lock", "work"}
        \/ pc[r] = "lock" /\ pc'[r] = "work"
    BY <1>2 DEF BeginFirst, Found, BeginLast, Lock
  <2> QED BY <2>1, <2>2, NearerByOne
<1>3. CASE Missing(r) \/ Work(r) \/ Cancel(r)
  <2>1. /\ pc[r] \in Step \ {"idle", "done"} /\ pc'[r] = "done"
        /\ \A q \in Calls \ {r} : pc'[q] = pc[q]
    BY <1>3 DEF Missing, Work, Cancel, Return
  <2> QED BY <2>1, NearerByOne
<1> QED BY <1>1, <1>2, <1>3 DEF Advance

\* Each step brings some call nearer to its answer and none further from it, so
\* the calls take finitely many steps; with NoDeadlock and a scheduler that does
\* not stop, every one of them is answered.
THEOREM EveryStepCounts == Spec => [][Nearer]_vars
<1>1. TypeOK /\ [Next]_vars => [Nearer]_vars
  BY CallNearer
<1> QED BY <1>1, TypeCorrect, PTL DEF Spec

-----------------------------------------------------------------------------
\* A step of the server is a step of the pool, or leaves its calls alone.
LEMMA StepOfPool == [ShutdownNext]_allVars => [Next]_vars
<1> SUFFICES ASSUME [ShutdownNext]_allVars PROVE [Next]_vars
  OBVIOUS
<1>1. CASE UNCHANGED allVars
  BY <1>1 DEF allVars
<1>2. ASSUME NEW r \in Calls, Come(r) PROVE Next
  BY <1>2 DEF Come, Next
<1>3. ASSUME NEW r \in Calls, Handler(r) PROVE Next
  <2>1. CASE Refused(r)
    <3>1. Cancel(r)
      BY <2>1 DEF Refused, Cancel
    <3> QED BY <3>1 DEF Next
  <2>2. CASE BeginFirst(r) \/ BeginLast(r) \/ Found(r) \/ Missing(r) \/ Lock(r) \/ Work(r)
    BY <2>2 DEF Next, Advance
  <2> QED BY <1>3, <2>1, <2>2 DEF Handler
<1>4. ASSUME NEW r \in Calls, Leave(r) PROVE Next
  BY <1>4 DEF Leave, Next
<1>5. CASE Signal \/ Deadline \/ End
  <2>1. UNCHANGED vars
    BY <1>5 DEF Signal, Deadline, End, HTTPDone, HTTPForce, GRPCDone, GRPCForce, PoolDone
  <2> QED BY <2>1
<1> QED BY <1>1, <1>2, <1>3, <1>4, <1>5 DEF ShutdownNext

\* The server that ends implements the pool: whatever is proved of the pool holds
\* while the server shuts down and after.
THEOREM ShutdownUsesPool == ShutdownSpec => Spec
<1>1. ShutdownInit => Init
  BY DEF ShutdownInit
<1> QED BY <1>1, StepOfPool, PTL DEF ShutdownSpec, Spec

\* Who is left behind by each phase, and when the shutdown cuts.
SInv ==
  /\ pc \in [Calls -> Step]
  /\ cut \subseteq Calls
  /\ cut # {} => late
  /\ phase \in {"grpc", "pool", "down"} => Https \cap Active \subseteq cut
  /\ phase \in {"pool", "down"} => Active \subseteq cut
  /\ exit # "none" => phase = "down"
  /\ exit = "graceful" => Active = {} /\ cut = {}

\* No step but an arrival adds to the calls under way.
LEMMA ActiveShrinks ==
  ASSUME pc \in [Calls -> Step], NEW r \in Calls, Handler(r) \/ Leave(r)
  PROVE  Active' \subseteq Active
<1>1. pc[r] \notin {"idle", "done"} /\ \A q \in Calls : q # r => pc'[q] = pc[q]
  <2>1. CASE Leave(r)
    BY <2>1 DEF Leave, Cancel, Return, Goto
  <2>2. CASE Refused(r)
    BY <2>2 DEF Refused, Return, Goto
  <2>3. CASE BeginFirst(r) \/ Found(r) \/ Lock(r)
    BY <2>3 DEF BeginFirst, Found, Lock, Goto
  <2>4. CASE BeginLast(r)
    BY <2>4 DEF BeginLast, Goto
  <2>5. CASE Missing(r) \/ Work(r)
    BY <2>5 DEF Missing, Work, Return, Goto
  <2> QED BY <2>1, <2>2, <2>3, <2>4, <2>5 DEF Handler
<1> QED BY <1>1 DEF Active

\* The calls keep the rest of the invariant.
LEMMA CallsKeep ==
  ASSUME SInv, pc' \in [Calls -> Step], UNCHANGED serverVars, Active' \subseteq Active
  PROVE  SInv'
BY DEF SInv, serverVars, Https

LEMMA ShutdownInv ==
  ASSUME SInv, TypeOK', [ShutdownNext]_allVars
  PROVE  SInv'
<1>0. pc' \in [Calls -> Step]
  BY DEF TypeOK
<1>1. CASE UNCHANGED allVars
  <2>1. Active' = Active
    BY <1>1 DEF allVars, vars, Active
  <2> QED BY <1>0, <1>1, <2>1, CallsKeep DEF allVars
<1>2. ASSUME NEW r \in Calls, Come(r) PROVE SInv'
  <2>1. Active' \subseteq Active \cup {r}
    BY <1>2 DEF Come, Arrive, Goto, Active, SInv
  <2>2. /\ UNCHANGED serverVars
        /\ phase = "up" \/ (phase = "http" /\ r \in Rpcs)
    BY <1>2 DEF Come, Accepts
  <2> QED BY <1>0, <2>1, <2>2 DEF SInv, serverVars
<1>3. ASSUME NEW r \in Calls, Handler(r) \/ Leave(r) PROVE SInv'
  <2>1. Active' \subseteq Active
    BY <1>3, ActiveShrinks DEF SInv
  <2>2. UNCHANGED serverVars
    BY <1>3 DEF Handler, Leave
  <2> QED BY <1>0, <2>1, <2>2, CallsKeep
<1>4. ASSUME UNCHANGED vars PROVE Active' = Active /\ pc' = pc
  BY <1>4 DEF vars, Active
<1>5. CASE Signal
  BY <1>4, <1>5 DEF Signal, Move, SInv, Https
<1>6. CASE Deadline
  BY <1>4, <1>6 DEF Deadline, SInv, Https
<1>7. CASE HTTPDone
  BY <1>4, <1>7 DEF HTTPDone, Move, SInv, Https
<1>8. CASE HTTPForce
  <2>1. /\ phase = "http" /\ phase' = "grpc" /\ late /\ late' = late /\ exit' = exit
        /\ cut' = cut \cup (Https \cap Active) /\ Active' = Active /\ pc' = pc
    BY <1>4, <1>8 DEF HTTPForce, Move, Sever
  <2> QED BY <2>1 DEF SInv, Https
<1>9. CASE GRPCDone
  <2>1. /\ phase = "grpc" /\ phase' = "pool" /\ Rpcs \cap Active = {}
        /\ UNCHANGED <<cut, late, exit>> /\ Active' = Active /\ pc' = pc
    BY <1>4, <1>9 DEF GRPCDone, Move
  <2>2. Active \subseteq Rpcs \cup Https
    BY DEF Active, Https
  <2> QED BY <2>1, <2>2 DEF SInv, Https
<1>10. CASE GRPCForce
  <2>1. /\ phase = "grpc" /\ phase' = "pool" /\ late /\ late' = late /\ exit' = exit
        /\ cut' = cut \cup (Rpcs \cap Active) /\ Active' = Active /\ pc' = pc
    BY <1>4, <1>10 DEF GRPCForce, Move, Sever
  <2>2. Active \subseteq Rpcs \cup Https /\ Active \subseteq Calls
    BY DEF Active, Https
  <2> QED BY <2>1, <2>2 DEF SInv, Https
<1>11. CASE PoolDone
  <2>1. /\ phase = "pool" /\ phase' = "down" /\ UNCHANGED <<late, cut>>
        /\ exit' = (IF late THEN "force_kill_timeout" ELSE "graceful")
        /\ Active' = Active /\ pc' = pc
    BY <1>4, <1>11 DEF PoolDone, Move
  <2> QED BY <2>1 DEF SInv, Https
<1> QED BY <1>1, <1>2, <1>3, <1>5, <1>6, <1>7, <1>8, <1>9, <1>10, <1>11
        DEF ShutdownNext, End

\* GracefulExit for any calls, rows and size of the pool.
THEOREM CleanExit == ShutdownSpec => []GracefulExit
<1>1. ShutdownInit => SInv
  BY DEF ShutdownInit, Init, SInv, Active, Step
<1>2. SInv /\ TypeOK' /\ [ShutdownNext]_allVars => SInv'
  BY ShutdownInv
<1>3. SInv => GracefulExit
  BY DEF SInv, GracefulExit, PoolClosed
<1>4. ShutdownSpec => []TypeOK
  BY ShutdownUsesPool, TypeCorrect, PTL
<1> QED BY <1>1, <1>2, <1>3, <1>4, PTL DEF ShutdownSpec

-----------------------------------------------------------------------------
(* The safety half of ShutdownEnds.                                        *)

\* A shutdown that has begun has a step of its own to take (the deadline, the
\* forced end of a phase, the last close), or a call whose connection it has
\* closed is still to notice it: it never waits for a call it cannot end.
EndInReach ==
  phase \in {"http", "grpc", "pool"} =>
    \/ ~late
    \/ phase \in {"http", "grpc"}
    \/ phase = "pool" /\ open = {}
    \/ \E r \in cut : pc[r] \notin {"idle", "done"}

PhasesLeft ==
  CASE phase = "up" -> 4 [] phase = "http" -> 3 [] phase = "grpc" -> 2
    [] phase = "pool" -> 1 [] OTHER -> 0

\* No step takes the server or a call back, and each takes the server, its
\* deadline or a call on.
ServerNearer ==
  /\ PhasesLeft' <= PhasesLeft
  /\ late => late'
  /\ \A r \in Calls : Distance(r)' <= Distance(r)
  /\ \/ PhasesLeft' < PhasesLeft
     \/ ~late /\ late'
     \/ Nearer

\* The connections a closed pool waits for belong to calls that were cut, also
\* when composed handlers block each other; any calls, rows and size of the pool.
THEOREM ShutdownNeverStalls == ShutdownSpec => []EndInReach
<1>1. NothingLeaks /\ TypeOK /\ GracefulExit => EndInReach
  <2> SUFFICES ASSUME NothingLeaks, TypeOK, GracefulExit, phase = "pool", NEW t \in open
               PROVE  \E r \in cut : pc[r] \notin {"idle", "done"}
    BY DEF EndInReach
  <2>1. t[1] \in Calls /\ pc[t[1]] \notin {"idle", "done"}
    BY DEF NothingLeaks, TypeOK
  <2>2. t[1] \in Active
    BY <2>1 DEF Active
  <2>3. Active \subseteq cut
    BY DEF GracefulExit, PoolClosed
  <2> QED BY <2>1, <2>2, <2>3
<1> QED BY <1>1, ShutdownUsesPool, TypeCorrect, NoLeak, CleanExit, PTL

\* The shutdown has four phases and one deadline, and every other step brings a
\* call nearer to its end: with ShutdownNeverStalls, it ends.
THEOREM EveryServerStepCounts == ShutdownSpec => [][ServerNearer]_allVars
<1>1. TypeOK /\ [ShutdownNext]_allVars => [ServerNearer]_allVars
  <2> SUFFICES ASSUME TypeOK, ShutdownNext PROVE ServerNearer
    OBVIOUS
  <2>1. ASSUME NEW r \in Calls, Come(r) \/ Handler(r) \/ Leave(r) PROVE ServerNearer
    <3>1. UNCHANGED serverVars
      BY <2>1 DEF Come, Handler, Leave
    <3>2. Next
      <4>1. CASE Refused(r)
        BY <4>1 DEF Refused, Cancel, Next
      <4> QED BY <2>1, <4>1 DEF Come, Handler, Leave, Next, Advance
    <3>3. Nearer
      BY <3>2, CallNearer
    <3>4. PhasesLeft' = PhasesLeft /\ late' = late
      BY <3>1 DEF serverVars, PhasesLeft
    <3>5. PhasesLeft \in Nat
      BY DEF PhasesLeft
    <3> QED BY <3>3, <3>4, <3>5 DEF ServerNearer, Nearer
  <2>2. CASE Signal \/ Deadline \/ End
    <3>1. \A r \in Calls : Distance(r)' <= Distance(r)
      <4>1. pc' = pc
        BY <2>2 DEF Signal, Deadline, End, HTTPDone, HTTPForce, GRPCDone, GRPCForce, PoolDone, vars
      <4> QED BY <4>1 DEF Distance
    <3>2. CASE Deadline
      BY <3>1, <3>2 DEF Deadline, ServerNearer, PhasesLeft
    <3>3. CASE Signal \/ End
      <4>1. late' = late
        BY <3>3 DEF Signal, End, HTTPDone, HTTPForce, GRPCDone, GRPCForce, PoolDone, Sever
      <4>2. PhasesLeft' < PhasesLeft /\ PhasesLeft' <= PhasesLeft
        BY <3>3 DEF Signal, End, HTTPDone, HTTPForce, GRPCDone, GRPCForce, PoolDone, Move, PhasesLeft
      <4> QED BY <3>1, <4>1, <4>2 DEF ServerNearer
    <3> QED BY <2>2, <3>2, <3>3
  <2> QED BY <2>1, <2>2 DEF ShutdownNext
<1> QED BY <1>1, ShutdownUsesPool, TypeCorrect, PTL DEF ShutdownSpec
=============================================================================
