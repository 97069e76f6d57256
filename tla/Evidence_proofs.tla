-------------------------- MODULE Evidence_proofs ---------------------------
(***************************************************************************)
(* Theorems about Evidence, for any items, calls and seeds.                *)
(*                                                                         *)
(* The argument: an upload that is about to commit holds the lock of the   *)
(* row it replaces and found it ACTIVE under that lock, so the row has no  *)
(* successor yet.  Where an item always has a version, every upload has a  *)
(* row to lock, and the numbering cannot repeat.                           *)
(***************************************************************************)
EXTENDS Evidence, SequenceTheorems, TLAPS

\* What is known of a call by where it is.
CallOK(r) ==
  /\ pc[r] = "idle" <=> call[r] = NoCall
  /\ Present(r) => pc[r] = "done" /\ call[r].op = "Upload"
  /\ pc[r] \in {"idle", "find"} => target[r] = None
  /\ pc[r] = "lock" => target[r] # None
  /\ pc[r] \in {"lock", "write", "commit"} /\ call[r].op = "Edit" => target[r] # None
  /\ pc[r] \in {"lock", "write", "commit"} /\ call[r].op = "Upload" =>
       IF target[r] = None THEN call[r].item \notin Seeded
                           ELSE target[r] \in VersionsOf(call[r].item)

\* A change is committed under the lock of the row it was decided on.
LockOK(r) ==
  pc[r] \in {"write", "commit"} /\ target[r] # None =>
    /\ Present(target[r])
    /\ rowLock[target[r]] = r
    /\ pc[r] = "commit" /\ call[r].op = "Upload" => evidences[target[r]].status = "ACTIVE"

\* Rows refer to rows that are there, and the seeds stay.
RowsOK ==
  /\ \A i \in Rows : Present(i) =>
       /\ evidences[i].item \in Items
       /\ evidences[i].prev # None => \E p \in Rows : evidences[i].prev = p /\ Present(p)
  /\ \A i \in Seeded : i \in VersionsOf(i)

IInv == /\ TypeOK
        /\ \A r \in Requests : CallOK(r) /\ LockOK(r)
        /\ RowsOK

\* A creation is a version 1, a versioning is not.
Numbered == \A i \in Rows : Present(i) =>
              /\ evidences[i].version \geq 1
              /\ evidences[i].version = 1 <=> evidences[i].prev = None

-----------------------------------------------------------------------------
\* The initial state satisfies the invariant.
LEMMA InitIInv == Init => IInv
<1> SUFFICES ASSUME Init PROVE IInv
  OBVIOUS
<1>1. TypeOK
  <2>1. evidences \in [Rows -> Row]
    BY DistinctNames DEF Init, Row, NoRow, First, Rows
  <2>2. audit \subseteq AuditRow
    BY DEF Init, AuditRow, Rows
  <2>3. /\ rowLock \in [Rows -> Requests \cup {None}]
        /\ call \in [Requests -> Call \cup {NoCall}]
        /\ pc \in [Requests -> Step]
        /\ target \in [Requests -> Rows \cup {None}]
        /\ answer \in [Requests -> Answer]
    BY DEF Init, Step, Answer
  <2> QED BY <2>1, <2>2, <2>3 DEF TypeOK
<1>2. \A i \in Rows : /\ i \in Seeded => evidences[i] = First(i, i)
                      /\ i \notin Seeded => evidences[i] = NoRow
  BY DEF Init
<1>3. \A i \in Seeded : First(i, i).item = i /\ First(i, i).prev = None
                        /\ First(i, i).status = "ACTIVE" /\ NoRow.status = "ABSENT"
  BY DEF First, NoRow
<1>4. ASSUME NEW r \in Requests PROVE CallOK(r) /\ LockOK(r)
  <2>1. r \notin Seeded /\ r \in Rows
    BY DistinctNames DEF Rows
  <2>2. ~Present(r)
    BY <1>2, <2>1 DEF Present, NoRow
  <2> QED BY <2>2 DEF Init, CallOK, LockOK
<1>5. RowsOK
  <2>1. \A i \in Rows : Present(i) => i \in Seeded
    BY <1>2 DEF Present, NoRow
  <2> QED BY <1>2, <1>3, <2>1, DistinctNames DEF RowsOK, Present, VersionsOf, Rows
<1> QED BY <1>1, <1>4, <1>5 DEF IInv

\* Ending a call.
LEMMA FinishTypes ==
  ASSUME TypeOK, NEW r \in Requests, NEW a \in Answer, Finish(r, a)
  PROVE  /\ rowLock' \in [Rows -> Requests \cup {None}]
         /\ pc' \in [Requests -> Step]
         /\ answer' \in [Requests -> Answer]
         /\ call' = call /\ target' = target
         /\ pc' = [pc EXCEPT ![r] = "done"]
         /\ \A i \in Rows : rowLock[i] # r => rowLock'[i] = rowLock[i]
BY DEF TypeOK, Finish, Step

\* A step that changes no row and, of the calls, only one that stays lawful.
LEMMA QuietStep ==
  ASSUME IInv, NEW r \in Requests,
         evidences' = evidences, audit' = audit, TypeOK',
         \A q \in Requests \ {r} : pc'[q] = pc[q] /\ call'[q] = call[q] /\ target'[q] = target[q],
         \A q \in Requests \ {r}, i \in Rows : rowLock[i] = q => rowLock'[i] = q,
         CallOK(r)', LockOK(r)'
  PROVE  IInv'
<1>1. ASSUME NEW q \in Requests, q # r PROVE CallOK(q)' /\ LockOK(q)'
  <2>1. CallOK(q) /\ LockOK(q) /\ target[q] \in Rows \cup {None}
    BY DEF IInv, TypeOK
  <2>2. pc'[q] = pc[q] /\ call'[q] = call[q] /\ target'[q] = target[q]
    BY <1>1
  <2>3. CallOK(q)'
    BY <2>1, <2>2 DEF CallOK, Present, VersionsOf
  <2>4. LockOK(q)'
    BY <1>1, <2>1, <2>2 DEF LockOK, Present
  <2> QED BY <2>3, <2>4
<1>2. RowsOK'
  BY DEF IInv, RowsOK, Present, VersionsOf
<1> QED BY <1>1, <1>2 DEF IInv

\* A call that ends without a commit disturbs nothing.
LEMMA ReturnIInv ==
  ASSUME IInv, NEW r \in Requests, pc[r] \notin {"idle", "done"},
         NEW a \in Answer, Return(r, a)
  PROVE  IInv'
<1>1. Finish(r, a) /\ evidences' = evidences /\ audit' = audit
  BY DEF Return
<1>2. /\ call' = call /\ target' = target /\ pc' = [pc EXCEPT ![r] = "done"]
      /\ \A i \in Rows : rowLock[i] # r => rowLock'[i] = rowLock[i]
      /\ TypeOK'
  BY <1>1, FinishTypes DEF IInv, TypeOK
<1>3. \A q \in Requests \ {r} : pc'[q] = pc[q]
  BY <1>2 DEF IInv, TypeOK
<1>4. pc'[r] = "done"
  BY <1>2 DEF IInv, TypeOK
<1>5. CallOK(r)' /\ LockOK(r)'
  BY <1>1, <1>2, <1>4 DEF IInv, CallOK, LockOK, Present
<1> QED BY <1>1, <1>2, <1>3, <1>5, QuietStep

\* The arrival of a call.
LEMMA ArriveIInv == ASSUME IInv, NEW r \in Requests, Arrive(r) PROVE IInv'
<1>1. PICK c \in Call : call' = [call EXCEPT ![r] = c]
  BY DEF Arrive
<1>2. /\ pc[r] = "idle" /\ pc' = [pc EXCEPT ![r] = "find"]
      /\ UNCHANGED <<evidences, audit, rowLock, target, answer>>
  BY DEF Arrive
<1>3. TypeOK'
  BY <1>1, <1>2 DEF IInv, TypeOK, Step
<1>4. pc'[r] = "find" /\ call'[r] = c /\ ~Present(r) /\ target'[r] = None
  BY <1>1, <1>2 DEF IInv, TypeOK, CallOK
<1>5. c # NoCall
  <2>1. c.op \in {"Upload", "Edit"}
    BY DEF Call
  <2> QED BY <2>1 DEF NoCall
<1>6. CallOK(r)' /\ LockOK(r)'
  BY <1>2, <1>4, <1>5 DEF CallOK, LockOK, Present
<1>7. \A q \in Requests \ {r} : pc'[q] = pc[q] /\ call'[q] = call[q] /\ target'[q] = target[q]
  BY <1>1, <1>2 DEF IInv, TypeOK
<1> QED BY <1>2, <1>3, <1>6, <1>7, QuietStep

\* The search for the latest version.
LEMMA FindIInv == ASSUME IInv, NEW r \in Requests, Find(r) PROVE IInv'
<1>1. /\ pc[r] = "find" /\ call[r].op = "Upload" /\ CallOK(r)
      /\ UNCHANGED <<evidences, audit, rowLock, call, answer>>
  BY DEF Find, IInv
<1>2. CASE \E i \in LatestOf(call[r].item) :
             target' = [target EXCEPT ![r] = i] /\ pc' = [pc EXCEPT ![r] = "lock"]
  <2>1. PICK i \in LatestOf(call[r].item) :
             target' = [target EXCEPT ![r] = i] /\ pc' = [pc EXCEPT ![r] = "lock"]
    BY <1>2
  <2>2. i \in VersionsOf(call[r].item) /\ i \in Rows
    BY DEF LatestOf, VersionsOf
  <2>3. TypeOK'
    BY <1>1, <2>1, <2>2 DEF IInv, TypeOK, Step
  <2>4. target'[r] = i /\ pc'[r] = "lock" /\ i # None
    BY <2>1, <2>2, DistinctNames DEF IInv, TypeOK, Rows
  <2>5. CallOK(r)' /\ LockOK(r)'
    BY <1>1, <2>2, <2>4 DEF CallOK, LockOK, Present, VersionsOf
  <2>6. \A q \in Requests \ {r} : pc'[q] = pc[q] /\ call'[q] = call[q] /\ target'[q] = target[q]
    BY <1>1, <2>1 DEF IInv, TypeOK
  <2> QED BY <1>1, <2>3, <2>5, <2>6, QuietStep
<1>3. CASE /\ VersionsOf(call[r].item) = {}
           /\ pc' = [pc EXCEPT ![r] = "write"] /\ target' = target
  <2>1. TypeOK'
    BY <1>1, <1>3 DEF IInv, TypeOK, Step
  <2>2. call[r].item \notin Seeded
    BY <1>3 DEF IInv, RowsOK
  <2>3. pc'[r] = "write" /\ target'[r] = None
    BY <1>1, <1>3 DEF IInv, TypeOK, CallOK
  <2>4. CallOK(r)' /\ LockOK(r)'
    BY <1>1, <2>2, <2>3 DEF CallOK, LockOK, Present
  <2>5. \A q \in Requests \ {r} : pc'[q] = pc[q] /\ call'[q] = call[q] /\ target'[q] = target[q]
    BY <1>1, <1>3 DEF IInv, TypeOK
  <2> QED BY <1>1, <2>1, <2>4, <2>5, QuietStep
<1> QED BY <1>1, <1>2, <1>3 DEF Find

\* The count of successors that precedes an edit.
LEMMA CountIInv == ASSUME IInv, NEW r \in Requests, CountSuccessors(r) PROVE IInv'
<1> DEFINE i == call[r].row
<1>1. pc[r] = "find" /\ call[r].op = "Edit" /\ CallOK(r)
  BY DEF CountSuccessors, IInv
<1>2. call[r] \in Call /\ i \in Rows /\ i # None
  <2>1. call[r] \in Call
    BY <1>1 DEF IInv, TypeOK, NoCall
  <2> QED BY <1>1, <2>1, DistinctNames DEF Call, Rows
<1>3. CASE Return(r, "immutable")
  BY <1>1, <1>3, ReturnIInv DEF Answer
<1>4. CASE /\ target' = [target EXCEPT ![r] = i]
           /\ pc' = [pc EXCEPT ![r] = "lock"]
           /\ UNCHANGED <<evidences, audit, rowLock, call, answer>>
  <2>1. TypeOK'
    BY <1>2, <1>4 DEF IInv, TypeOK, Step
  <2>2. target'[r] = i /\ pc'[r] = "lock"
    BY <1>4 DEF IInv, TypeOK
  <2>3. CallOK(r)' /\ LockOK(r)'
    BY <1>1, <1>2, <1>4, <2>2 DEF CallOK, LockOK, Present
  <2>4. \A q \in Requests \ {r} : pc'[q] = pc[q] /\ call'[q] = call[q] /\ target'[q] = target[q]
    BY <1>4 DEF IInv, TypeOK
  <2> QED BY <1>4, <2>1, <2>3, <2>4, QuietStep
<1> QED BY <1>3, <1>4 DEF CountSuccessors

\* The lock of the row.
LEMMA LockIInv == ASSUME IInv, NEW r \in Requests, Lock(r) PROVE IInv'
<1> DEFINE i == target[r]
<1>1. pc[r] = "lock" /\ CallOK(r) /\ i \in Rows
  BY DEF Lock, IInv, TypeOK, CallOK
<1>2. CASE Return(r, "notfound")
  BY <1>1, <1>2, ReturnIInv DEF Answer
<1>3. CASE /\ Present(i) /\ rowLock[i] = None
           /\ rowLock' = [rowLock EXCEPT ![i] = r]
           /\ pc' = [pc EXCEPT ![r] = "write"]
           /\ UNCHANGED <<evidences, audit, call, target, answer>>
  <2>1. TypeOK'
    BY <1>1, <1>3 DEF IInv, TypeOK, Step
  <2>2. rowLock'[i] = r /\ pc'[r] = "write"
    BY <1>1, <1>3 DEF IInv, TypeOK
  <2>3. CallOK(r)' /\ LockOK(r)'
    BY <1>1, <1>3, <2>2 DEF CallOK, LockOK, Present, VersionsOf
  <2>4. \A q \in Requests \ {r} : pc'[q] = pc[q] /\ call'[q] = call[q] /\ target'[q] = target[q]
    BY <1>3 DEF IInv, TypeOK
  <2>5. \A q \in Requests \ {r}, j \in Rows : rowLock[j] = q => rowLock'[j] = q
    BY <1>3, DistinctNames DEF IInv, TypeOK
  <2> QED BY <1>3, <2>1, <2>3, <2>4, <2>5, QuietStep
<1> QED BY <1>2, <1>3 DEF Lock

\* The writes, which nobody sees yet.
LEMMA WriteIInv == ASSUME IInv, NEW r \in Requests, Write(r) PROVE IInv'
<1>1. pc[r] = "write" /\ CallOK(r) /\ LockOK(r)
  BY DEF Write, IInv
<1>2. CASE Return(r, "raced")
  BY <1>1, <1>2, ReturnIInv DEF Answer
<1>3. CASE /\ call[r].op = "Upload" => Supersedes(r)
           /\ pc' = [pc EXCEPT ![r] = "commit"]
           /\ UNCHANGED <<evidences, audit, rowLock, call, target, answer>>
  <2>1. TypeOK'
    BY <1>3 DEF IInv, TypeOK, Step
  <2>2. pc'[r] = "commit"
    BY <1>3 DEF IInv, TypeOK
  <2>3. CallOK(r)' /\ LockOK(r)'
    BY <1>1, <1>3, <2>2 DEF CallOK, LockOK, Present, VersionsOf, Supersedes
  <2>4. \A q \in Requests \ {r} : pc'[q] = pc[q] /\ call'[q] = call[q] /\ target'[q] = target[q]
    BY <1>3 DEF IInv, TypeOK
  <2> QED BY <1>3, <2>1, <2>3, <2>4, QuietStep
<1> QED BY <1>2, <1>3 DEF Write

\* What a commit does to the table.
LEMMA PublishRows ==
  ASSUME IInv, NEW r \in Requests, pc[r] = "commit", Publish(r)
  PROVE  /\ ~Present(r) /\ r \in Rows /\ target[r] # r
         /\ call[r] \in Call /\ call[r].op \in {"Upload", "Edit"}
         /\ target[r] # None => target[r] \in Rows /\ Present(target[r])
         /\ call[r].op = "Edit" => target[r] # None /\ audit' = audit
         /\ call[r].op = "Edit" =>
              \A i \in Rows : \E b \in Rows \cup {None} :
                evidences'[i] = [evidences[i] EXCEPT !.body = b]
         /\ call[r].op = "Upload" =>
              /\ target[r] # None => /\ target[r] \in VersionsOf(call[r].item)
                                     /\ evidences[target[r]].status = "ACTIVE"
                                     /\ evidences'[target[r]] =
                                          [evidences[target[r]] EXCEPT !.status = "SUPERSEDED"]
              /\ target[r] = None => call[r].item \notin Seeded
              /\ evidences'[r] = Inserted(r)
              /\ \A i \in Rows : i # r /\ i # target[r] => evidences'[i] = evidences[i]
              /\ audit' = audit \cup {Event(r)}
         /\ evidences' \in [Rows -> Row]
<1>1. /\ CallOK(r) /\ LockOK(r) /\ r \in Rows /\ evidences \in [Rows -> Row]
      /\ target[r] \in Rows \cup {None} /\ r # None
  BY DistinctNames DEF IInv, TypeOK, Rows
<1>2. ~Present(r) /\ call[r] # NoCall
  BY <1>1 DEF CallOK
<1>3. call[r] \in Call /\ call[r].op \in {"Upload", "Edit"}
  BY <1>2 DEF IInv, TypeOK, Call
<1>4. /\ target[r] # None => target[r] \in Rows /\ Present(target[r])
      /\ target[r] # r
  BY <1>1, <1>2 DEF LockOK
<1>5. CASE call[r].op = "Edit"
  <2>1. target[r] # None /\ evidences' = [evidences EXCEPT ![target[r]].body = r] /\ audit' = audit
    BY <1>1, <1>5 DEF Publish, CallOK
  <2>2. \A i \in Rows : /\ [evidences[i] EXCEPT !.body = r] \in Row
                       /\ [evidences[i] EXCEPT !.body = evidences[i].body] = evidences[i]
                       /\ evidences[i].body \in Rows \cup {None}
    BY <1>1 DEF Row
  <2>3. \A i \in Rows : evidences'[i] = IF i = target[r] THEN [evidences[i] EXCEPT !.body = r]
                                                        ELSE evidences[i]
    BY <1>1, <2>1
  <2>4. evidences' \in [Rows -> Row]
    BY <1>1, <1>4, <2>1, <2>2
  <2>5. \A i \in Rows : \E b \in Rows \cup {None} :
                evidences'[i] = [evidences[i] EXCEPT !.body = b]
    BY <1>1, <2>2, <2>3
  <2> QED BY <1>1, <1>2, <1>3, <1>4, <1>5, <2>1, <2>4, <2>5
<1>6. CASE call[r].op = "Upload"
  <2>1. /\ evidences' = [i \in Rows |->
            CASE i = r         -> Inserted(r)
              [] i = target[r] -> [evidences[i] EXCEPT !.status = "SUPERSEDED"]
              [] OTHER         -> evidences[i]]
        /\ audit' = audit \cup {Event(r)}
    BY <1>6 DEF Publish
  <2>2. /\ target[r] # None => /\ target[r] \in VersionsOf(call[r].item)
                               /\ evidences[target[r]].status = "ACTIVE"
        /\ target[r] = None => call[r].item \notin Seeded
    BY <1>1, <1>6 DEF CallOK, LockOK
  <2>3. Inserted(r) \in Row
    <3>1. call[r].item \in Items
      BY <1>3, <1>6 DEF Call
    <3>2. First(r, call[r].item) \in Row
      BY <3>1, <1>1 DEF First, Row
    <3>3. target[r] # None => evidences[target[r]].version \in Nat
      BY <1>1, <1>4 DEF Row
    <3>4. (IF target[r] = None THEN 1 ELSE evidences[target[r]].version + 1) \in Nat
      BY <3>3
    <3> QED BY <3>2, <3>4, <1>1 DEF Inserted, Row
  <2>4. \A i \in Rows : [evidences[i] EXCEPT !.status = "SUPERSEDED"] \in Row
    BY <1>1 DEF Row
  <2>5. evidences' \in [Rows -> Row]
    BY <1>1, <2>1, <2>3, <2>4
  <2>6. /\ evidences'[r] = Inserted(r)
        /\ target[r] # None => evidences'[target[r]] =
                                 [evidences[target[r]] EXCEPT !.status = "SUPERSEDED"]
        /\ \A i \in Rows : i # r /\ i # target[r] => evidences'[i] = evidences[i]
    BY <1>1, <1>4, <2>1
  <2> QED BY <1>1, <1>2, <1>3, <1>4, <1>6, <2>1, <2>2, <2>5, <2>6
<1> QED BY <1>3, <1>5, <1>6

\* The fields of an inserted row.
LEMMA InsertedFields ==
  ASSUME NEW r
  PROVE  /\ Inserted(r).status = "ACTIVE" /\ Inserted(r).item = call[r].item
         /\ Inserted(r).prev = target[r]
         /\ Inserted(r).version = IF target[r] = None THEN 1
                                                     ELSE evidences[target[r]].version + 1
BY DEF Inserted, First

\* The rows after a commit, field by field.
LEMMA PublishFields ==
  ASSUME IInv, NEW r \in Requests, pc[r] = "commit", Publish(r), NEW i \in Rows
  PROVE  /\ i # r \/ call[r].op = "Edit" =>
              /\ evidences'[i].item = evidences[i].item
              /\ evidences'[i].version = evidences[i].version
              /\ evidences'[i].prev = evidences[i].prev
              /\ evidences'[i].status = IF call[r].op = "Upload" /\ i = target[r]
                                        THEN "SUPERSEDED" ELSE evidences[i].status
         /\ Present(i)' <=> Present(i) \/ (i = r /\ call[r].op = "Upload")
<1>1. evidences[i] \in Row /\ call[r].op \in {"Upload", "Edit"}
  BY PublishRows DEF IInv, TypeOK
<1>2. ~Present(r) /\ target[r] # r /\ (target[r] # None => Present(target[r])) /\ i # None
  <2>1. i # None
    BY DistinctNames DEF Rows
  <2> QED BY <2>1, PublishRows
<1>3. CASE call[r].op = "Edit"
  <2>1. PICK b \in Rows \cup {None} : evidences'[i] = [evidences[i] EXCEPT !.body = b]
    BY <1>3, PublishRows
  <2> QED BY <1>1, <1>3, <2>1 DEF Row, Present
<1>4. CASE call[r].op = "Upload" /\ i = r
  <2>1. evidences'[i] = Inserted(r)
    BY <1>4, PublishRows
  <2> QED BY <1>4, <2>1, InsertedFields DEF Present
<1>5. CASE call[r].op = "Upload" /\ i = target[r]
  <2>1. evidences'[i] = [evidences[i] EXCEPT !.status = "SUPERSEDED"]
    BY <1>2, <1>5, PublishRows
  <2> QED BY <1>1, <1>2, <1>5, <2>1 DEF Row, Present
<1>6. CASE call[r].op = "Upload" /\ i # r /\ i # target[r]
  <2>1. evidences'[i] = evidences[i]
    BY <1>6, PublishRows
  <2> QED BY <1>6, <2>1 DEF Present
<1> QED BY <1>1, <1>3, <1>4, <1>5, <1>6

\* The commit.
LEMMA CommitIInv == ASSUME IInv, NEW r \in Requests, Commit(r) PROVE IInv'
<1>1. pc[r] = "commit" /\ Publish(r) /\ \E a \in {"ok", "error"} : Finish(r, a)
  BY DEF Commit
<1>2. PICK a \in Answer : Finish(r, a)
  BY <1>1 DEF Answer
<1>3. /\ call' = call /\ target' = target /\ pc' = [pc EXCEPT ![r] = "done"]
      /\ \A i \in Rows : rowLock[i] # r => rowLock'[i] = rowLock[i]
  BY <1>2, FinishTypes DEF IInv
<1>4. pc'[r] = "done" /\ \A q \in Requests \ {r} : pc'[q] = pc[q]
  BY <1>3 DEF IInv, TypeOK
<1>5. TypeOK'
  <2>1. evidences' \in [Rows -> Row]
    BY <1>1, PublishRows
  <2>2. audit' \subseteq AuditRow
    <3>1. Event(r) \in AuditRow
      BY DEF Event, AuditRow, Rows
    <3>2. audit' = audit \/ audit' = audit \cup {Event(r)}
      BY <1>1, PublishRows
    <3> QED BY <3>1, <3>2 DEF IInv, TypeOK
  <2> QED BY <1>2, <1>3, <2>1, <2>2, FinishTypes DEF IInv, TypeOK
<1>6. \A i \in Rows : Present(i) => Present(i)' /\ evidences'[i].item = evidences[i].item
                                                /\ evidences'[i].prev = evidences[i].prev
  <2> SUFFICES ASSUME NEW i \in Rows, Present(i)
               PROVE  Present(i)' /\ evidences'[i].item = evidences[i].item
                                  /\ evidences'[i].prev = evidences[i].prev
    OBVIOUS
  <2>1. ~Present(r)
    BY <1>1, PublishRows
  <2>2. i # r
    BY <2>1
  <2> QED BY <1>1, <2>2, PublishFields
<1>7. ASSUME NEW q \in Requests PROVE CallOK(q)' /\ LockOK(q)'
  <2>1. CallOK(q) /\ LockOK(q) /\ q \in Rows /\ target[q] \in Rows \cup {None}
    BY DEF IInv, TypeOK, Rows
  <2>2. CASE q = r
    <3>1. Present(q)' => call[q].op = "Upload"
      BY <1>1, <2>1, <2>2, PublishFields, PublishRows
    <3> QED BY <1>1, <1>3, <1>4, <2>1, <2>2, <3>1 DEF CallOK, LockOK
  <2>3. CASE q # r
    <3>1. Present(q)' <=> Present(q)
      BY <1>1, <2>1, <2>3, PublishFields
    <3>2. target[q] \in VersionsOf(call[q].item) => (target[q] \in VersionsOf(call[q].item))'
      BY <1>3, <1>6 DEF VersionsOf, Present
    <3>3. CallOK(q)'
      BY <1>3, <1>4, <2>1, <2>3, <3>1, <3>2 DEF CallOK
    <3>4. LockOK(q)'
      <4>1. SUFFICES ASSUME pc[q] \in {"write", "commit"}, target[q] # None
                     PROVE  /\ Present(target[q])'
                            /\ rowLock'[target[q]] = q
                            /\ pc[q] = "commit" /\ call[q].op = "Upload" =>
                                 evidences'[target[q]].status = "ACTIVE"
        BY <1>3, <1>4, <2>3 DEF LockOK
      <4>2. Present(target[q]) /\ rowLock[target[q]] = q /\ target[q] \in Rows
        BY <2>1, <4>1 DEF LockOK
      <4>3. target[q] # target[r] \/ target[r] = None
        BY <1>1, <2>3, <4>2 DEF IInv, LockOK
      <4>4. target[q] # r
        BY <1>1, <4>2, PublishRows
      <4>5. evidences'[target[q]].status = evidences[target[q]].status
        BY <1>1, <4>1, <4>2, <4>3, <4>4, PublishFields
      <4>6. Present(target[q])'
        BY <1>3, <4>2, <4>5 DEF Present
      <4> QED BY <1>3, <2>1, <2>3, <4>1, <4>2, <4>5, <4>6 DEF LockOK
    <3> QED BY <3>3, <3>4
  <2> QED BY <2>2, <2>3
<1>8. RowsOK'
  <2>1. ASSUME NEW i \in Rows, Present(i)'
        PROVE  /\ evidences'[i].item \in Items
               /\ evidences'[i].prev # None =>
                    \E p \in Rows : evidences'[i].prev = p /\ Present(p)'
    <3>1. CASE Present(i)
      <4>1. /\ evidences'[i].item = evidences[i].item
            /\ evidences'[i].prev = evidences[i].prev
        BY <1>6, <3>1
      <4>2. /\ evidences[i].item \in Items
            /\ evidences[i].prev # None => \E p \in Rows : evidences[i].prev = p /\ Present(p)
        BY <3>1 DEF IInv, RowsOK
      <4>3. \A p \in Rows : Present(p) => Present(p)'
        BY <1>6
      <4> QED BY <4>1, <4>2, <4>3
    <3>2. CASE i = r /\ call[r].op = "Upload"
      <4>1. evidences'[i].item = call[r].item /\ evidences'[i].prev = target[r]
        <5>1. evidences'[i] = Inserted(r)
          BY <1>1, <3>2, PublishRows
        <5> QED BY <5>1, InsertedFields
      <4>2. call[r].item \in Items
        <5>1. call[r] \in Call
          BY <1>1, PublishRows
        <5> QED BY <3>2, <5>1 DEF Call
      <4>3. target[r] # None => target[r] \in Rows /\ Present(target[r])
        BY <1>1, PublishRows
      <4>4. \A p \in Rows : Present(p) => Present(p)'
        BY <1>6
      <4> QED BY <4>1, <4>2, <4>3, <4>4
    <3> QED BY <1>1, <2>1, <3>1, <3>2, PublishFields
  <2>2. ASSUME NEW i \in Seeded PROVE (i \in VersionsOf(i))'
    <3>1. i \in Rows /\ Present(i) /\ evidences[i].item = i
      BY DEF IInv, RowsOK, VersionsOf
    <3>2. Present(i)' /\ evidences'[i].item = i
      BY <1>6, <3>1
    <3> QED BY <3>1, <3>2 DEF VersionsOf
  <2> QED BY <2>1, <2>2 DEF RowsOK
<1> QED BY <1>5, <1>7, <1>8 DEF IInv

\* The invariant is inductive.
LEMMA StepIInv == IInv /\ [Next]_vars => IInv'
<1> SUFFICES ASSUME IInv, [Next]_vars PROVE IInv'
  OBVIOUS
<1>1. CASE UNCHANGED vars
  BY <1>1 DEF vars, IInv, TypeOK, CallOK, LockOK, RowsOK, Present, VersionsOf
<1>2. ASSUME NEW r \in Requests, Abort(r) PROVE IInv'
  BY <1>2, ReturnIInv DEF Abort, Answer
<1> QED BY <1>1, <1>2, ArriveIInv, FindIInv, CountIInv, LockIInv, WriteIInv, CommitIInv DEF Next

\* The invariant holds in every reachable state.
THEOREM Invariance == Spec => []IInv
BY InitIInv, StepIInv, PTL DEF Spec

\* Every reachable state is well typed (TypeOK).
THEOREM TypeCorrect == Spec => []TypeOK
<1>1. IInv => TypeOK
  BY DEF IInv
<1> QED BY Invariance, <1>1, PTL

-----------------------------------------------------------------------------
\* Only a commit changes the rows and the audit.
LEMMA OnlyCommits ==
  ASSUME [Next]_vars
  PROVE  \/ evidences' = evidences /\ audit' = audit
         \/ \E r \in Requests : pc[r] = "commit" /\ Publish(r)
<1>1. CASE UNCHANGED vars
  BY <1>1 DEF vars
<1>2. ASSUME NEW r \in Requests, Arrive(r) \/ Find(r) \/ CountSuccessors(r) \/ Lock(r)
                                 \/ Write(r) \/ Abort(r)
      PROVE  evidences' = evidences /\ audit' = audit
  BY <1>2 DEF Arrive, Find, CountSuccessors, Lock, Write, Abort, Return
<1>3. ASSUME NEW r \in Requests, Commit(r) PROVE pc[r] = "commit" /\ Publish(r)
  BY <1>3 DEF Commit
<1> QED BY <1>1, <1>2, <1>3 DEF Next

\* The row a committed upload adds, and what it does to the successors.
LEMMA UploadFields ==
  ASSUME IInv, NEW r \in Requests, pc[r] = "commit", Publish(r), call[r].op = "Upload"
  PROVE  /\ r \in Rows /\ ~Present(r) /\ Present(r)'
         /\ evidences'[r].status = "ACTIVE" /\ evidences'[r].item = call[r].item
         /\ evidences'[r].prev = target[r]
         /\ evidences'[r].version = IF target[r] = None THEN 1
                                                       ELSE evidences[target[r]].version + 1
<1>1. evidences'[r] = Inserted(r) /\ r \in Rows /\ ~Present(r)
  BY PublishRows
<1>2. Present(r)'
  BY <1>1, PublishFields
<1> QED BY <1>1, <1>2, InsertedFields

\* The successors after a commit.
LEMMA PublishSuccessors ==
  ASSUME IInv, NEW r \in Requests, pc[r] = "commit", Publish(r), NEW i \in Rows
  PROVE  Successors(i)' = IF call[r].op = "Upload" /\ i = target[r] THEN Successors(i) \cup {r}
                                                                   ELSE Successors(i)
<1>1. call[r].op \in {"Upload", "Edit"} /\ r \in Rows /\ ~Present(r)
  BY PublishRows
<1>2. ASSUME NEW j \in Rows, call[r].op = "Edit" \/ j # r
      PROVE  j \in Successors(i)' <=> j \in Successors(i)
  <2>1. evidences'[j].prev = evidences[j].prev /\ (Present(j)' <=> Present(j))
    BY <1>1, <1>2, PublishFields
  <2> QED BY <2>1 DEF Successors
<1>3. ASSUME call[r].op = "Upload" PROVE r \in Successors(i)' <=> i = target[r]
  <2>1. evidences'[r].prev = target[r] /\ Present(r)'
    BY <1>3, UploadFields
  <2> QED BY <1>1, <2>1 DEF Successors
<1>4. r \notin Successors(i) /\ Successors(i) \subseteq Rows /\ Successors(i)' \subseteq Rows
  BY <1>1 DEF Successors
<1>5. CASE call[r].op = "Edit"
  <2>1. \A j \in Rows : j \in Successors(i)' <=> j \in Successors(i)
    BY <1>2, <1>5
  <2> QED BY <1>4, <1>5, <2>1
<1>6. CASE call[r].op = "Upload"
  BY <1>2, <1>3, <1>4, <1>6
<1> QED BY <1>1, <1>5, <1>6

\* A commit extends the chain of its target, which had no successor.
LEMMA ForkStep ==
  ASSUME IInv, ChainsDoNotFork, NEW r \in Requests, pc[r] = "commit", Publish(r)
  PROVE  ChainsDoNotFork'
<1> DEFINE t == target[r]
<1> USE DEF ChainsDoNotFork
<1>1. /\ r \in Rows /\ ~Present(r) /\ call[r].op \in {"Upload", "Edit"}
      /\ call[r].op = "Upload" /\ t # None => /\ t \in VersionsOf(call[r].item)
                                              /\ evidences[t].status = "ACTIVE"
  BY PublishRows
<1>2. ASSUME NEW i \in Rows
      PROVE  /\ \A j, k \in Successors(i)' : j = k
             /\ evidences'[i].status = "SUPERSEDED" <=> Successors(i)' # {}
             /\ \A j \in Successors(i)' : /\ evidences'[j].item = evidences'[i].item
                                          /\ evidences'[j].version = evidences'[i].version + 1
  <2>1. /\ \A j, k \in Successors(i) : j = k
        /\ evidences[i].status = "SUPERSEDED" <=> Successors(i) # {}
        /\ \A j \in Successors(i) : /\ evidences[j].item = evidences[i].item
                                    /\ evidences[j].version = evidences[i].version + 1
    OBVIOUS
  <2>2. \A j \in Successors(i) : j \in Rows /\ Present(j) /\ evidences[j].prev = i
    BY DEF Successors
  <2>3. \A j \in Rows : Present(j) \/ call[r].op = "Edit" =>
          /\ evidences'[j].item = evidences[j].item
          /\ evidences'[j].version = evidences[j].version
    BY <1>1, PublishFields
  <2>4. Successors(i) # {} => Present(i)
    BY <2>1 DEF Present
  <2>5. CASE call[r].op = "Upload" /\ i = t
    <3>1. Successors(i)' = Successors(i) \cup {r}
      BY <2>5, PublishSuccessors
    <3>2. t # None
      BY <2>5, DistinctNames DEF Rows
    <3>3. Successors(i) = {} /\ Present(i) /\ evidences[i].item = call[r].item /\ i # r
      BY <1>1, <2>1, <2>5, <3>2 DEF VersionsOf
    <3>4. evidences'[i].status = "SUPERSEDED"
      BY <2>5, <3>3, PublishFields
    <3>5. evidences'[r].item = call[r].item /\ evidences'[r].version = evidences[i].version + 1
      BY <2>5, <3>2, UploadFields
    <3>6. evidences'[i].item = evidences[i].item /\ evidences'[i].version = evidences[i].version
      BY <2>3, <3>3
    <3> QED BY <3>1, <3>3, <3>4, <3>5, <3>6
  <2>6. CASE call[r].op = "Upload" /\ i = r
    <3>1. Successors(i)' = Successors(i) /\ Successors(i) = {}
      <4>1. t # r
        BY PublishRows
      <4> QED BY <1>1, <2>4, <2>6, <4>1, PublishSuccessors
    <3>2. evidences'[i].status = "ACTIVE"
      BY <2>6, UploadFields
    <3> QED BY <3>1, <3>2
  <2>7. CASE ~(call[r].op = "Upload" /\ i \in {t, r})
    <3>1. Successors(i)' = Successors(i)
      BY <2>7, PublishSuccessors
    <3>2. /\ evidences'[i].status = evidences[i].status
          /\ evidences'[i].item = evidences[i].item
          /\ evidences'[i].version = evidences[i].version
      BY <1>1, <2>7, PublishFields
    <3> QED BY <2>1, <2>2, <2>3, <3>1, <3>2
  <2> QED BY <2>5, <2>6, <2>7
<1> QED BY <1>2

\* ChainsDoNotFork for any items, calls and seeds: two uploads never continue the
\* same version.
THEOREM NoFork == Spec => []ChainsDoNotFork
<1>1. Init => ChainsDoNotFork
  <2> SUFFICES ASSUME Init PROVE ChainsDoNotFork
    OBVIOUS
  <2>1. \A i \in Rows : evidences[i] = First(i, i) \/ evidences[i] = NoRow
    BY DEF Init
  <2>2. ASSUME NEW i \in Rows
        PROVE  evidences[i].prev = None /\ evidences[i].status \in {"ACTIVE", "ABSENT"}
    <3>1. /\ First(i, i).prev = None /\ First(i, i).status = "ACTIVE"
          /\ NoRow.prev = None /\ NoRow.status = "ABSENT"
      BY DEF First, NoRow
    <3> QED BY <2>1, <3>1
  <2>3. \A i \in Rows : Successors(i) = {}
    BY <2>2, DistinctNames DEF Successors, Rows
  <2> QED BY <2>2, <2>3 DEF ChainsDoNotFork
<1>2. IInv /\ ChainsDoNotFork /\ [Next]_vars => ChainsDoNotFork'
  <2> SUFFICES ASSUME IInv, ChainsDoNotFork, [Next]_vars PROVE ChainsDoNotFork'
    OBVIOUS
  <2>1. CASE evidences' = evidences
    BY <2>1 DEF ChainsDoNotFork, Successors, Present
  <2>2. CASE \E r \in Requests : pc[r] = "commit" /\ Publish(r)
    BY <2>2, ForkStep
  <2> QED BY <2>1, <2>2, OnlyCommits
<1> QED BY <1>1, <1>2, Invariance, PTL DEF Spec

-----------------------------------------------------------------------------
\* What is proved of the audit: its rows, and what makes a creation.
AuditInv == IInv /\ Numbered /\ AuditNamesVersions

\* A commit adds the audit row of the version it adds.
LEMMA AuditStep ==
  ASSUME AuditInv, NEW r \in Requests, pc[r] = "commit", Publish(r)
  PROVE  Numbered' /\ AuditNamesVersions'
<1> DEFINE t == target[r]
           Of(i, prev) == [action |-> IF prev = None THEN "EVIDENCE_CREATED"
                                                     ELSE "EVIDENCE_VERSIONED", row |-> i]
<1>1. /\ r \in Rows /\ ~Present(r) /\ call[r].op \in {"Upload", "Edit"} /\ IInv
      /\ t # None => t \in Rows /\ Present(t)
  BY PublishRows DEF AuditInv
<1>2. ASSUME NEW i \in Rows, Present(i)
      PROVE  /\ Present(i)' /\ evidences'[i].prev = evidences[i].prev
             /\ evidences'[i].version = evidences[i].version
  <2>1. i # r
    BY <1>1, <1>2
  <2> QED BY <1>1, <1>2, <2>1, PublishFields
<1>3. CASE call[r].op = "Edit"
  <2>1. audit' = audit /\ \A i \in Rows : Present(i)' <=> Present(i)
    BY <1>1, <1>3, PublishRows, PublishFields
  <2>2. Numbered'
    BY <1>2, <2>1 DEF AuditInv, Numbered
  <2>3. AuditNamesVersions'
    <3>1. \A a \in audit : a.row \in Rows /\ Present(a.row)
      BY <1>1 DEF AuditInv, AuditNamesVersions, IInv, TypeOK, AuditRow
    <3>2. \A a \in audit' : Present(a.row)'
      BY <1>2, <2>1, <3>1
    <3>3. ASSUME NEW i \in Rows, Present(i)'
          PROVE  {a \in audit' : a.row = i} = {Of(i, evidences'[i].prev)}
      <4>1. Present(i) /\ evidences'[i].prev = evidences[i].prev
        BY <1>2, <2>1, <3>3
      <4>2. {a \in audit : a.row = i} = {Of(i, evidences[i].prev)}
        BY <4>1 DEF AuditInv, AuditNamesVersions
      <4> QED BY <2>1, <4>1, <4>2
    <3> QED BY <3>2, <3>3 DEF AuditNamesVersions
  <2> QED BY <2>2, <2>3
<1>4. CASE call[r].op = "Upload"
  <2>1. /\ Present(r)' /\ evidences'[r].prev = t
        /\ evidences'[r].version = IF t = None THEN 1 ELSE evidences[t].version + 1
        /\ evidences'[r] = Inserted(r) /\ audit' = audit \cup {Event(r)}
    BY <1>1, <1>4, UploadFields, PublishRows
  <2>2. \A i \in Rows : Present(i)' <=> Present(i) \/ i = r
    BY <1>1, <1>4, PublishFields
  <2>3. t # None => evidences[t].version \in Nat /\ evidences[t].version \geq 1
    <3>1. t # None => evidences[t] \in Row
      BY <1>1 DEF IInv, TypeOK
    <3> QED BY <1>1, <3>1 DEF AuditInv, Numbered, Row
  <2>4. evidences'[r].version \geq 1 /\ (evidences'[r].version = 1 <=> t = None)
    BY <2>1, <2>3
  <2>5. Numbered'
    <3> SUFFICES ASSUME NEW i \in Rows, Present(i)'
                 PROVE  /\ evidences'[i].version \geq 1
                        /\ evidences'[i].version = 1 <=> evidences'[i].prev = None
      BY DEF Numbered
    <3>1. CASE i = r
      BY <2>1, <2>4, <3>1
    <3>2. CASE Present(i)
      BY <1>2, <3>2 DEF AuditInv, Numbered
    <3> QED BY <2>2, <3>1, <3>2
  <2>6. Event(r) = Of(r, t)
    BY <2>1, <2>4 DEF Event
  <2>7. AuditNamesVersions'
    <3>1. \A a \in audit : a.row \in Rows /\ Present(a.row) /\ a.row # r
      BY <1>1 DEF AuditInv, AuditNamesVersions, IInv, TypeOK, AuditRow
    <3>2. \A a \in audit' : Present(a.row)'
      <4>1. Event(r).row = r
        BY DEF Event
      <4> QED BY <1>2, <2>1, <3>1, <4>1
    <3>3. ASSUME NEW i \in Rows, Present(i)'
          PROVE  {a \in audit' : a.row = i} = {Of(i, evidences'[i].prev)}
      <4>1. CASE i = r
        <5>1. {a \in audit' : a.row = r} = {Event(r)}
          <6>1. Event(r).row = r
            BY DEF Event
          <6> QED BY <2>1, <3>1, <6>1
        <5> QED BY <2>1, <2>6, <4>1, <5>1
      <4>2. CASE i # r
        <5>1. Present(i) /\ evidences'[i].prev = evidences[i].prev
          BY <1>2, <2>2, <3>3, <4>2
        <5>2. {a \in audit : a.row = i} = {Of(i, evidences[i].prev)}
          BY <5>1 DEF AuditInv, AuditNamesVersions
        <5>3. Event(r).row # i
          BY <4>2 DEF Event
        <5>4. {a \in audit' : a.row = i} = {a \in audit : a.row = i}
          BY <2>1, <5>3
        <5> QED BY <5>1, <5>2, <5>4
      <4> QED BY <4>1, <4>2
    <3> QED BY <3>2, <3>3 DEF AuditNamesVersions
  <2> QED BY <2>5, <2>7
<1> QED BY <1>1, <1>3, <1>4

\* AuditNamesVersions for any items, calls and seeds: no version without its audit
\* row, no audit row without its version.
THEOREM AuditTrail == Spec => []AuditNamesVersions
<1>1. Init => Numbered /\ AuditNamesVersions
  <2> SUFFICES ASSUME Init PROVE Numbered /\ AuditNamesVersions
    OBVIOUS
  <2>1. \A i \in Rows : evidences[i] = IF i \in Seeded THEN First(i, i) ELSE NoRow
    BY DEF Init
  <2>2. ASSUME NEW i \in Rows
        PROVE  /\ Present(i) <=> i \in Seeded
               /\ Present(i) => evidences[i].prev = None /\ evidences[i].version = 1
    <3>1. /\ First(i, i).prev = None /\ First(i, i).status = "ACTIVE"
          /\ First(i, i).version = 1 /\ NoRow.status = "ABSENT"
      BY DEF First, NoRow
    <3> QED BY <2>1, <3>1 DEF Present
  <2>3. audit = {[action |-> "EVIDENCE_CREATED", row |-> i] : i \in Seeded}
    BY DEF Init
  <2>4. ASSUME NEW i \in Rows, Present(i)
        PROVE  {a \in audit : a.row = i} = {[action |-> "EVIDENCE_CREATED", row |-> i]}
    BY <2>2, <2>3, <2>4
  <2>5. \A a \in audit : Present(a.row)
    BY <2>2, <2>3 DEF Rows
  <2>6. Numbered
    BY <2>2 DEF Numbered
  <2> QED BY <2>2, <2>4, <2>5, <2>6 DEF AuditNamesVersions
<1>2. AuditInv /\ [Next]_vars => Numbered' /\ AuditNamesVersions'
  <2> SUFFICES ASSUME AuditInv, [Next]_vars PROVE Numbered' /\ AuditNamesVersions'
    OBVIOUS
  <2>1. CASE evidences' = evidences /\ audit' = audit
    BY <2>1 DEF AuditInv, Numbered, AuditNamesVersions, Present
  <2>2. CASE \E r \in Requests : pc[r] = "commit" /\ Publish(r)
    BY <2>2, AuditStep
  <2> QED BY <2>1, <2>2, OnlyCommits
<1> QED BY <1>1, <1>2, Invariance, PTL DEF Spec, AuditInv

-----------------------------------------------------------------------------
\* The invariant with the numbering of the seeded items.
NumberInv == IInv /\ SeededVersionsUnique

\* Rows that are there stay, and a commit changes no more of them than the status of
\* the row it replaces (and a file).
LEMMA RowsKept ==
  ASSUME IInv, NEW r \in Requests, pc[r] = "commit", Publish(r), NEW i \in Rows, Present(i)
  PROVE  /\ Present(i)' /\ evidences'[i].item = evidences[i].item
         /\ evidences'[i].version = evidences[i].version
         /\ evidences'[i].status = IF call[r].op = "Upload" /\ i = target[r]
                                   THEN "SUPERSEDED" ELSE evidences[i].status
<1>1. ~Present(r) /\ call[r].op \in {"Upload", "Edit"}
  BY PublishRows
<1> QED BY <1>1, PublishFields

\* A commit that is not an upload for an item leaves its versions alone.
LEMMA OtherItem ==
  ASSUME NumberInv, NEW r \in Requests, pc[r] = "commit", Publish(r), NEW item \in Seeded,
         ~(call[r].op = "Upload" /\ call[r].item = item)
  PROVE  /\ VersionsOf(item)' = VersionsOf(item)
         /\ \A i \in VersionsOf(item) : /\ evidences'[i].version = evidences[i].version
                                        /\ evidences'[i].status = evidences[i].status
<1> DEFINE t == target[r]
<1>1. r \in Rows /\ ~Present(r) /\ call[r].op \in {"Upload", "Edit"} /\ IInv
  BY PublishRows DEF NumberInv
<1>2. ASSUME NEW i \in Rows PROVE i \in VersionsOf(item)' <=> i \in VersionsOf(item)
  <2>1. CASE Present(i)
    BY <1>1, <2>1, RowsKept DEF VersionsOf
  <2>2. CASE ~Present(i)
    <3>1. Present(i)' => i = r /\ call[r].op = "Upload"
      BY <1>1, <2>2, PublishFields
    <3>2. call[r].op = "Upload" => evidences'[r].item = call[r].item
      BY <1>1, UploadFields
    <3> QED BY <2>2, <3>1, <3>2 DEF VersionsOf
  <2> QED BY <2>1, <2>2
<1>3. VersionsOf(item)' = VersionsOf(item)
  BY <1>2 DEF VersionsOf
<1>4. call[r].op = "Upload" /\ t # None => evidences[t].item = call[r].item
  BY <1>1, PublishRows DEF VersionsOf
<1>5. \A i \in VersionsOf(item) : i \in Rows /\ Present(i) /\ evidences[i].item = item /\ i # None
  BY DistinctNames DEF VersionsOf, Rows
<1> QED BY <1>1, <1>3, <1>4, <1>5, RowsKept

\* An upload for an item adds the next version and takes the place of the ACTIVE one.
LEMMA OwnItem ==
  ASSUME NumberInv, NEW r \in Requests, pc[r] = "commit", Publish(r), NEW item \in Seeded,
         call[r].op = "Upload", call[r].item = item
  PROVE  LET t == target[r] IN
         /\ t \in LatestOf(item) /\ evidences[t].status = "ACTIVE" /\ t # None
         /\ VersionsOf(item)' = VersionsOf(item) \cup {r} /\ r \notin VersionsOf(item)
         /\ evidences'[r].version = evidences[t].version + 1
         /\ evidences'[r].version \in Nat /\ evidences'[r].status = "ACTIVE"
         /\ \A i \in VersionsOf(item) : /\ evidences'[i].version = evidences[i].version
                                        /\ evidences'[i].version \in Nat
                                        /\ evidences'[i].version < evidences'[r].version
                                        /\ evidences'[i].status # "ACTIVE"
<1> DEFINE t == target[r]
<1>1. /\ r \in Rows /\ ~Present(r) /\ call[r].op \in {"Upload", "Edit"} /\ IInv
      /\ Unique(item)
      /\ {i \in VersionsOf(item) : evidences[i].status = "ACTIVE"} = LatestOf(item)
      /\ \A i \in Rows : evidences[i].version \in Nat
  BY PublishRows DEF NumberInv, SeededVersionsUnique, IInv, TypeOK, Row
<1>2. ASSUME NEW i \in Rows, Present(i)
      PROVE  /\ Present(i)' /\ evidences'[i].item = evidences[i].item
             /\ evidences'[i].version = evidences[i].version
             /\ evidences'[i].status = IF call[r].op = "Upload" /\ i = t
                                       THEN "SUPERSEDED" ELSE evidences[i].status
  BY <1>1, <1>2, RowsKept
<1>3. VersionsOf(item) \subseteq Rows /\ \A i \in VersionsOf(item) : Present(i)
  BY DEF VersionsOf
<1>4. t \in VersionsOf(item) /\ evidences[t].status = "ACTIVE" /\ t # None
  BY <1>1, PublishRows
<1>5. t \in LatestOf(item)
  BY <1>1, <1>4
<1>6. \A i \in VersionsOf(item) : evidences[i].version <= evidences[t].version
  BY <1>5 DEF LatestOf
<1>7. \A i \in VersionsOf(item) \ {t} : evidences[i].status # "ACTIVE"
  <2> SUFFICES ASSUME NEW i \in VersionsOf(item), evidences[i].status = "ACTIVE"
               PROVE  i = t
    OBVIOUS
  <2>1. i \in LatestOf(item)
    BY <1>1
  <2>2. evidences[t].version <= evidences[i].version
    BY <1>4, <2>1 DEF LatestOf
  <2>3. evidences[i].version = evidences[t].version
    BY <1>1, <1>3, <1>4, <1>6, <2>2
  <2> QED BY <1>1, <1>4, <2>3 DEF Unique
<1>8. /\ evidences'[r].version = evidences[t].version + 1
      /\ evidences'[r].status = "ACTIVE" /\ evidences'[r].item = item /\ Present(r)'
  BY <1>1, <1>4, UploadFields
<1>9. VersionsOf(item)' = VersionsOf(item) \cup {r}
  <2>1. ASSUME NEW i \in Rows
        PROVE  i \in VersionsOf(item)' <=> i \in VersionsOf(item) \/ i = r
    <3>1. CASE i = r
      BY <1>1, <1>8, <3>1 DEF VersionsOf
    <3>2. CASE i # r
      BY <1>1, <1>2, <3>2, PublishFields DEF VersionsOf
    <3> QED BY <3>1, <3>2
  <2> QED BY <1>1, <2>1 DEF VersionsOf
<1>10. r \notin VersionsOf(item)
  BY <1>1, <1>3
<1>11. \A i \in VersionsOf(item) : /\ evidences'[i].version = evidences[i].version
                                  /\ evidences'[i].version < evidences'[r].version
                                  /\ evidences'[i].status # "ACTIVE"
  BY <1>1, <1>2, <1>3, <1>4, <1>6, <1>7, <1>8
<1>12. evidences'[r].version \in Nat /\ \A i \in VersionsOf(item) : evidences'[i].version \in Nat
  BY <1>1, <1>3, <1>4, <1>8, <1>11
<1> QED BY <1>4, <1>5, <1>8, <1>9, <1>10, <1>11, <1>12

\* A commit numbers the version it adds above all versions of its item.
LEMMA NumberStep ==
  ASSUME NumberInv, NEW r \in Requests, pc[r] = "commit", Publish(r), NEW item \in Seeded
  PROVE  /\ Unique(item)'
         /\ {i \in VersionsOf(item)' : evidences'[i].status = "ACTIVE"} = LatestOf(item)'
<1>1. /\ Unique(item)
      /\ {i \in VersionsOf(item) : evidences[i].status = "ACTIVE"} = LatestOf(item)
  BY DEF NumberInv, SeededVersionsUnique
<1>2. CASE ~(call[r].op = "Upload" /\ call[r].item = item)
  <2>1. /\ VersionsOf(item)' = VersionsOf(item)
        /\ \A i \in VersionsOf(item) : /\ evidences'[i].version = evidences[i].version
                                       /\ evidences'[i].status = evidences[i].status
    BY <1>2, OtherItem
  <2>2. Unique(item)'
    BY <1>1, <2>1 DEF Unique
  <2>3. LatestOf(item)' = LatestOf(item)
    BY <2>1 DEF LatestOf
  <2> QED BY <1>1, <2>1, <2>2, <2>3
<1>3. CASE call[r].op = "Upload" /\ call[r].item = item
  <2>1. /\ VersionsOf(item)' = VersionsOf(item) \cup {r} /\ r \notin VersionsOf(item)
        /\ evidences'[r].version \in Nat /\ evidences'[r].status = "ACTIVE"
        /\ \A i \in VersionsOf(item) : /\ evidences'[i].version = evidences[i].version
                                       /\ evidences'[i].version \in Nat
                                       /\ evidences'[i].version < evidences'[r].version
                                       /\ evidences'[i].status # "ACTIVE"
    BY <1>3, OwnItem
  <2>2. Unique(item)'
    <3> SUFFICES ASSUME NEW i \in VersionsOf(item) \cup {r}, NEW j \in VersionsOf(item) \cup {r},
                        evidences'[i].version = evidences'[j].version
                 PROVE  i = j
      BY <2>1 DEF Unique
    <3>1. CASE i \in VersionsOf(item) /\ j \in VersionsOf(item)
      BY <1>1, <2>1, <3>1 DEF Unique
    <3>2. CASE i = r \/ j = r
      BY <2>1, <3>2
    <3> QED BY <3>1, <3>2
  <2>3. {i \in VersionsOf(item)' : evidences'[i].status = "ACTIVE"} = {r}
    BY <2>1
  <2>4. LatestOf(item)' = {r}
    <3>1. LatestOf(item)' = {i \in VersionsOf(item) \cup {r} :
             \A j \in VersionsOf(item) \cup {r} : evidences'[j].version <= evidences'[i].version}
      BY <2>1 DEF LatestOf
    <3>2. \A j \in VersionsOf(item) \cup {r} : evidences'[j].version <= evidences'[r].version
      BY <2>1
    <3>3. \A i \in VersionsOf(item) : ~(evidences'[r].version <= evidences'[i].version)
      BY <2>1
    <3> QED BY <3>1, <3>2, <3>3
  <2> QED BY <2>2, <2>3, <2>4
<1> QED BY <1>2, <1>3

\* SeededVersionsUnique for any items, calls and seeds: once an item has a version,
\* the locks number the later ones without a duplicate.
THEOREM NumberedOnce == Spec => []SeededVersionsUnique
<1>1. Init => SeededVersionsUnique
  <2> SUFFICES ASSUME Init, NEW item \in Seeded
               PROVE  /\ Unique(item)
                      /\ {i \in VersionsOf(item) : evidences[i].status = "ACTIVE"} = LatestOf(item)
    BY DEF SeededVersionsUnique
  <2>1. ASSUME NEW i \in Rows
        PROVE  /\ Present(i) /\ evidences[i].item = item <=> i = item
               /\ i = item => evidences[i].status = "ACTIVE" /\ evidences[i].version = 1
    <3>1. /\ First(i, i).item = i /\ First(i, i).status = "ACTIVE"
          /\ First(i, i).version = 1 /\ NoRow.status = "ABSENT"
      BY DEF First, NoRow
    <3>2. evidences[i] = IF i \in Seeded THEN First(i, i) ELSE NoRow
      BY DEF Init
    <3> QED BY <3>1, <3>2 DEF Present
  <2>2. VersionsOf(item) = {item}
    BY <2>1 DEF VersionsOf, Rows
  <2>3. evidences[item].status = "ACTIVE" /\ evidences[item].version = 1
    BY <2>1 DEF Rows
  <2> QED BY <2>2, <2>3 DEF Unique, LatestOf
<1>2. NumberInv /\ [Next]_vars => SeededVersionsUnique'
  <2> SUFFICES ASSUME NumberInv, [Next]_vars PROVE SeededVersionsUnique'
    OBVIOUS
  <2>1. CASE evidences' = evidences
    BY <2>1 DEF NumberInv, SeededVersionsUnique, Unique, LatestOf, VersionsOf, Present
  <2>2. CASE \E r \in Requests : pc[r] = "commit" /\ Publish(r)
    <3>1. PICK r \in Requests : pc[r] = "commit" /\ Publish(r)
      BY <2>2
    <3> QED BY <3>1, NumberStep DEF SeededVersionsUnique
  <2> QED BY <2>1, <2>2, OnlyCommits
<1> QED BY <1>1, <1>2, Invariance, PTL DEF Spec, NumberInv

-----------------------------------------------------------------------------
(* Evidence implements EvidenceHistory.  The list of a seeded item is its  *)
(* versions in the order of their numbers; a commit appends to it because  *)
(* the row it replaces, found ACTIVE under its lock, is the last.          *)
(***************************************************************************)

\* A seeded item has a version in force, and its versions are numbered without a gap.
Listed == \A item \in Seeded :
            /\ \E i \in VersionsOf(item) : evidences[i].status = "ACTIVE"
            /\ {evidences[i].version : i \in VersionsOf(item)} = 1..Top(item)

\* Who was answered is done, and the row an upload found is there.
CallsOK == \A r \in Requests :
             /\ answer[r] # "none" => pc[r] = "done"
             /\ OfSeeded(r) /\ target[r] # None => target[r] \in VersionsOf(call[r].item)

HistoryInv == NumberInv /\ Listed /\ CallsOK

\* What the two choices of the mapping choose.
LEMMA ChooseActive ==
  ASSUME NEW S, NEW f, NEW i \in S, f[i].status = "ACTIVE",
         \A j \in S : f[j].status = "ACTIVE" => j = i
  PROVE  (CHOOSE j \in S : f[j].status = "ACTIVE") = i
OBVIOUS

LEMMA ChooseVersion ==
  ASSUME NEW S, NEW f, NEW n, NEW i \in S, f[i].version = n,
         \A j \in S : f[j].version = n => j = i
  PROVE  (CHOOSE j \in S : f[j].version = n) = i
OBVIOUS

\* A list with an element more is the list the element is appended to.
LEMMA AppendLast ==
  ASSUME NEW T \in Nat, NEW S, NEW f \in [1..T -> S], NEW e \in S,
         NEW g, g = [n \in 1..T+1 |-> IF n = T + 1 THEN e ELSE f[n]]
  PROVE  Append(f, e) = g
<1>1. f \in Seq(S) /\ Len(f) = T
  BY SeqDef
<1>2. /\ Append(f, e) \in Seq(S) /\ Len(Append(f, e)) = T + 1
      /\ \A n \in 1..T : Append(f, e)[n] = f[n]
      /\ Append(f, e)[T + 1] = e
  BY <1>1, AppendProperties
<1>3. g \in [1..T+1 -> S]
  OBVIOUS
<1>4. g \in Seq(S) /\ Len(g) = T + 1
  BY <1>3, SeqDef
<1>5. \A n \in 1..T+1 : g[n] = IF n = T + 1 THEN e ELSE f[n]
  OBVIOUS
<1>6. \A n \in 1..T+1 : Append(f, e)[n] = g[n]
  BY <1>2, <1>5
<1> QED BY <1>2, <1>4, <1>6, SeqEqual

\* The version in force is the one with the highest number.
LEMMA CurrentIsLatest ==
  ASSUME NumberInv, Listed, NEW item \in Seeded
  PROVE  /\ Current(item) \in VersionsOf(item) /\ Current(item) \in LatestOf(item)
         /\ evidences[Current(item)].status = "ACTIVE"
         /\ Top(item) \in Nat
         /\ \A i \in LatestOf(item) : i = Current(item)
         /\ \A i \in VersionsOf(item) : /\ evidences[i].version \in 1..Top(item)
                                        /\ evidences[i].status = "ACTIVE" => i = Current(item)
<1>1. /\ Unique(item)
      /\ {i \in VersionsOf(item) : evidences[i].status = "ACTIVE"} = LatestOf(item)
      /\ \A i \in VersionsOf(item) : evidences[i].version \in Nat
  BY DEF NumberInv, SeededVersionsUnique, IInv, TypeOK, Row, VersionsOf
<1>2. Current(item) \in VersionsOf(item) /\ evidences[Current(item)].status = "ACTIVE"
  BY DEF Listed, Current
<1>3. Current(item) \in LatestOf(item)
  BY <1>1, <1>2
<1>4. ASSUME NEW i \in LatestOf(item) PROVE i = Current(item)
  <2>1. /\ evidences[i].version <= evidences[Current(item)].version
        /\ evidences[Current(item)].version <= evidences[i].version
        /\ i \in VersionsOf(item)
    BY <1>2, <1>3, <1>4 DEF LatestOf
  <2>2. evidences[i].version = evidences[Current(item)].version
    BY <1>1, <1>2, <2>1
  <2> QED BY <1>1, <1>2, <2>1, <2>2 DEF Unique
<1>5. \A i \in VersionsOf(item) : evidences[i].version \in 1..Top(item)
  BY DEF Listed
<1>6. \A i \in VersionsOf(item) : evidences[i].status = "ACTIVE" => i = Current(item)
  BY <1>1, <1>4
<1> QED BY <1>1, <1>2, <1>3, <1>4, <1>5, <1>6 DEF Top

\* An item no upload was committed for has the list it had.
LEMMA ListKept ==
  ASSUME NumberInv, Listed, NEW item \in Seeded,
         VersionsOf(item)' = VersionsOf(item),
         \A i \in VersionsOf(item) : /\ evidences'[i].version = evidences[i].version
                                     /\ evidences'[i].status = evidences[i].status
  PROVE  /\ Top(item)' = Top(item)
         /\ \A n \in 1..Top(item) : Version(item, n)' = Version(item, n)
         /\ \E i \in VersionsOf(item)' : evidences'[i].status = "ACTIVE"
         /\ {evidences'[i].version : i \in VersionsOf(item)'} = 1..Top(item)'
<1> DEFINE c == Current(item)
<1>1. /\ c \in VersionsOf(item) /\ evidences[c].status = "ACTIVE"
      /\ \A i \in VersionsOf(item) : evidences[i].status = "ACTIVE" => i = c
  BY CurrentIsLatest
<1>2. Current(item)' = c
  <2>1. (CHOOSE i \in VersionsOf(item) : evidences'[i].status = "ACTIVE") = c
    BY <1>1, ChooseActive
  <2> QED BY <2>1 DEF Current
<1>3. Top(item)' = Top(item)
  BY <1>1, <1>2 DEF Top
<1>4. ASSUME NEW n \in 1..Top(item) PROVE Version(item, n)' = Version(item, n)
  <2>1. PICK i \in VersionsOf(item) : evidences[i].version = n
    BY DEF Listed
  <2>2. \A j \in VersionsOf(item) : evidences[j].version = n => j = i
    BY <2>1 DEF NumberInv, SeededVersionsUnique, Unique
  <2>3. (CHOOSE j \in VersionsOf(item) : evidences[j].version = n) = i
    BY <2>1, <2>2, ChooseVersion
  <2>4. (CHOOSE j \in VersionsOf(item) : evidences'[j].version = n) = i
    BY <2>1, <2>2, ChooseVersion
  <2> QED BY <2>3, <2>4 DEF Version
<1>5. \E i \in VersionsOf(item)' : evidences'[i].status = "ACTIVE"
  BY <1>1
<1>6. {evidences'[i].version : i \in VersionsOf(item)'} = 1..Top(item)'
  BY <1>3 DEF Listed
<1> QED BY <1>3, <1>4, <1>5, <1>6

\* An item an upload was committed for has one version more, the last of its list.
LEMMA ListExtended ==
  ASSUME NumberInv, Listed, NEW r \in Requests, pc[r] = "commit", Publish(r),
         NEW item \in Seeded, call[r].op = "Upload", call[r].item = item
  PROVE  /\ Top(item)' = Top(item) + 1
         /\ \A n \in 1..Top(item) : Version(item, n)' = Version(item, n)
         /\ \A n \in Nat : n = Top(item) + 1 => Version(item, n)' = r
         /\ \E i \in VersionsOf(item)' : evidences'[i].status = "ACTIVE"
         /\ {evidences'[i].version : i \in VersionsOf(item)'} = 1..Top(item)'
<1> DEFINE t == target[r]
           T == Top(item)
<1>1. /\ t \in LatestOf(item)
      /\ VersionsOf(item)' = VersionsOf(item) \cup {r} /\ r \notin VersionsOf(item)
      /\ evidences'[r].version = evidences[t].version + 1
      /\ evidences'[r].version \in Nat /\ evidences'[r].status = "ACTIVE"
      /\ \A i \in VersionsOf(item) : /\ evidences'[i].version = evidences[i].version
                                     /\ evidences'[i].version \in Nat
                                     /\ evidences'[i].version < evidences'[r].version
                                     /\ evidences'[i].status # "ACTIVE"
  BY OwnItem
<1>2. /\ T \in Nat /\ t = Current(item)
      /\ \A i \in VersionsOf(item) : evidences[i].version \in 1..T
  BY <1>1, CurrentIsLatest
<1>3. evidences'[r].version = T + 1
  BY <1>1, <1>2 DEF Top
<1>4. Current(item)' = r
  <2>1. (CHOOSE i \in VersionsOf(item) \cup {r} : evidences'[i].status = "ACTIVE") = r
    BY <1>1, ChooseActive
  <2> QED BY <1>1, <2>1 DEF Current
<1>5. Top(item)' = T + 1
  BY <1>3, <1>4 DEF Top
<1>6. ASSUME NEW n \in 1..T PROVE Version(item, n)' = Version(item, n)
  <2>1. PICK i \in VersionsOf(item) : evidences[i].version = n
    BY DEF Listed
  <2>2. \A j \in VersionsOf(item) : evidences[j].version = n => j = i
    BY <2>1 DEF NumberInv, SeededVersionsUnique, Unique
  <2>3. (CHOOSE j \in VersionsOf(item) : evidences[j].version = n) = i
    BY <2>1, <2>2, ChooseVersion
  <2>4. /\ \A j \in VersionsOf(item) \cup {r} : evidences'[j].version = n => j = i
        /\ evidences'[i].version = n
    BY <1>1, <1>2, <1>3, <2>1, <2>2
  <2>5. (CHOOSE j \in VersionsOf(item) \cup {r} : evidences'[j].version = n) = i
    BY <2>1, <2>4, ChooseVersion
  <2> QED BY <1>1, <2>3, <2>5 DEF Version
<1>7. ASSUME NEW n \in Nat, n = T + 1 PROVE Version(item, n)' = r
  <2>1. \A j \in VersionsOf(item) \cup {r} : evidences'[j].version = n => j = r
    BY <1>1, <1>2, <1>7
  <2>2. (CHOOSE j \in VersionsOf(item) \cup {r} : evidences'[j].version = n) = r
    BY <1>3, <1>7, <2>1, ChooseVersion
  <2> QED BY <1>1, <2>2 DEF Version
<1>8. \E i \in VersionsOf(item)' : evidences'[i].status = "ACTIVE"
  BY <1>1
<1>9. {evidences'[i].version : i \in VersionsOf(item)'} = 1..Top(item)'
  <2>1. {evidences'[i].version : i \in VersionsOf(item)'} =
          {evidences[i].version : i \in VersionsOf(item)} \cup {T + 1}
    BY <1>1, <1>3
  <2>2. {evidences[i].version : i \in VersionsOf(item)} = 1..T
    BY DEF Listed
  <2> QED BY <1>2, <1>5, <2>1, <2>2
<1> QED BY <1>5, <1>6, <1>7, <1>8, <1>9

\* The lists stay lists.
LEMMA ListedStep == NumberInv /\ Listed /\ [Next]_vars => Listed'
<1> SUFFICES ASSUME NumberInv, Listed, [Next]_vars, NEW item \in Seeded
             PROVE  /\ \E i \in VersionsOf(item)' : evidences'[i].status = "ACTIVE"
                    /\ {evidences'[i].version : i \in VersionsOf(item)'} = 1..Top(item)'
  BY DEF Listed
<1>1. CASE evidences' = evidences
  <2>1. VersionsOf(item)' = VersionsOf(item)
    BY <1>1 DEF VersionsOf, Present
  <2> QED BY <1>1, <2>1, ListKept
<1>2. ASSUME NEW r \in Requests, pc[r] = "commit", Publish(r),
             ~(call[r].op = "Upload" /\ call[r].item = item)
      PROVE  /\ VersionsOf(item)' = VersionsOf(item)
             /\ \A i \in VersionsOf(item) : /\ evidences'[i].version = evidences[i].version
                                            /\ evidences'[i].status = evidences[i].status
  BY <1>2, OtherItem
<1>3. ASSUME NEW r \in Requests, pc[r] = "commit", Publish(r),
             ~(call[r].op = "Upload" /\ call[r].item = item)
      PROVE  /\ \E i \in VersionsOf(item)' : evidences'[i].status = "ACTIVE"
             /\ {evidences'[i].version : i \in VersionsOf(item)'} = 1..Top(item)'
  BY <1>2, <1>3, ListKept
<1>4. ASSUME NEW r \in Requests, pc[r] = "commit", Publish(r),
             call[r].op = "Upload", call[r].item = item
      PROVE  /\ \E i \in VersionsOf(item)' : evidences'[i].status = "ACTIVE"
             /\ {evidences'[i].version : i \in VersionsOf(item)'} = 1..Top(item)'
  BY <1>4, ListExtended
<1> QED BY <1>1, <1>3, <1>4, OnlyCommits

\* Versions of an item stay versions of it, with their numbers.
LEMMA VersionsStay ==
  ASSUME IInv, [Next]_vars, NEW item, NEW i \in VersionsOf(item)
  PROVE  i \in VersionsOf(item)' /\ evidences'[i].version = evidences[i].version
<1>1. i \in Rows /\ Present(i) /\ evidences[i].item = item
  BY DEF VersionsOf
<1>2. CASE evidences' = evidences
  BY <1>1, <1>2 DEF VersionsOf, Present
<1>3. ASSUME NEW r \in Requests, pc[r] = "commit", Publish(r)
      PROVE  i \in VersionsOf(item)' /\ evidences'[i].version = evidences[i].version
  BY <1>1, <1>3, RowsKept DEF VersionsOf
<1> QED BY <1>2, <1>3, OnlyCommits

\* What a step does to the calls: one of them moves on.
LEMMA CallsStep == IInv /\ CallsOK /\ [Next]_vars => CallsOK'
<1> SUFFICES ASSUME IInv, CallsOK, [Next]_vars, NEW q \in Requests
             PROVE  /\ answer'[q] # "none" => pc'[q] = "done"
                    /\ OfSeeded(q)' /\ target'[q] # None =>
                         (target[q] \in VersionsOf(call[q].item))'
  BY DEF CallsOK
<1>1. /\ answer[q] # "none" => pc[q] = "done"
      /\ OfSeeded(q) /\ target[q] # None => target[q] \in VersionsOf(call[q].item)
      /\ CallOK(q) /\ TypeOK
  BY DEF CallsOK, IInv
<1>2. ASSUME call'[q] = call[q], target'[q] = target[q]
      PROVE  OfSeeded(q)' /\ target'[q] # None => (target[q] \in VersionsOf(call[q].item))'
  BY <1>1, <1>2, VersionsStay DEF OfSeeded, VersionsOf, Present
<1>3. CASE UNCHANGED vars
  BY <1>1, <1>2, <1>3 DEF vars
<1>4. ASSUME NEW r \in Requests, NEW a, Finish(r, a)
      PROVE  answer'[q] # "none" => pc'[q] = "done"
  BY <1>1, <1>4 DEF Finish, TypeOK
<1>5. ASSUME NEW r \in Requests, pc[r] # "done", NEW s, pc' = [pc EXCEPT ![r] = s],
             answer' = answer
      PROVE  answer'[q] # "none" => pc'[q] = "done"
  BY <1>1, <1>5 DEF TypeOK
<1>6. ASSUME NEW r \in Requests, Arrive(r)
      PROVE  /\ answer'[q] # "none" => pc'[q] = "done"
             /\ OfSeeded(q)' /\ target'[q] # None =>
                  (target[q] \in VersionsOf(call[q].item))'
  <2>1. /\ pc[r] = "idle" /\ pc' = [pc EXCEPT ![r] = "find"] /\ UNCHANGED <<target, answer>>
        /\ \E c \in Call : call' = [call EXCEPT ![r] = c]
    BY <1>6 DEF Arrive
  <2>2. CASE q = r
    BY <1>1, <2>1, <2>2 DEF CallOK
  <2>3. CASE q # r
    <3>1. call'[q] = call[q] /\ target'[q] = target[q]
      BY <1>1, <2>1, <2>3 DEF TypeOK
    <3> QED BY <1>2, <1>5, <2>1, <3>1
  <2> QED BY <1>5, <2>1, <2>2, <2>3
<1>7. ASSUME NEW r \in Requests, Find(r)
      PROVE  /\ answer'[q] # "none" => pc'[q] = "done"
             /\ OfSeeded(q)' /\ target'[q] # None =>
                  (target[q] \in VersionsOf(call[q].item))'
  <2>1. /\ pc[r] = "find" /\ UNCHANGED <<evidences, call, answer>>
        /\ \/ \E i \in LatestOf(call[r].item) : /\ target' = [target EXCEPT ![r] = i]
                                                /\ pc' = [pc EXCEPT ![r] = "lock"]
           \/ target' = target /\ pc' = [pc EXCEPT ![r] = "write"]
    BY <1>7 DEF Find
  <2>2. answer'[q] # "none" => pc'[q] = "done"
    BY <1>5, <2>1
  <2>3. CASE target' = target
    BY <1>2, <2>1, <2>2, <2>3
  <2>4. ASSUME NEW i \in LatestOf(call[r].item), target' = [target EXCEPT ![r] = i]
        PROVE  target'[q] # None => (target[q] \in VersionsOf(call[q].item))' \/ ~OfSeeded(q)
    <3>1. CASE q = r
      <4>1. target'[q] = i /\ i \in VersionsOf(call[q].item)
        BY <1>1, <2>4, <3>1 DEF TypeOK, LatestOf
      <4> QED BY <2>1, <4>1 DEF VersionsOf, Present
    <3>2. CASE q # r
      <4>1. target'[q] = target[q]
        BY <1>1, <2>4, <3>2 DEF TypeOK
      <4> QED BY <1>1, <2>1, <4>1 DEF VersionsOf, Present
    <3> QED BY <3>1, <3>2
  <2>5. OfSeeded(q)' <=> OfSeeded(q)
    BY <2>1 DEF OfSeeded
  <2> QED BY <2>1, <2>2, <2>3, <2>4, <2>5
<1>8. ASSUME NEW r \in Requests, CountSuccessors(r)
      PROVE  /\ answer'[q] # "none" => pc'[q] = "done"
             /\ OfSeeded(q)' /\ target'[q] # None =>
                  (target[q] \in VersionsOf(call[q].item))'
  <2>1. pc[r] = "find" /\ call[r].op = "Edit" /\ call' = call
    BY <1>8 DEF CountSuccessors, Return, Finish
  <2>2. CASE Return(r, "immutable")
    BY <1>2, <1>4, <2>2 DEF Return, Finish
  <2>3. CASE /\ target' = [target EXCEPT ![r] = call[r].row]
             /\ pc' = [pc EXCEPT ![r] = "lock"] /\ answer' = answer
    <3>1. q = r => ~OfSeeded(q)'
      BY <2>1 DEF OfSeeded
    <3>2. q # r => target'[q] = target[q]
      BY <1>1, <2>3 DEF TypeOK
    <3> QED BY <1>2, <1>5, <2>1, <2>3, <3>1, <3>2
  <2> QED BY <1>8, <2>2, <2>3 DEF CountSuccessors
<1>9. ASSUME NEW r \in Requests, Lock(r) \/ Write(r) \/ Commit(r) \/ Abort(r)
      PROVE  /\ answer'[q] # "none" => pc'[q] = "done"
             /\ OfSeeded(q)' /\ target'[q] # None =>
                  (target[q] \in VersionsOf(call[q].item))'
  <2>1. call' = call /\ target' = target
    BY <1>9 DEF Lock, Write, Commit, Abort, Return, Finish
  <2>2. \/ \E a : Finish(r, a)
        \/ pc[r] # "done" /\ answer' = answer /\ \E s \in Step : pc' = [pc EXCEPT ![r] = s]
    <3>1. CASE Lock(r)
      BY <3>1 DEF Lock, Return, Step
    <3>2. CASE Write(r)
      BY <3>2 DEF Write, Return, Step
    <3>3. CASE Commit(r) \/ Abort(r)
      BY <3>3 DEF Commit, Abort, Return
    <3> QED BY <1>9, <3>1, <3>2, <3>3
  <2> QED BY <1>2, <1>4, <1>5, <2>1, <2>2
<1> QED BY <1>3, <1>6, <1>7, <1>8, <1>9 DEF Next

\* All of it holds in every reachable state.
THEOREM HistoryInvariance == Spec => []HistoryInv
<1>1. Init => Listed /\ CallsOK
  <2> SUFFICES ASSUME Init PROVE Listed /\ CallsOK
    OBVIOUS
  <2>1. CallsOK
    BY DEF Init, CallsOK
  <2>2. ASSUME NEW item \in Seeded
        PROVE  /\ \E i \in VersionsOf(item) : evidences[i].status = "ACTIVE"
               /\ {evidences[i].version : i \in VersionsOf(item)} = 1..Top(item)
    <3>1. VersionsOf(item) = {item} /\ evidences[item] = First(item, item)
      <4>1. \A i \in Rows : evidences[i] = IF i \in Seeded THEN First(i, i) ELSE NoRow
        BY DEF Init
      <4>2. \A i \in Rows : First(i, i).item = i /\ First(i, i).status = "ACTIVE"
                            /\ NoRow.status = "ABSENT"
        BY DEF First, NoRow
      <4> QED BY <4>1, <4>2 DEF VersionsOf, Present, Rows
    <3>2. First(item, item).status = "ACTIVE" /\ First(item, item).version = 1
      BY DEF First
    <3>3. Current(item) = item
      BY <3>1, <3>2 DEF Current
    <3>4. Top(item) = 1
      BY <3>1, <3>2, <3>3 DEF Top
    <3> QED BY <3>1, <3>2, <3>4
  <2> QED BY <2>1, <2>2 DEF Listed
<1>2. NumberInv => IInv
  BY DEF NumberInv
<1> QED BY <1>1, <1>2, ListedStep, CallsStep, Invariance, NumberedOnce, PTL
        DEF Spec, HistoryInv, NumberInv

\* The list of an item, as the mapping builds it.
LEMMA VersionsList ==
  ASSUME NumberInv, Listed, NEW item \in Seeded
  PROVE  /\ Top(item) \in Nat /\ Versions[item] = [n \in 1..Top(item) |-> Version(item, n)]
         /\ Versions[item] \in [1..Top(item) -> Rows]
         /\ Len(Versions[item]) = Top(item)
<1>1. Top(item) \in Nat
  BY CurrentIsLatest
<1>2. ASSUME NEW n \in 1..Top(item) PROVE Version(item, n) \in Rows
  <2>1. PICK i \in VersionsOf(item) : evidences[i].version = n
    BY DEF Listed
  <2>2. \A j \in VersionsOf(item) : evidences[j].version = n => j = i
    BY <2>1 DEF NumberInv, SeededVersionsUnique, Unique
  <2>3. Version(item, n) = i
    BY <2>1, <2>2, ChooseVersion DEF Version
  <2> QED BY <2>3 DEF VersionsOf
<1>3. Versions[item] = [n \in 1..Top(item) |-> Version(item, n)]
  BY DEF Versions
<1>4. Versions[item] \in [1..Top(item) -> Rows]
  BY <1>2, <1>3
<1>5. Versions[item] \in Seq(Rows) /\ Len(Versions[item]) = Top(item)
  BY <1>1, <1>4, SeqDef
<1> QED BY <1>1, <1>3, <1>4, <1>5

\* The lists after a step that adds no version to them.
LEMMA VersionsKept ==
  ASSUME NumberInv, Listed,
         \A item \in Seeded :
           /\ VersionsOf(item)' = VersionsOf(item)
           /\ \A i \in VersionsOf(item) : /\ evidences'[i].version = evidences[i].version
                                          /\ evidences'[i].status = evidences[i].status
  PROVE  Versions' = Versions
<1>1. ASSUME NEW item \in Seeded
      PROVE  [n \in 1..Top(item) |-> Version(item, n)]' = [n \in 1..Top(item) |-> Version(item, n)]
  <2>1. /\ Top(item)' = Top(item)
        /\ \A n \in 1..Top(item) : Version(item, n)' = Version(item, n)
    BY ListKept
  <2> QED BY <2>1
<1> QED BY <1>1 DEF Versions

\* The end of a call, whatever it did to the table.
LEMMA FinishTells ==
  ASSUME HistoryInv, [Next]_vars, NEW r \in Requests, NEW a, Finish(r, a),
         pc[r] \notin {"idle", "done"}
  PROVE  /\ Asked' = Asked /\ Seen' = Seen
         /\ ~OfSeeded(r) => Told' = Told
         /\ OfSeeded(r) => /\ History!Open(r) /\ History!Tell(r, a)
                           /\ Asked[r] = call[r].item
<1>1. /\ call' = call /\ target' = target /\ answer' = [answer EXCEPT ![r] = a]
      /\ answer \in [Requests -> Answer] /\ answer[r] = "none" /\ IInv
  BY DEF Finish, HistoryInv, NumberInv, IInv, TypeOK, CallsOK
<1>2. \A q \in Requests : OfSeeded(q)' <=> OfSeeded(q)
  BY <1>1 DEF OfSeeded
<1>3. Asked' = Asked
  BY <1>1, <1>2 DEF Asked
<1>4. ASSUME NEW q \in Requests, OfSeeded(q), target[q] # None
      PROVE  evidences'[target[q]].version = evidences[target[q]].version
  <2>1. target[q] \in VersionsOf(call[q].item)
    BY <1>4 DEF HistoryInv, CallsOK
  <2> QED BY <1>1, <2>1, VersionsStay
<1>5. Seen' = Seen
  BY <1>1, <1>2, <1>4 DEF Seen
<1>6. ~OfSeeded(r) => Told' = Told
  BY <1>1, <1>2 DEF Told
<1>7. ASSUME OfSeeded(r) PROVE /\ History!Open(r) /\ History!Tell(r, a) /\ Asked[r] = call[r].item
  <2>1. Asked[r] = call[r].item /\ Asked[r] # None /\ Told[r] = "none"
    BY <1>1, <1>7, DistinctNames DEF Asked, Told, OfSeeded
  <2>2. Told' = [Told EXCEPT ![r] = a]
    <3>1. answer'[r] = a /\ \A q \in Requests \ {r} : answer'[q] = answer[q]
      BY <1>1
    <3> QED BY <1>2, <1>7, <3>1 DEF Told
  <2> QED BY <1>3, <1>5, <2>1, <2>2 DEF History!Open, History!Tell
<1> QED BY <1>3, <1>5, <1>6, <1>7

\* The end of a call that commits nothing.
LEMMA ReturnMaps ==
  ASSUME HistoryInv, [Next]_vars, NEW r \in Requests, NEW a, Return(r, a),
         pc[r] \notin {"idle", "done"},
         OfSeeded(r) => \/ a = "error"
                        \/ /\ a = "raced"
                           /\ 0 < Seen[r] /\ Seen[r] < Len(Versions[call[r].item])
  PROVE  [History!Next]_(History!vars)
<1>1. Finish(r, a) /\ evidences' = evidences
  BY DEF Return
<1>2. Versions' = Versions
  BY <1>1 DEF Versions, Version, Top, Current, VersionsOf, Present
<1>3. /\ Asked' = Asked /\ Seen' = Seen
      /\ ~OfSeeded(r) => Told' = Told
      /\ OfSeeded(r) => /\ History!Open(r) /\ History!Tell(r, a)
                        /\ Asked[r] = call[r].item
  BY <1>1, FinishTells
<1>4. CASE ~OfSeeded(r)
  BY <1>2, <1>3, <1>4 DEF History!vars
<1>5. CASE OfSeeded(r)
  <2>1. History!Fail(r) \/ History!Raced(r)
    BY <1>2, <1>3, <1>5 DEF History!Fail, History!Raced
  <2> QED BY <2>1 DEF History!Next
<1> QED BY <1>4, <1>5

\* The commit of an upload for a seeded item appends to its list, on which nothing was
\* appended since it looked.
LEMMA UploadMaps ==
  ASSUME HistoryInv, [Next]_vars, NEW r \in Requests, Commit(r), OfSeeded(r)
  PROVE  History!Next
<1>0. PICK item \in Seeded : item = call[r].item
  BY DEF OfSeeded
<1> DEFINE T == Top(item)
<1>1. /\ pc[r] = "commit" /\ Publish(r) /\ call[r].op = "Upload" /\ call[r].item = item
      /\ NumberInv /\ Listed
  BY <1>0 DEF Commit, OfSeeded, HistoryInv
<1>2. PICK a \in {"ok", "error"} : Finish(r, a)
  BY DEF Commit
<1>3. History!Open(r) /\ History!Tell(r, a) /\ Asked[r] = item
  BY <1>1, <1>2, FinishTells
<1>4. /\ T \in Nat /\ Versions[item] = [n \in 1..T |-> Version(item, n)]
      /\ Versions[item] \in [1..T -> Rows] /\ Len(Versions[item]) = T
  BY <1>1, VersionsList
<1>5. Seen[r] = Len(Versions[item])
  <2>1. target[r] \in LatestOf(item) /\ target[r] # None
    BY <1>1, OwnItem
  <2>2. target[r] = Current(item)
    BY <1>1, <2>1, CurrentIsLatest
  <2> QED BY <1>4, <2>1, <2>2 DEF Seen, Top
<1>6. Versions'[item] = Append(Versions[item], r)
  <2>1. /\ Top(item)' = T + 1
        /\ \A n \in 1..T : Version(item, n)' = Version(item, n)
        /\ \A n \in Nat : n = T + 1 => Version(item, n)' = r
    BY <1>1, ListExtended
  <2>2. Versions'[item] = [n \in 1..T+1 |-> Version(item, n)']
    BY <1>1, <2>1 DEF Versions
  <2>3. Versions'[item] = [n \in 1..T+1 |-> IF n = T + 1 THEN r ELSE Versions[item][n]]
    BY <1>4, <2>1, <2>2
  <2>4. r \in Rows
    BY DEF Rows
  <2> QED BY <1>4, <2>3, <2>4, AppendLast
<1>7. ASSUME NEW other \in Seeded, other # item PROVE Versions'[other] = Versions[other]
  <2>1. /\ Top(other)' = Top(other)
        /\ \A n \in 1..Top(other) : Version(other, n)' = Version(other, n)
    <3>1. /\ VersionsOf(other)' = VersionsOf(other)
          /\ \A i \in VersionsOf(other) : /\ evidences'[i].version = evidences[i].version
                                          /\ evidences'[i].status = evidences[i].status
      BY <1>1, <1>7, OtherItem
    <3> QED BY <1>1, <3>1, ListKept
  <2> QED BY <2>1 DEF Versions
<1>8. Versions' = [Versions EXCEPT ![item] = Append(@, r)]
  BY <1>1, <1>6, <1>7 DEF Versions
<1>9. History!Add(r)
  BY <1>2, <1>3, <1>5, <1>8 DEF History!Add
<1> QED BY <1>9 DEF History!Next

\* The commit of another call is nothing to the lists.
LEMMA OtherCommitMaps ==
  ASSUME HistoryInv, [Next]_vars, NEW r \in Requests, Commit(r), ~OfSeeded(r)
  PROVE  UNCHANGED <<Versions, Asked, Seen, Told>>
<1>1. pc[r] = "commit" /\ Publish(r) /\ NumberInv /\ Listed /\ \E a : Finish(r, a)
  BY DEF Commit, HistoryInv
<1>2. Asked' = Asked /\ Seen' = Seen /\ Told' = Told
  BY <1>1, FinishTells
<1>3. ASSUME NEW item \in Seeded
      PROVE  /\ VersionsOf(item)' = VersionsOf(item)
             /\ \A i \in VersionsOf(item) : /\ evidences'[i].version = evidences[i].version
                                            /\ evidences'[i].status = evidences[i].status
  BY <1>1, OtherItem DEF OfSeeded
<1>4. Versions' = Versions
  BY <1>1, <1>3, VersionsKept
<1> QED BY <1>2, <1>4

\* Every step is a step of the history or leaves it as it is.
LEMMA StepMaps == HistoryInv /\ [Next]_vars => [History!Next]_(History!vars)
<1> SUFFICES ASSUME HistoryInv, [Next]_vars PROVE [History!Next]_(History!vars)
  OBVIOUS
<1>1. CASE UNCHANGED vars
  BY <1>1 DEF vars, History!vars, Versions, Version, Top, Current, VersionsOf, Present,
              Asked, Seen, Told, OfSeeded
<1>2. evidences' = evidences => Versions' = Versions
  BY DEF Versions, Version, Top, Current, VersionsOf, Present
<1>3. /\ IInv /\ call \in [Requests -> Call \cup {NoCall}]
      /\ target \in [Requests -> Rows \cup {None}]
  BY DEF HistoryInv, NumberInv, IInv, TypeOK
<1>4. ASSUME NEW r \in Requests, Arrive(r) PROVE [History!Next]_(History!vars)
  <2>1. PICK c \in Call : call' = [call EXCEPT ![r] = c]
    BY <1>4 DEF Arrive
  <2>2. /\ pc[r] = "idle" /\ UNCHANGED <<evidences, target, answer>>
        /\ call[r] = NoCall /\ target[r] = None /\ answer[r] = "none"
    BY <1>4 DEF Arrive, HistoryInv, NumberInv, IInv, CallOK, CallsOK
  <2>3. call'[r] = c /\ \A q \in Requests \ {r} : call'[q] = call[q]
    BY <1>3, <2>1
  <2>4. ~OfSeeded(r)
    BY <2>2 DEF OfSeeded, NoCall
  <2>5. \A q \in Requests \ {r} : OfSeeded(q)' <=> OfSeeded(q)
    BY <2>3 DEF OfSeeded
  <2>6. Seen' = Seen /\ Told' = Told /\ Versions' = Versions
    BY <1>2, <2>2, <2>4, <2>5 DEF Seen, Told
  <2>7. CASE ~OfSeeded(r)'
    <3>1. Asked' = Asked
      BY <2>3, <2>4, <2>5, <2>7 DEF Asked
    <3> QED BY <2>6, <3>1 DEF History!vars
  <2>8. CASE OfSeeded(r)'
    <3>1. c.item \in Seeded
      BY <2>3, <2>8 DEF OfSeeded
    <3>2. Asked[r] = None /\ Asked' = [Asked EXCEPT ![r] = c.item]
      BY <2>3, <2>4, <2>5, <2>8 DEF Asked
    <3>3. History!Ask(r)
      BY <2>6, <3>1, <3>2 DEF History!Ask
    <3> QED BY <3>3 DEF History!Next
  <2> QED BY <2>7, <2>8
<1>5. ASSUME NEW r \in Requests, Find(r) PROVE [History!Next]_(History!vars)
  <2>1. /\ pc[r] = "find" /\ call[r].op = "Upload" /\ UNCHANGED <<evidences, call, answer>>
        /\ target[r] = None /\ answer[r] = "none"
        /\ \/ \E i \in LatestOf(call[r].item) : target' = [target EXCEPT ![r] = i]
           \/ VersionsOf(call[r].item) = {} /\ target' = target
    BY <1>5 DEF Find, HistoryInv, NumberInv, IInv, CallOK, CallsOK
  <2>2. Versions' = Versions /\ Asked' = Asked /\ Told' = Told
    BY <1>2, <2>1 DEF Asked, Told, OfSeeded
  <2>3. CASE ~OfSeeded(r)
    <3>1. \A q \in Requests \ {r} : target'[q] = target[q]
      BY <1>3, <2>1
    <3>2. Seen' = Seen
      BY <2>1, <2>3, <3>1 DEF Seen, OfSeeded
    <3> QED BY <2>2, <3>2 DEF History!vars
  <2>4. CASE OfSeeded(r)
    <3>1. PICK item \in Seeded : item = call[r].item
      BY <2>4 DEF OfSeeded
    <3>2. item \in VersionsOf(item)
      BY <1>3 DEF IInv, RowsOK
    <3>3. PICK i \in LatestOf(item) : target' = [target EXCEPT ![r] = i]
      BY <2>1, <3>1, <3>2
    <3>4. i = Current(item) /\ i # None /\ Len(Versions[item]) = Top(item)
      <4>1. i = Current(item) /\ Len(Versions[item]) = Top(item)
        BY CurrentIsLatest, VersionsList DEF HistoryInv
      <4>2. i # None
        BY DistinctNames DEF LatestOf, VersionsOf, Rows
      <4> QED BY <4>1, <4>2
    <3>5. target'[r] = i /\ \A q \in Requests \ {r} : target'[q] = target[q]
      BY <1>3, <3>3
    <3>6. Seen' = [Seen EXCEPT ![r] = Len(Versions[item])]
      <4>1. \A q \in Requests : OfSeeded(q)' <=> OfSeeded(q)
        BY <2>1 DEF OfSeeded
      <4> QED BY <2>1, <2>4, <3>4, <3>5, <4>1 DEF Seen, Top
    <3>7. Asked[r] = item /\ item # None /\ Told[r] = "none" /\ Seen[r] = 0
      BY <2>1, <2>4, <3>1, DistinctNames DEF Asked, Told, Seen
    <3>8. History!Look(r)
      BY <2>2, <3>6, <3>7 DEF History!Look, History!Open
    <3> QED BY <3>8 DEF History!Next
  <2> QED BY <2>3, <2>4
<1>6. ASSUME NEW r \in Requests, CountSuccessors(r) PROVE [History!Next]_(History!vars)
  <2>1. pc[r] = "find" /\ call[r].op = "Edit" /\ ~OfSeeded(r)
    BY <1>6 DEF CountSuccessors, OfSeeded
  <2>2. CASE Return(r, "immutable")
    BY <2>1, <2>2, ReturnMaps
  <2>3. CASE /\ target' = [target EXCEPT ![r] = call[r].row]
             /\ UNCHANGED <<evidences, audit, rowLock, call, answer>>
    <3>1. \A q \in Requests \ {r} : target'[q] = target[q]
      BY <1>3, <2>3
    <3>2. Seen' = Seen
      BY <2>1, <2>3, <3>1 DEF Seen, OfSeeded
    <3> QED BY <1>2, <2>3, <3>2 DEF Asked, Told, OfSeeded, History!vars
  <2> QED BY <1>6, <2>2, <2>3 DEF CountSuccessors
<1>7. ASSUME UNCHANGED <<evidences, call, target, answer>>
      PROVE  [History!Next]_(History!vars)
  BY <1>2, <1>7 DEF Asked, Seen, Told, OfSeeded, History!vars
<1>8. ASSUME NEW r \in Requests, Lock(r) PROVE [History!Next]_(History!vars)
  <2>1. pc[r] = "lock"
    BY <1>8 DEF Lock
  <2>2. CASE ~Present(target[r]) /\ Return(r, "notfound")
    <3>1. ~OfSeeded(r)
      BY <1>3, <2>1, <2>2 DEF IInv, CallOK, OfSeeded, VersionsOf
    <3> QED BY <2>1, <2>2, <3>1, ReturnMaps
  <2> QED BY <1>7, <1>8, <2>2 DEF Lock
<1>9. ASSUME NEW r \in Requests, Write(r) PROVE [History!Next]_(History!vars)
  <2>1. pc[r] = "write"
    BY <1>9 DEF Write
  <2>2. CASE call[r].op = "Upload" /\ ~Supersedes(r) /\ Return(r, "raced")
    <3>1. ASSUME OfSeeded(r)
          PROVE  0 < Seen[r] /\ Seen[r] < Len(Versions[call[r].item])
      <4>1. PICK item \in Seeded : item = call[r].item
        BY <3>1 DEF OfSeeded
      <4>2. /\ target[r] # None /\ evidences[target[r]].status # "ACTIVE"
            /\ target[r] \in VersionsOf(item)
        BY <1>3, <2>1, <2>2, <4>1 DEF Supersedes, IInv, CallOK
      <4>3. /\ Current(item) \in LatestOf(item)
            /\ evidences[Current(item)].status = "ACTIVE"
            /\ \A i \in VersionsOf(item) : evidences[i].version \in 1..Top(item)
            /\ Current(item) \in VersionsOf(item)
            /\ Top(item) \in Nat /\ Len(Versions[item]) = Top(item)
        BY CurrentIsLatest, VersionsList DEF HistoryInv
      <4>4. evidences[target[r]].version # Top(item)
        BY <4>2, <4>3 DEF HistoryInv, NumberInv, SeededVersionsUnique, Unique, Top
      <4>5. Seen[r] = evidences[target[r]].version
        BY <3>1, <4>2 DEF Seen
      <4>6. evidences[target[r]].version \in 1..Top(item)
        BY <4>2, <4>3
      <4> QED BY <4>1, <4>3, <4>4, <4>5, <4>6
    <3> QED BY <2>1, <2>2, <3>1, ReturnMaps
  <2> QED BY <1>7, <1>9, <2>2 DEF Write
<1>10. ASSUME NEW r \in Requests, Commit(r) PROVE [History!Next]_(History!vars)
  BY <1>10, UploadMaps, OtherCommitMaps DEF History!vars
<1>11. ASSUME NEW r \in Requests, Abort(r) PROVE [History!Next]_(History!vars)
  BY <1>11, ReturnMaps DEF Abort
<1> QED BY <1>1, <1>4, <1>5, <1>6, <1>8, <1>9, <1>10, <1>11 DEF Next

\* Evidence implements EvidenceHistory, for any items, calls and seeds: once an item has a
\* version, uploads for it are appended one after the other, each to the list it saw.
THEOREM HistoryRefinement == Spec => ImplementsHistory
<1>1. Init => History!Init
  <2> SUFFICES ASSUME Init PROVE History!Init
    OBVIOUS
  <2>1. Asked = [r \in Requests |-> None] /\ Seen = [r \in Requests |-> 0]
        /\ Told = [r \in Requests |-> "none"]
    BY DEF Init, Asked, Seen, Told, OfSeeded, NoCall
  <2>2. ASSUME NEW item \in Seeded PROVE Versions[item] = <<item>>
    <3>1. VersionsOf(item) = {item} /\ evidences[item] = First(item, item)
      <4>1. \A i \in Rows : evidences[i] = IF i \in Seeded THEN First(i, i) ELSE NoRow
        BY DEF Init
      <4>2. \A i \in Rows : First(i, i).item = i /\ First(i, i).status = "ACTIVE"
                            /\ NoRow.status = "ABSENT"
        BY DEF First, NoRow
      <4> QED BY <4>1, <4>2 DEF VersionsOf, Present, Rows
    <3>2. First(item, item).status = "ACTIVE" /\ First(item, item).version = 1
      BY DEF First
    <3>3. Current(item) = item /\ Version(item, 1) = item
      BY <3>1, <3>2 DEF Current, Version
    <3>4. Top(item) = 1
      BY <3>1, <3>2, <3>3 DEF Top
    <3>5. Versions[item] = [n \in 1..1 |-> Version(item, n)]
      BY <3>4 DEF Versions
    <3>6. Versions[item] = [n \in 1..1 |-> item]
      BY <3>3, <3>5
    <3> QED BY <3>6
  <2>3. Versions = [item \in Seeded |-> <<item>>]
    BY <2>2 DEF Versions
  <2> QED BY <2>1, <2>3 DEF History!Init
<1> QED BY <1>1, StepMaps, HistoryInvariance, PTL DEF Spec, ImplementsHistory, History!Spec

-----------------------------------------------------------------------------
(* Waiting: a call waits for the lock of one row.                          *)

Active(r) == pc[r] \notin {"idle", "done"}

\* A call is not kept waiting.
Ready(r) ==
  \/ pc[r] \in {"find", "write", "commit"}
  \/ pc[r] = "lock" /\ (Present(target[r]) => rowLock[target[r]] = None)

\* Who holds a row has left the wait for it behind.
HoldersActive == \A i \in Rows : rowLock[i] # None => pc[rowLock[i]] \in {"write", "commit"}

\* As long as a call is in flight, some call can take its next step.
SomeoneReady == (\E r \in Requests : Active(r)) => \E r \in Requests : Ready(r)

\* How many steps a call is from its answer, at most.
Distance(r) ==
  CASE pc[r] = "idle" -> 5 [] pc[r] = "find" -> 4 [] pc[r] = "lock" -> 3
    [] pc[r] = "write" -> 2 [] pc[r] = "commit" -> 1 [] OTHER -> 0

\* No step takes a call further from its answer, and each brings one nearer.
Nearer ==
  /\ \A r \in Requests : Distance(r)' <= Distance(r)
  /\ \E r \in Requests : Distance(r)' < Distance(r)

\* What a step of a call does to the waiting: it ends the call and gives its row
\* back, or takes the row, or goes on.
Ends(r) ==
  /\ Active(r) /\ pc'[r] = "done"
  /\ rowLock' = [i \in Rows |-> IF rowLock[i] = r THEN None ELSE rowLock[i]]

Takes(r) ==
  /\ pc[r] = "lock" /\ pc'[r] \in {"write", "commit"}
  /\ rowLock' = [rowLock EXCEPT ![target[r]] = r]

Goes(r) ==
  /\ \/ pc[r] = "idle" /\ pc'[r] = "find"
     \/ pc[r] = "find" /\ pc'[r] \in {"lock", "write"}
     \/ pc[r] = "write" /\ pc'[r] = "commit"
  /\ rowLock' = rowLock

LEMMA Steps ==
  ASSUME IInv, Next
  PROVE  \E r \in Requests : /\ \A q \in Requests \ {r} : pc'[q] = pc[q]
                             /\ Ends(r) \/ Takes(r) \/ Goes(r)
<1>1. PICK r \in Requests : Arrive(r) \/ Find(r) \/ CountSuccessors(r) \/ Lock(r) \/ Write(r) \/ Commit(r) \/ Abort(r)
  BY DEF Next
<1>2. pc \in [Requests -> Step]
  BY DEF IInv, TypeOK
<1>3. ASSUME NEW a, Finish(r, a), Active(r)
      PROVE  (\A q \in Requests \ {r} : pc'[q] = pc[q]) /\ Ends(r)
  BY <1>2, <1>3 DEF Finish, Ends
<1>4. CASE Arrive(r)
  BY <1>2, <1>3, <1>4 DEF Arrive, Return, Ends, Takes, Goes, Active, Step
<1>5. CASE Find(r)
  BY <1>2, <1>3, <1>5 DEF Find, Return, Ends, Takes, Goes, Active, Step
<1>6. CASE CountSuccessors(r)
  BY <1>2, <1>3, <1>6 DEF CountSuccessors, Return, Ends, Takes, Goes, Active, Step
<1>7. CASE Lock(r)
  BY <1>2, <1>3, <1>7 DEF Lock, Return, Ends, Takes, Goes, Active, Step
<1>8. CASE Write(r)
  BY <1>2, <1>3, <1>8 DEF Write, Return, Ends, Takes, Goes, Active, Step
<1>9. CASE Commit(r)
  BY <1>2, <1>3, <1>9 DEF Commit, Return, Ends, Takes, Goes, Active, Step
<1>10. CASE Abort(r)
  BY <1>2, <1>3, <1>10 DEF Abort, Return, Ends, Takes, Goes, Active, Step
<1> QED BY <1>1, <1>4, <1>5, <1>6, <1>7, <1>8, <1>9, <1>10

LEMMA HoldersStep == ASSUME IInv, HoldersActive, [Next]_vars PROVE HoldersActive'
<1>1. CASE UNCHANGED vars
  BY <1>1 DEF vars, HoldersActive
<1>2. CASE Next
  <2>1. PICK r \in Requests : /\ \A q \in Requests \ {r} : pc'[q] = pc[q]
                              /\ Ends(r) \/ Takes(r) \/ Goes(r)
    BY <1>2, Steps
  <2>2. rowLock \in [Rows -> Requests \cup {None}]
    BY DEF IInv, TypeOK
  <2>3. CASE Ends(r)
    BY <2>1, <2>2, <2>3 DEF Ends, HoldersActive
  <2>4. CASE Takes(r)
    BY <2>1, <2>2, <2>4 DEF Takes, HoldersActive
  <2>5. CASE Goes(r)
    BY <2>1, <2>2, <2>5 DEF Goes, HoldersActive
  <2> QED BY <2>1, <2>3, <2>4, <2>5
<1> QED BY <1>1, <1>2

\* Who is waited for has its own statements left, and waits for nothing.
LEMMA HoldersSuffice == ASSUME IInv, HoldersActive PROVE SomeoneReady
<1> SUFFICES ASSUME NEW r \in Requests, Active(r) PROVE \E q \in Requests : Ready(q)
  BY DEF SomeoneReady
<1>1. CASE Ready(r)
  BY <1>1
<1>2. CASE ~Ready(r)
  <2>1. pc[r] = "lock" /\ rowLock[target[r]] # None
    BY <1>2 DEF Ready, IInv, TypeOK, Step, Active
  <2>2. target[r] \in Rows
    BY <2>1 DEF IInv, TypeOK, CallOK
  <2>3. rowLock[target[r]] \in Requests /\ pc[rowLock[target[r]]] \in {"write", "commit"}
    BY <2>1, <2>2 DEF IInv, TypeOK, HoldersActive
  <2> QED BY <2>3 DEF Ready
<1> QED BY <1>1, <1>2

\* Uploads and edits that race for a version never make all calls wait: a call locks
\* one row, the last thing it waits for.
THEOREM NoDeadlock == Spec => []SomeoneReady
<1>1. Init => HoldersActive
  BY DEF Init, HoldersActive
<1>2. IInv /\ HoldersActive /\ [Next]_vars => HoldersActive'
  BY HoldersStep
<1>3. IInv /\ HoldersActive => SomeoneReady
  BY HoldersSuffice
<1> QED BY <1>1, <1>2, <1>3, Invariance, PTL DEF Spec

\* Each step brings a call nearer to its answer and takes none further from it:
\* no handler retries, so finitely many calls take finitely many steps.
THEOREM EveryStepCounts == Spec => [][Nearer]_vars
<1>1. ASSUME IInv, Next PROVE Nearer
  <2>1. PICK r \in Requests : /\ \A q \in Requests \ {r} : pc'[q] = pc[q]
                              /\ Ends(r) \/ Takes(r) \/ Goes(r)
    BY <1>1, Steps
  <2>2. pc[r] \in Step
    BY <1>1 DEF IInv, TypeOK
  <2>3. Distance(r)' < Distance(r) /\ Distance(r)' <= Distance(r)
    BY <2>1, <2>2 DEF Ends, Takes, Goes, Distance, Step, Active
  <2>4. ASSUME NEW q \in Requests \ {r} PROVE Distance(q)' <= Distance(q)
    BY <2>1 DEF Distance
  <2> QED BY <2>3, <2>4 DEF Nearer
<1>2. IInv /\ [Next]_vars => [Nearer]_vars
  BY <1>1
<1> QED BY <1>2, Invariance, PTL DEF Spec
=============================================================================
