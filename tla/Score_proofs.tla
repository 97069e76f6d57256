--------------------------- MODULE Score_proofs ----------------------------
(***************************************************************************)
(* Theorems about Score, for any set of calls and rows.                    *)
(*                                                                         *)
(* A call that is about to commit holds the lock of its row, so what the   *)
(* WHERE clause of its UPDATE found still holds (IInv).  What the unlocked *)
(* read found may hold no longer: a value in force is overwritten only in  *)
(* a row that was a DRAFT and that another call has confirmed meanwhile    *)
(* (DraftsOK, ConfirmersOK).  When no caller passes CONFIRMED to           *)
(* UpdateScore, a row that is there never becomes CONFIRMED, and what the  *)
(* read found holds where it matters (NInv).                               *)
(***************************************************************************)
EXTENDS Score, Integers, TLAPS

NoOneConfirms == "CONFIRMED" \notin StatusOps

\* What is known of a call by where it is.
CallOK(r) ==
  /\ pc[r] = "idle" => call[r] = NoCall
  /\ pc[r] # "idle" => call[r] \in Call /\ WellFormed(call[r], r)

\* An inserted row's call is over; a call that has read its row has one, and so
\* has a call whose correction was committed.
RowOK(r) ==
  /\ Present(r) => pc[r] = "done" /\ call[r].op \in {"Create", "Supersede"}
  /\ call[r].op \in {"Update", "Supersede"} /\ (pc[r] \in {"update", "commit"} \/ Present(r))
       => Present(call[r].row)

\* A change is committed under the lock, on the row its UPDATE matched.
LockOK(r) ==
  /\ pc[r] \in {"read", "update"} => call[r].op # "Create"
  /\ pc[r] = "commit" /\ call[r].op # "Create" =>
       /\ rowLock[call[r].row] = r
       /\ call[r].op = "Supersede" => scores[call[r].row].status = "CONFIRMED"
  /\ pc[r] \in {"update", "commit"} /\ call[r].op = "Update" =>
       call[r].status \in {"none", "CONFIRMED", "SUPERSEDED"}

SeedsOK == \A i \in Drafts \cup Confirmed : Present(i)

IInv == /\ TypeOK
        /\ \A r \in Requests : CallOK(r) /\ RowOK(r) /\ LockOK(r)
        /\ SeedsOK

\* What holds besides when no caller confirms: an update of score fields that
\* passed the check still finds a row that is not CONFIRMED.
GuardOK == \A r \in Requests :
             pc[r] \in {"update", "commit"} /\ call[r].op = "Update" /\ call[r].fields
               => scores[call[r].row].status # "CONFIRMED"

NInv == GuardOK /\ ReplacedOnce

-----------------------------------------------------------------------------
\* The initial state satisfies the invariant.
LEMMA InitIInv == Init => IInv
<1> SUFFICES ASSUME Init PROVE IInv
  OBVIOUS
<1> USE DEF Init, Rows, NoRow, Inserted, NoCall
<1>1. TypeOK
  <2>1. scores \in [Rows -> Row]
    BY DEF Row, RowStatus, Absent
  <2>2. audit \subseteq AuditRow
    BY DEF AuditRow, Created
  <2>3. /\ rowLock \in [Rows -> Requests \cup {NoReq}]
        /\ call \in [Requests -> Call \cup {NoCall}]
        /\ pc \in [Requests -> Step]
        /\ answer \in [Requests -> Answer]
    BY DEF Step, Answer
  <2> QED BY <2>1, <2>2, <2>3 DEF TypeOK
<1>2. ASSUME NEW r \in Requests PROVE CallOK(r) /\ RowOK(r) /\ LockOK(r)
  BY DistinctRows DEF CallOK, RowOK, LockOK, Present, Absent
<1>3. SeedsOK
  BY DistinctRows DEF SeedsOK, Present, Absent
<1> QED BY <1>1, <1>2, <1>3 DEF IInv

\* Ending a call keeps the types of everything it changes.
LEMMA FinishTypes ==
  ASSUME TypeOK, NEW r \in Requests, NEW a \in Answer, Finish(r, a)
  PROVE  /\ rowLock' \in [Rows -> Requests \cup {NoReq}]
         /\ call' \in [Requests -> Call \cup {NoCall}]
         /\ pc' \in [Requests -> Step]
         /\ answer' \in [Requests -> Answer]
         /\ call' = call
         /\ pc' = [pc EXCEPT ![r] = "done"]
         /\ \A i \in Rows : rowLock[i] # r => rowLock'[i] = rowLock[i]
BY DEF TypeOK, Finish, Step

\* A call that ends without a commit disturbs nothing.
LEMMA ReturnIInv ==
  ASSUME IInv, NEW r \in Requests, pc[r] \in {"read", "update", "commit"},
         NEW a \in Answer, Return(r, a)
  PROVE  IInv'
<1>1. /\ Finish(r, a) /\ scores' = scores /\ audit' = audit
  BY DEF Return
<1>2. TypeOK'
  BY <1>1, FinishTypes DEF IInv, TypeOK
<1>3. ASSUME NEW q \in Requests PROVE (CallOK(q) /\ RowOK(q) /\ LockOK(q))'
  <2>1. CallOK(q) /\ RowOK(q) /\ LockOK(q)
    BY DEF IInv
  <2>2. call' = call /\ (q # r => pc'[q] = pc[q]) /\ pc'[r] = "done"
    BY <1>1, FinishTypes DEF IInv, TypeOK
  <2>3. CallOK(q)'
    BY <2>1, <2>2 DEF CallOK
  <2>4. RowOK(q)'
    BY <2>1, <2>2, <1>1 DEF RowOK, Present
  <2>5. LockOK(q)'
    <3>1. CASE q = r
      BY <3>1, <2>2 DEF LockOK
    <3>2. CASE q # r
      <4>1. pc[q] = "commit" /\ call[q].op # "Create" => call[q].row \in Rows
        BY <2>1 DEF CallOK, Call
      <4>2. \A i \in Rows : rowLock[i] # r => rowLock'[i] = rowLock[i]
        BY <1>1, FinishTypes DEF IInv
      <4> QED BY <3>2, <4>1, <4>2, <2>1, <2>2, <1>1 DEF LockOK
    <3> QED BY <3>1, <3>2
  <2> QED BY <2>3, <2>4, <2>5
<1>4. SeedsOK'
  BY <1>1 DEF IInv, SeedsOK, Present
<1> QED BY <1>2, <1>3, <1>4 DEF IInv

\* The arrival of a call.
LEMMA ArriveIInv ==
  ASSUME IInv, NEW r \in Requests, Arrive(r)
  PROVE  IInv'
<1>1. PICK c \in Call : /\ WellFormed(c, r)
                        /\ call' = [call EXCEPT ![r] = c]
                        /\ pc' = [pc EXCEPT ![r] = IF c.op = "Create" THEN "commit"
                                                                     ELSE "read"]
  BY DEF Arrive
<1>2. pc[r] = "idle" /\ UNCHANGED <<scores, audit, rowLock, answer>>
  BY DEF Arrive
<1>3. TypeOK'
  BY <1>1, <1>2 DEF IInv, TypeOK, Step
<1>4. ASSUME NEW q \in Requests PROVE (CallOK(q) /\ RowOK(q) /\ LockOK(q))'
  <2>1. CallOK(q) /\ RowOK(q) /\ LockOK(q)
    BY DEF IInv
  <2>2. CASE q = r
    <3>1. call'[r] = c /\ pc'[r] = (IF c.op = "Create" THEN "commit" ELSE "read")
      BY <1>1 DEF IInv, TypeOK
    <3>2. ~Present(r)
      BY <2>1, <2>2, <1>2 DEF RowOK
    <3> QED BY <2>2, <3>1, <3>2, <1>1, <1>2 DEF CallOK, RowOK, LockOK, Present
  <2>3. CASE q # r
    <3>1. call'[q] = call[q] /\ pc'[q] = pc[q]
      BY <2>3, <1>1 DEF IInv, TypeOK
    <3> QED BY <2>1, <3>1, <1>2 DEF CallOK, RowOK, LockOK, Present
  <2> QED BY <2>2, <2>3
<1>5. SeedsOK'
  BY <1>2 DEF IInv, SeedsOK, Present
<1> QED BY <1>3, <1>4, <1>5 DEF IInv

\* The unlocked read.
LEMMA ReadIInv ==
  ASSUME IInv, NEW r \in Requests, Read(r)
  PROVE  IInv'
<1> DEFINE s == scores[call[r].row].status
<1>1. pc[r] = "read" /\ CallOK(r) /\ RowOK(r) /\ LockOK(r)
  BY DEF Read, IInv
<1>2. CASE Return(r, Refusal(r, s)) \/ Return(r, "ok")
  <2>1. Refusal(r, s) \in Answer
    BY DEF Refusal, Answer
  <2>2. "ok" \in Answer
    BY DEF Answer
  <2> QED BY <1>1, <1>2, <2>1, <2>2, ReturnIInv
<1>3. CASE /\ Refusal(r, s) = "none"
           /\ pc' = [pc EXCEPT ![r] = "update"]
           /\ UNCHANGED <<scores, audit, rowLock, call, answer>>
  <2>1. TypeOK'
    BY <1>3 DEF IInv, TypeOK, Step
  <2>2. call[r] \in Call /\ s \in RowStatus \cup {Absent}
    BY <1>1 DEF CallOK, Call, IInv, TypeOK, Row
  <2>3. s # Absent
    BY <1>3 DEF Refusal
  <2>4. call[r].op = "Update" => call[r].status \in {"none", "CONFIRMED", "SUPERSEDED"}
    <3>1. CASE s = "CONFIRMED" /\ call[r].fields
      BY <3>1, <1>3, <2>2 DEF Refusal, Absent
    <3>2. CASE ~(s = "CONFIRMED" /\ call[r].fields)
      BY <3>2, <1>3, <2>2, <2>3 DEF Refusal, Call, ValidTransition, Absent
    <3> QED BY <3>1, <3>2
  <2>5. ASSUME NEW q \in Requests PROVE (CallOK(q) /\ RowOK(q) /\ LockOK(q))'
    <3>1. CallOK(q) /\ RowOK(q) /\ LockOK(q)
      BY DEF IInv
    <3>2. CASE q = r
      <4>1. pc'[r] = "update"
        BY <1>3 DEF IInv, TypeOK
      <4>2. CallOK(q)'
        BY <3>1, <3>2, <4>1, <1>1, <1>3 DEF CallOK
      <4>3. RowOK(q)'
        BY <3>1, <3>2, <4>1, <1>1, <1>3, <2>3 DEF RowOK, Present
      <4>4. LockOK(q)'
        BY <3>1, <3>2, <4>1, <1>1, <1>3, <2>4 DEF LockOK
      <4> QED BY <4>2, <4>3, <4>4
    <3>3. CASE q # r
      <4>1. pc'[q] = pc[q]
        BY <3>3, <1>3 DEF IInv, TypeOK
      <4> QED BY <3>1, <4>1, <1>3 DEF CallOK, RowOK, LockOK, Present
    <3> QED BY <3>2, <3>3
  <2>6. SeedsOK'
    BY <1>3 DEF IInv, SeedsOK, Present
  <2> QED BY <2>1, <2>5, <2>6 DEF IInv
<1> QED BY <1>2, <1>3 DEF Read

\* The UPDATE and the lock it takes.
LEMMA UpdateIInv ==
  ASSUME IInv, NEW r \in Requests, Update(r)
  PROVE  IInv'
<1> DEFINE i == call[r].row
<1>1. /\ pc[r] = "update" /\ CallOK(r) /\ RowOK(r) /\ LockOK(r)
      /\ rowLock[i] = NoReq /\ i \in Rows
  BY DEF Update, IInv, CallOK, Call
<1>2. CASE Return(r, "notconfirmed")
  <2>1. "notconfirmed" \in Answer
    BY DEF Answer
  <2> QED BY <1>1, <1>2, <2>1, ReturnIInv
<1>3. CASE /\ Matches(r)
           /\ rowLock' = [rowLock EXCEPT ![i] = r]
           /\ pc' = [pc EXCEPT ![r] = "commit"]
           /\ UNCHANGED <<scores, audit, call, answer>>
  <2>1. TypeOK'
    BY <1>3 DEF IInv, TypeOK, Step
  <2>2. ASSUME NEW q \in Requests PROVE (CallOK(q) /\ RowOK(q) /\ LockOK(q))'
    <3>1. CallOK(q) /\ RowOK(q) /\ LockOK(q) /\ q # NoReq
      BY DistinctRows DEF IInv, Rows
    <3>2. rowLock'[i] = r
      BY <1>1, <1>3 DEF IInv, TypeOK
    <3>3. CASE q = r
      <4>1. pc'[r] = "commit"
        BY <1>3 DEF IInv, TypeOK
      <4> QED BY <3>1, <3>2, <3>3, <4>1, <1>1, <1>3
              DEF CallOK, RowOK, LockOK, Present, Matches
    <3>4. CASE q # r
      <4>1. pc'[q] = pc[q]
        BY <3>4, <1>3 DEF IInv, TypeOK
      <4>2. pc[q] = "commit" /\ call[q].op # "Create" => rowLock'[call[q].row] = q
        BY <3>1, <1>1, <1>3 DEF LockOK, CallOK, Call, IInv, TypeOK
      <4> QED BY <3>1, <4>1, <4>2, <1>3 DEF CallOK, RowOK, LockOK, Present
    <3> QED BY <3>3, <3>4
  <2>3. SeedsOK'
    BY <1>3 DEF IInv, SeedsOK, Present
  <2> QED BY <2>1, <2>2, <2>3 DEF IInv
<1> QED BY <1>2, <1>3 DEF Update

\* What a commit does to the table: r's own row is new unless r is an update,
\* the row r is about is the only other one that changes, and no row vanishes.
LEMMA PublishRows ==
  ASSUME IInv, NEW r \in Requests, pc[r] = "commit", Publish(r)
  PROVE  /\ ~Present(r) /\ call[r] \in Call /\ WellFormed(call[r], r)
         /\ call[r].op # "Create" => call[r].row # r /\ Present(call[r].row)
         /\ call[r].op = "Supersede" => scores[call[r].row].status = "CONFIRMED"
         /\ call[r].op = "Update" => call[r].status \in {"none", "CONFIRMED", "SUPERSEDED"}
         /\ scores' \in [Rows -> Row]
         /\ call[r].op \in {"Create", "Update", "Supersede"}
         /\ call[r].op = "Create" => call[r].row = r /\ scores'[r] = Inserted(r, "DRAFT")
         /\ call[r].op = "Supersede" => scores'[r] = Inserted(r, "CONFIRMED")
         /\ call[r].op = "Update" => scores'[r] = scores[r]
         /\ call[r].op = "Supersede" =>
              scores'[call[r].row] = [scores[call[r].row] EXCEPT !.status = "SUPERSEDED"]
         /\ call[r].op = "Update" =>
              scores'[call[r].row] = Rewritten(scores[call[r].row], call[r], r)
         /\ \A i \in Rows : i # r /\ i # call[r].row => scores'[i] = scores[i]
         /\ \A i \in Rows : Present(i) => Present(i)'
<1> DEFINE i == call[r].row
<1>1. /\ CallOK(r) /\ RowOK(r) /\ LockOK(r) /\ scores \in [Rows -> Row]
      /\ r \in Rows /\ r # NoReq
  BY DistinctRows DEF IInv, TypeOK, Rows
<1>2. ~Present(r)
  BY <1>1 DEF RowOK
<1>3. call[r] \in Call /\ WellFormed(call[r], r) /\ i \in Rows
  BY <1>1 DEF CallOK, Call
<1>4. call[r].op # "Create" => i # r /\ Present(i)
  BY <1>1, <1>3 DEF RowOK, WellFormed, Call
<1>5. /\ call[r].op = "Supersede" => scores[i].status = "CONFIRMED"
      /\ call[r].op = "Update" => call[r].status \in {"none", "CONFIRMED", "SUPERSEDED"}
  BY <1>1 DEF LockOK
<1>6. CASE call[r].op = "Create"
  <2>1. scores' = [scores EXCEPT ![r] = Inserted(r, "DRAFT")] /\ i = r
    BY <1>3, <1>6 DEF Publish, WellFormed
  <2>2. Inserted(r, "DRAFT") \in Row
    BY <1>1 DEF Inserted, Row, RowStatus
  <2> QED BY <1>1, <1>2, <1>3, <1>6, <2>1, <2>2 DEF Present, Inserted, Absent
<1>7. CASE call[r].op = "Update"
  <2>1. scores' = [scores EXCEPT ![i] = Rewritten(scores[i], call[r], r)]
    BY <1>7 DEF Publish
  <2>2. scores[i] \in Row /\ scores[i].status # Absent
    BY <1>1, <1>3, <1>4, <1>7 DEF Present
  <2>3. Rewritten(scores[i], call[r], r) \in Row
    BY <1>1, <1>5, <1>7, <2>2 DEF Rewritten, Row, RowStatus
  <2>4. Rewritten(scores[i], call[r], r).status # Absent
    BY <1>5, <1>7, <2>2 DEF Rewritten, Absent
  <2> QED BY <1>1, <1>2, <1>3, <1>4, <1>5, <1>7, <2>1, <2>3, <2>4 DEF Present
<1>8. CASE call[r].op = "Supersede"
  <2>1. scores' = [scores EXCEPT ![i].status = "SUPERSEDED",
                                 ![r] = Inserted(r, "CONFIRMED")]
    BY <1>8 DEF Publish
  <2>2. /\ scores[i] \in Row /\ i # r
        /\ [scores[i] EXCEPT !.status = "SUPERSEDED"] \in Row
        /\ [scores[i] EXCEPT !.status = "SUPERSEDED"].status = "SUPERSEDED"
    BY <1>1, <1>3, <1>4, <1>8 DEF Row, RowStatus
  <2>3. Inserted(r, "CONFIRMED") \in Row /\ Inserted(r, "CONFIRMED").status = "CONFIRMED"
    BY <1>1 DEF Inserted, Row, RowStatus
  <2>4. /\ scores'[r] = Inserted(r, "CONFIRMED")
        /\ scores'[i] = [scores[i] EXCEPT !.status = "SUPERSEDED"]
        /\ \A j \in Rows : j # r /\ j # i => scores'[j] = scores[j]
        /\ scores' \in [Rows -> Row]
    BY <1>1, <1>3, <2>1, <2>2, <2>3
  <2>5. \A j \in Rows : Present(j) => Present(j)'
    BY <1>2, <2>2, <2>3, <2>4 DEF Present, Absent
  <2> QED BY <1>2, <1>3, <1>4, <1>5, <1>8, <2>4, <2>5
<1>9. call[r].op \in {"Create", "Update", "Supersede"}
  BY <1>3 DEF Call
<1> QED BY <1>6, <1>7, <1>8, <1>9

\* The commit.
LEMMA CommitIInv ==
  ASSUME IInv, NEW r \in Requests, Commit(r)
  PROVE  IInv'
<1> DEFINE i == call[r].row
<1>1. pc[r] = "commit" /\ Publish(r) /\ \E a \in {"ok", "error"} : Finish(r, a)
  BY DEF Commit
<1>2. PICK a \in Answer : Finish(r, a)
  BY <1>1 DEF Answer
<1>3. /\ CallOK(r) /\ LockOK(r) /\ r \in Rows
  BY DEF IInv, Rows
<1>4. ~Present(r) /\ call[r] \in Call /\ i \in Rows
  BY <1>1, PublishRows DEF Call
<1>5. TypeOK'
  <2>1. scores' \in [Rows -> Row]
    BY <1>1, PublishRows
  <2>2. audit' \subseteq AuditRow
    <3>1. Created(r) \in AuditRow /\ Updated(i, r) \in AuditRow
      BY <1>3, <1>4 DEF Created, Updated, AuditRow
    <3> QED BY <1>1, <3>1 DEF Publish, IInv, TypeOK
  <2> QED BY <2>1, <2>2, <1>2, FinishTypes DEF TypeOK, IInv
<1>6. ASSUME NEW q \in Requests PROVE (CallOK(q) /\ RowOK(q) /\ LockOK(q))'
  <2>1. CallOK(q) /\ RowOK(q) /\ LockOK(q) /\ q \in Rows
    BY DEF IInv, Rows
  <2>2. call' = call /\ (q # r => pc'[q] = pc[q]) /\ pc'[r] = "done"
    BY <1>2, FinishTypes DEF IInv, TypeOK
  <2>3. CallOK(q)'
    BY <2>1, <2>2, <1>1 DEF CallOK
  <2>4. CASE q = r
    <3>1. call[r].op = "Update" => ~Present(r)'
      BY <1>1, <1>4, PublishRows DEF Present
    <3>2. call[r].op \in {"Create", "Update", "Supersede"}
      BY <1>4 DEF Call
    <3>3. call[r].op # "Create" => Present(i)'
      BY <1>1, <1>4, <2>2, PublishRows DEF Present
    <3>4. RowOK(r)'
      BY <2>2, <3>1, <3>2, <3>3 DEF RowOK
    <3>5. LockOK(r)'
      BY <2>2 DEF LockOK
    <3> QED BY <2>3, <2>4, <3>4, <3>5
  <2>5. CASE q # r
    <3>1. call[q].op # "Create" /\ pc[q] # "idle" => call[q].row \in Rows
      BY <2>1 DEF CallOK, Call
    <3>2. Present(q) => Present(q)'
      BY <1>1, <2>1, PublishRows
    <3>3. Present(q)' => Present(q) \/ q = i
      BY <1>1, <2>1, <2>5, PublishRows DEF Present
    <3>4. q = i => Present(q) \/ call[r].op = "Create"
      BY <1>1, PublishRows
    <3>5. call[r].op = "Create" => i = r
      BY <1>3, <1>1 DEF CallOK, WellFormed
    <3>6. Present(q)' <=> Present(q)
      BY <3>2, <3>3, <3>4, <3>5, <2>5
    <3>7. RowOK(q)'
      <4>1. call[q].op \in {"Update", "Supersede"} /\ (pc[q] \in {"update", "commit"} \/ Present(q))
              => Present(call[q].row) /\ call[q].row \in Rows
        BY <2>1, <3>1 DEF RowOK
      <4>2. call[q].op \in {"Update", "Supersede"} /\ (pc[q] \in {"update", "commit"} \/ Present(q))
              => Present(call[q].row)'
        BY <1>1, <2>2, <4>1, PublishRows DEF Present
      <4> QED BY <2>1, <2>2, <2>5, <3>6, <4>2 DEF RowOK
    <3>8. LockOK(q)'
      <4>1. pc[q] = "commit" /\ call[q].op # "Create" => rowLock[call[q].row] = q
        BY <2>1 DEF LockOK
      <4>2. pc[q] = "commit" /\ call[q].op # "Create" => rowLock'[call[q].row] = q
        BY <4>1, <3>1, <2>5, <1>2, FinishTypes DEF IInv
      <4>3. pc[q] = "commit" /\ call[q].op # "Create" => call[q].row # i \/ call[r].op = "Create"
        BY <4>1, <1>1, <1>3, <2>5 DEF LockOK
      <4>4. pc[q] = "commit" /\ call[q].op # "Create" => Present(call[q].row)
        BY <2>1, <3>1 DEF RowOK, CallOK, Call
      <4>5. pc[q] = "commit" /\ call[q].op # "Create" =>
              call[q].row # r /\ call[q].row # i
        BY <4>3, <4>4, <3>5, <1>4
      <4>6. pc[q] = "commit" /\ call[q].op # "Create" =>
              scores'[call[q].row] = scores[call[q].row]
        BY <4>5, <3>1, <1>1, PublishRows
      <4> QED BY <2>1, <2>2, <2>5, <4>2, <4>6 DEF LockOK
    <3> QED BY <2>3, <3>7, <3>8
  <2> QED BY <2>4, <2>5
<1>7. SeedsOK'
  BY <1>1, PublishRows DEF IInv, SeedsOK, Rows
<1> QED BY <1>5, <1>6, <1>7 DEF IInv

\* The invariant is inductive.
LEMMA StepIInv == IInv /\ [Next]_vars => IInv'
<1> SUFFICES ASSUME IInv, [Next]_vars PROVE IInv'
  OBVIOUS
<1>1. CASE UNCHANGED vars
  BY <1>1 DEF vars, IInv, TypeOK, CallOK, RowOK, LockOK, SeedsOK, Present
<1>2. ASSUME NEW r \in Requests,
             Arrive(r) \/ Read(r) \/ Update(r) \/ Commit(r) \/ Abort(r)
      PROVE  IInv'
  <2>1. CASE Arrive(r)
    BY <2>1, ArriveIInv
  <2>2. CASE Read(r)
    BY <2>2, ReadIInv
  <2>3. CASE Update(r)
    BY <2>3, UpdateIInv
  <2>4. CASE Commit(r)
    BY <2>4, CommitIInv
  <2>5. CASE Abort(r)
    <3>1. "error" \in Answer
      BY DEF Answer
    <3> QED BY <2>5, <3>1, ReturnIInv DEF Abort
  <2> QED BY <1>2, <2>1, <2>2, <2>3, <2>4, <2>5
<1> QED BY <1>1, <1>2 DEF Next

\* The invariant holds in every reachable state.
THEOREM Invariance == Spec => []IInv
BY InitIInv, StepIInv, PTL DEF Spec

\* Every reachable state is well typed (TypeOK).
THEOREM TypeCorrect == Spec => []TypeOK
<1>1. IInv => TypeOK
  BY DEF IInv
<1> QED BY Invariance, <1>1, PTL

-----------------------------------------------------------------------------
\* Every step leaves the table alone, or is one call's commit; calls keep their
\* arguments, except that an idle one receives them.
LEMMA StepShape ==
  ASSUME IInv, [Next]_vars
  PROVE  /\ \A q \in Requests : pc[q] # "idle" => call'[q] = call[q]
         /\ \/ scores' = scores /\ audit' = audit
            \/ \E r \in Requests : pc[r] = "commit" /\ Publish(r) /\ call' = call
<1>1. CASE UNCHANGED vars
  BY <1>1 DEF vars
<1>2. ASSUME NEW r \in Requests, Arrive(r)
      PROVE  /\ \A q \in Requests : pc[q] # "idle" => call'[q] = call[q]
             /\ scores' = scores /\ audit' = audit
  BY <1>2 DEF Arrive, IInv, TypeOK
<1>3. ASSUME NEW r \in Requests, Read(r) \/ Update(r) \/ Abort(r)
      PROVE  call' = call /\ scores' = scores /\ audit' = audit
  BY <1>3 DEF Read, Update, Abort, Return, Finish
<1>4. ASSUME NEW r \in Requests, Commit(r)
      PROVE  pc[r] = "commit" /\ Publish(r) /\ call' = call
  BY <1>4 DEF Commit, Finish
<1> QED BY <1>1, <1>2, <1>3, <1>4 DEF Next

\* A row in force is replaced in one step, whatever else the store's callers do
\* (CorrectionIsAtomic).
THEOREM AtomicCorrection == Spec => CorrectionIsAtomic
<1> DEFINE Holds(q) ==
      call[q].op = "Supersede" /\ ~Present(q) /\ Present(q)' =>
         LET i == call[q].row IN
         /\ scores'[q].status = "CONFIRMED"
         /\ scores[i].status = "CONFIRMED"
         /\ scores'[i] = [scores[i] EXCEPT !.status = "SUPERSEDED"]
<1>1. IInv /\ [Next]_vars => \A q \in Requests : Holds(q)
  <2> SUFFICES ASSUME IInv, [Next]_vars, NEW q \in Requests,
                      call[q].op = "Supersede", ~Present(q), Present(q)'
               PROVE  Holds(q)
    BY DEF Present
  <2>1. scores' # scores
    BY DEF Present
  <2>2. PICK r \in Requests : pc[r] = "commit" /\ Publish(r)
    BY <2>1, StepShape
  <2>3. q \in Rows /\ CallOK(q) /\ RowOK(q) /\ CallOK(r)
    BY DEF IInv, Rows
  <2>4. q = r
    <3>1. q # r => q = call[r].row
      BY <2>2, <2>3, PublishRows DEF Present
    <3>2. q = call[r].row => call[r].op = "Create"
      BY <2>2, PublishRows
    <3>3. call[r].op = "Create" => call[r].row = r
      BY <2>2, <2>3 DEF CallOK, WellFormed
    <3> QED BY <3>1, <3>2, <3>3
  <2>5. /\ scores'[q] = Inserted(q, "CONFIRMED")
        /\ scores[call[q].row].status = "CONFIRMED"
        /\ scores'[call[q].row] = [scores[call[q].row] EXCEPT !.status = "SUPERSEDED"]
    BY <2>2, <2>4, PublishRows
  <2>6. scores'[q].status = "CONFIRMED"
    BY <2>5 DEF Inserted
  <2> QED BY <2>5, <2>6
<1>2. IInv /\ [Next]_vars => [\A q \in Requests : Holds(q)]_vars
  BY <1>1
<1>3. CorrectionIsAtomic <=> [][\A q \in Requests : Holds(q)]_vars
  BY DEF CorrectionIsAtomic
<1> QED BY Invariance, <1>2, <1>3, PTL DEF Spec

\* Who is about to update or to commit was so before, or passes its check now.
LEMMA Underway ==
  ASSUME IInv, [Next]_vars, NEW q \in Requests, pc'[q] \in {"update", "commit"},
         call'[q].op = "Update"
  PROVE  \/ pc[q] \in {"update", "commit"} /\ call'[q] = call[q]
         \/ /\ pc[q] = "read" /\ call'[q] = call[q] /\ scores' = scores
            /\ Refusal(q, scores[call[q].row].status) = "none"
<1> DEFINE i == call[q].row
<1>0. CallOK(q) /\ RowOK(q) /\ pc \in [Requests -> Step] /\ call \in [Requests -> Call \cup {NoCall}]
  BY DEF IInv, TypeOK
<1>1. CASE UNCHANGED vars
  BY <1>1 DEF vars
<1>2. ASSUME NEW r \in Requests, Arrive(r)
      PROVE  pc[q] \in {"update", "commit"} /\ call'[q] = call[q]
  <2>1. PICK c \in Call : /\ call' = [call EXCEPT ![r] = c]
                          /\ pc' = [pc EXCEPT ![r] = IF c.op = "Create" THEN "commit"
                                                                       ELSE "read"]
    BY <1>2 DEF Arrive
  <2>2. q # r
    BY <1>0, <2>1
  <2> QED BY <1>0, <2>1, <2>2
<1>3. ASSUME NEW r \in Requests, NEW a \in Answer, Finish(r, a)
      PROVE  pc[q] \in {"update", "commit"} /\ call'[q] = call[q]
  BY <1>0, <1>3 DEF Finish
<1>4. ASSUME NEW r \in Requests, Read(r)
      PROVE  \/ pc[q] \in {"update", "commit"} /\ call'[q] = call[q]
             \/ /\ pc[q] = "read" /\ call'[q] = call[q] /\ scores' = scores
                /\ Refusal(q, scores[i].status) = "none"
  <2> DEFINE s == scores[call[r].row].status
  <2>1. Refusal(r, s) \in Answer /\ "ok" \in Answer
    BY DEF Refusal, Answer
  <2>2. CASE Return(r, Refusal(r, s)) \/ Return(r, "ok")
    BY <2>1, <2>2, <1>3 DEF Return
  <2>3. CASE /\ Refusal(r, s) = "none" /\ pc' = [pc EXCEPT ![r] = "update"]
             /\ UNCHANGED <<scores, call>>
    <3>1. pc[r] = "read"
      BY <1>4 DEF Read
    <3> QED BY <1>0, <2>3, <3>1
  <2> QED BY <1>4, <2>2, <2>3 DEF Read
<1>5. ASSUME NEW r \in Requests, Update(r)
      PROVE  pc[q] \in {"update", "commit"} /\ call'[q] = call[q]
  <2>1. "notconfirmed" \in Answer
    BY DEF Answer
  <2>2. CASE Return(r, "notconfirmed")
    BY <2>1, <2>2, <1>3 DEF Return
  <2>3. CASE pc' = [pc EXCEPT ![r] = "commit"] /\ call' = call
    <3>1. pc[r] = "update"
      BY <1>5 DEF Update
    <3> QED BY <1>0, <2>3, <3>1
  <2> QED BY <1>5, <2>2, <2>3 DEF Update
<1>6. ASSUME NEW r \in Requests, Commit(r) \/ Abort(r)
      PROVE  pc[q] \in {"update", "commit"} /\ call'[q] = call[q]
  <2>1. "ok" \in Answer /\ "error" \in Answer
    BY DEF Answer
  <2> QED BY <1>6, <1>3, <2>1 DEF Commit, Abort, Return
<1> QED BY <1>1, <1>2, <1>4, <1>5, <1>6 DEF Next

\* The rows' audit trail is extended by the call that commits.
LEMMA PublishAudit ==
  ASSUME IInv, NEW r \in Requests, pc[r] = "commit", Publish(r)
  PROVE  /\ audit \subseteq audit'
         /\ call[r].op # "Create" => Updated(call[r].row, r) \in audit'
         /\ call[r].op # "Update" => Created(r) \in audit'
         /\ \A a \in audit' :
              \/ a \in audit
              \/ a = Created(r) /\ call[r].op # "Update"
              \/ a = Updated(call[r].row, r) /\ call[r].op # "Create"
<1>1. call[r].op \in {"Create", "Update", "Supersede"}
  BY DEF IInv, CallOK, Call
<1>2. CASE call[r].op = "Create"
  <2>1. audit' = audit \cup {Created(r)}
    BY <1>2 DEF Publish
  <2> QED BY <1>2, <2>1
<1>3. CASE call[r].op = "Update"
  <2>1. audit' = audit \cup {Updated(call[r].row, r)}
    BY <1>3 DEF Publish
  <2> QED BY <1>3, <2>1
<1>4. CASE call[r].op = "Supersede"
  <2>1. audit' = audit \cup {Created(r), Updated(call[r].row, r)}
    BY <1>4 DEF Publish
  <2> QED BY <1>4, <2>1
<1> QED BY <1>1, <1>2, <1>3, <1>4

\* AuditComplete is kept by every step.
LEMMA AuditStep == IInv /\ AuditComplete /\ [Next]_vars => AuditComplete'
<1> SUFFICES ASSUME IInv, AuditComplete, [Next]_vars PROVE AuditComplete'
  OBVIOUS
<1>0. /\ \A q \in Requests : Present(q) => pc[q] = "done"
      /\ \A q \in Requests : CallOK(q)
      /\ Requests \subseteq Rows
  BY DEF IInv, RowOK, Rows
<1>1. CASE scores' = scores /\ audit' = audit
  <2>1. \A i \in Rows : Present(i)' <=> Present(i)
    BY <1>1 DEF Present
  <2>2. \A q \in Requests : Present(q) => call'[q] = call[q]
    BY <1>0, StepShape
  <2>3. \A i \in Rows : Replacements(i)' = Replacements(i)
    BY <2>2, <1>1 DEF Replacements, Present
  <2>4. ASSUME NEW i \in Rows, Present(i) PROVE Born(i)' = Born(i)
    BY <2>2, <2>4 DEF Born
  <2>5. ASSUME NEW i \in Rows, Present(i)'
        PROVE  /\ {a \in audit' : a.row = i /\ a.action = "SCORE_CREATED"} = {Created(i)}
               /\ scores'[i].value # i => Updated(i, scores'[i].value) \in audit'
               /\ scores'[i].meta # i => Updated(i, scores'[i].meta) \in audit'
               /\ \A q \in Replacements(i)' : Updated(i, q) \in audit'
               /\ scores'[i].status # Born(i)' => \E q \in Requests : Updated(i, q) \in audit'
    BY <2>1, <2>3, <2>4, <2>5, <1>1 DEF AuditComplete
  <2>6. \A a \in audit' : Present(a.row)'
    BY <1>1 DEF AuditComplete, Present
  <2> QED BY <2>5, <2>6 DEF AuditComplete
<1>2. ASSUME NEW r \in Requests, pc[r] = "commit", Publish(r), call' = call
      PROVE  AuditComplete'
  <2> DEFINE j == call[r].row
  <2>1. /\ ~Present(r) /\ call[r] \in Call /\ WellFormed(call[r], r) /\ j \in Rows
        /\ r \in Rows /\ (call[r].op # "Create" => j # r /\ Present(j))
        /\ call[r].op = "Create" => j = r
    BY <1>2, <1>0, PublishRows DEF Call, WellFormed
  <2>0. /\ call[r].op \in {"Create", "Update", "Supersede"}
        /\ call[r].op = "Create" => scores'[r] = Inserted(r, "DRAFT")
        /\ call[r].op = "Supersede" => scores'[r] = Inserted(r, "CONFIRMED")
        /\ call[r].op = "Update" => scores'[r] = scores[r]
        /\ call[r].op = "Update" => scores'[j] = Rewritten(scores[j], call[r], r)
        /\ \A i \in Rows : i # r /\ i # j => scores'[i] = scores[i]
        /\ \A i \in Rows : Present(i) => Present(i)'
    BY <1>2, PublishRows
  <2>2. \A a \in audit' : Present(a.row)'
    <3>1. \A a \in audit : a.row \in Rows /\ Present(a.row)
      BY DEF AuditComplete, IInv, TypeOK, AuditRow
    <3>2. \A a \in audit : Present(a.row)'
      BY <3>1, <1>2, PublishRows DEF Present
    <3>3. call[r].op # "Update" => Present(r)'
      BY <2>0 DEF Present, Inserted, Absent
    <3>4. call[r].op # "Create" => Present(j)'
      BY <1>2, <2>1, PublishRows DEF Present
    <3>5. Created(r).row = r /\ Updated(j, r).row = j
      BY DEF Created, Updated
    <3> QED BY <3>2, <3>3, <3>4, <3>5, <1>2, PublishAudit DEF Present
  <2>3. \A i \in Rows : Born(i)' = Born(i)
    BY <1>2 DEF Born
  <2>4. \A q \in Requests : q # r => (Present(q)' <=> Present(q))
    <3> SUFFICES ASSUME NEW q \in Requests, q # r PROVE Present(q)' <=> Present(q)
      OBVIOUS
    <3>1. q = j => Present(q)
      BY <2>1
    <3>2. q # j => scores'[q] = scores[q]
      BY <2>0, <1>0
    <3> QED BY <3>1, <3>2, <2>0, <1>0 DEF Present
  <2>5. ASSUME NEW i \in Rows, NEW q \in Replacements(i)' PROVE Updated(i, q) \in audit'
    <3>1. q \in Requests /\ call[q].op = "Supersede" /\ call[q].row = i /\ Present(q)'
      BY <2>5, <1>2 DEF Replacements
    <3>2. CASE q = r
      BY <3>1, <3>2, <1>2, PublishAudit
    <3>3. CASE q # r
      <4>1. Present(q) /\ Present(i)
        BY <3>1, <3>3, <2>4 DEF IInv, RowOK
      <4>2. Updated(i, q) \in audit
        BY <4>1, <3>1 DEF AuditComplete, Replacements
      <4> QED BY <4>2, <1>2, PublishAudit
    <3> QED BY <3>2, <3>3
  <2>6. ASSUME NEW i \in Rows, Present(i)'
        PROVE  /\ {a \in audit' : a.row = i /\ a.action = "SCORE_CREATED"} = {Created(i)}
               /\ scores'[i].value # i => Updated(i, scores'[i].value) \in audit'
               /\ scores'[i].meta # i => Updated(i, scores'[i].meta) \in audit'
               /\ scores'[i].status # Born(i)' => \E q \in Requests : Updated(i, q) \in audit'
    <3>1. CASE i = r
      <4>1. call[r].op # "Update"
        BY <3>1, <2>1, <2>6, <1>2, PublishRows DEF Present
      <4>2. /\ scores'[r].value = r /\ scores'[r].meta = r
            /\ scores'[r].status = (IF call[r].op = "Create" THEN "DRAFT" ELSE "CONFIRMED")
        BY <4>1, <2>0 DEF Inserted
      <4>3. Born(r)' = scores'[r].status
        BY <4>2, <1>2, DistinctRows DEF Born
      <4>4. \A a \in audit : a.row # r
        BY <2>1 DEF AuditComplete
      <4>5. {a \in audit' : a.row = r /\ a.action = "SCORE_CREATED"} = {Created(r)}
        <5>1. /\ Created(r).row = r /\ Created(r).action = "SCORE_CREATED"
              /\ Updated(j, r).action = "SCORE_UPDATED"
          BY DEF Created, Updated
        <5> QED BY <5>1, <4>1, <4>4, <1>2, PublishAudit
      <4> QED BY <3>1, <4>2, <4>3, <4>5
    <3>2. CASE i = j /\ i # r
      <4>1. call[r].op \in {"Update", "Supersede"} /\ Present(i)
        BY <3>2, <2>1 DEF Call
      <4>2. Updated(i, r) \in audit'
        BY <4>1, <3>2, <1>2, PublishAudit
      <4>3. {a \in audit' : a.row = i /\ a.action = "SCORE_CREATED"} = {Created(i)}
        <5>1. {a \in audit : a.row = i /\ a.action = "SCORE_CREATED"} = {Created(i)}
          BY <4>1 DEF AuditComplete
        <5>2. Created(r).row = r /\ Updated(j, r).action = "SCORE_UPDATED"
          BY DEF Created, Updated
        <5> QED BY <5>1, <5>2, <3>2, <1>2, PublishAudit
      <4>4. /\ scores[i].value # i => Updated(i, scores[i].value) \in audit'
            /\ scores[i].meta # i => Updated(i, scores[i].meta) \in audit'
        BY <4>1, <1>2, PublishAudit DEF AuditComplete
      <4>5. scores'[i].value \in {scores[i].value, r} /\ scores'[i].meta \in {scores[i].meta, r}
        <5>1. CASE call[r].op = "Update"
          BY <5>1, <3>2, <2>0 DEF Rewritten
        <5>2. CASE call[r].op = "Supersede"
          <6>1. scores'[i] = [scores[i] EXCEPT !.status = "SUPERSEDED"]
            BY <5>2, <3>2, <1>2, PublishRows
          <6>2. scores[i] \in Row
            BY DEF IInv, TypeOK
          <6> QED BY <6>1, <6>2 DEF Row
        <5> QED BY <5>1, <5>2, <4>1
      <4> QED BY <4>2, <4>3, <4>4, <4>5
    <3>3. CASE i # j /\ i # r
      <4>1. scores'[i] = scores[i] /\ Present(i)
        BY <3>3, <2>6, <1>2, PublishRows DEF Present
      <4>2. {a \in audit' : a.row = i /\ a.action = "SCORE_CREATED"} = {Created(i)}
        <5>1. {a \in audit : a.row = i /\ a.action = "SCORE_CREATED"} = {Created(i)}
          BY <4>1 DEF AuditComplete
        <5>2. Created(r).row = r /\ Updated(j, r).row = j
          BY DEF Created, Updated
        <5> QED BY <5>1, <5>2, <3>3, <1>2, PublishAudit
      <4> QED BY <4>1, <4>2, <2>3, <1>2, PublishAudit DEF AuditComplete
    <3> QED BY <3>1, <3>2, <3>3
  <2> QED BY <2>2, <2>5, <2>6 DEF AuditComplete
<1> QED BY <1>1, <1>2, StepShape

\* Nothing a committed row holds is unaccounted for (AuditComplete).
THEOREM AuditTrail == Spec => []AuditComplete
<1>1. Init => AuditComplete
  <2> SUFFICES ASSUME Init PROVE AuditComplete
    OBVIOUS
  <2>1. \A i \in Rows : Present(i) <=> i \in Drafts \cup Confirmed
    BY DEF Init, Present, Inserted, NoRow, Absent
  <2>2. \A q \in Requests : ~Present(q) /\ call[q] = NoCall
    BY <2>1, DistinctRows DEF Init, Rows
  <2>3. ASSUME NEW i \in Rows, Present(i)
        PROVE  /\ scores[i] = Inserted(i, Born(i)) /\ Replacements(i) = {}
               /\ i \in Drafts \cup Confirmed
    BY <2>1, <2>2, <2>3, DistinctRows DEF Init, Born, Replacements
  <2>4. \A i \in Rows : Inserted(i, Born(i)).value = i /\ Inserted(i, Born(i)).meta = i
                        /\ Inserted(i, Born(i)).status = Born(i)
    BY DEF Inserted
  <2>5. \A a \in audit : Present(a.row)
    BY <2>1 DEF Init, Created, Rows
  <2>6. \A i \in Drafts \cup Confirmed :
          {a \in audit : a.row = i /\ a.action = "SCORE_CREATED"} = {Created(i)}
    BY DEF Init, Created
  <2> QED BY <2>3, <2>4, <2>5, <2>6 DEF AuditComplete
<1> QED BY <1>1, Invariance, AuditStep, PTL DEF Spec

-----------------------------------------------------------------------------
(* Overwritten values, whatever status callers pass.  Only a row that was  *)
(* inserted as a DRAFT is ever confirmed, because the status a confirming  *)
(* call has read was DRAFT, and a row never is a DRAFT again.              *)
(***************************************************************************)

\* A row that is or was found to be a DRAFT began as one, and so did a CONFIRMED row
\* whose score fields a call is going to set.
DraftsOK ==
  /\ \A i \in Rows : scores[i].status = "DRAFT" => Born(i) = "DRAFT"
  /\ \A r \in Requests :
       pc[r] \in {"update", "commit"} /\ call[r].op = "Update" =>
         /\ call[r].status = "CONFIRMED" => Born(call[r].row) = "DRAFT"
         /\ call[r].fields /\ scores[call[r].row].status = "CONFIRMED"
              => Born(call[r].row) = "DRAFT"

\* A row that was confirmed has a confirmer on record, whose call is over.
ConfirmersOK ==
  /\ \A i \in Rows : scores[i].status = "CONFIRMED" /\ Born(i) = "DRAFT" => Confirmers(i) # {}
  /\ \A i \in Rows, r \in Requests : Updated(i, r) \in audit => pc[r] = "done"

\* A row keeps the status it was inserted with.
LEMMA BornStays ==
  ASSUME IInv, [Next]_vars, NEW i \in Rows, Present(i)
  PROVE  Born(i)' = Born(i)
<1>1. i \in Requests => pc[i] = "done"
  BY DEF IInv, RowOK
<1>2. i \in Requests => call'[i] = call[i]
  BY <1>1, StepShape
<1> QED BY <1>2 DEF Born

\* Whose call is over stays so.
LEMMA DoneStays ==
  ASSUME IInv, [Next]_vars, NEW q \in Requests, pc[q] = "done"
  PROVE  pc'[q] = "done"
<1>1. pc \in [Requests -> Step]
  BY DEF IInv, TypeOK
<1>2. ASSUME NEW r \in Requests, NEW a, Finish(r, a) PROVE pc'[q] = "done"
  BY <1>1, <1>2 DEF Finish
<1>3. ASSUME NEW r \in Requests, pc[r] # "done", NEW s, pc' = [pc EXCEPT ![r] = s]
      PROVE  pc'[q] = "done"
  BY <1>1, <1>3
<1>4. CASE UNCHANGED vars
  BY <1>4 DEF vars
<1>5. ASSUME NEW r \in Requests, Arrive(r) PROVE pc'[q] = "done"
  BY <1>3, <1>5 DEF Arrive
<1>6. ASSUME NEW r \in Requests, Read(r) PROVE pc'[q] = "done"
  BY <1>2, <1>3, <1>6 DEF Read, Return
<1>7. ASSUME NEW r \in Requests, Update(r) PROVE pc'[q] = "done"
  BY <1>2, <1>3, <1>7 DEF Update, Return
<1>8. ASSUME NEW r \in Requests, Commit(r) \/ Abort(r) PROVE pc'[q] = "done"
  BY <1>2, <1>8 DEF Commit, Abort, Return
<1> QED BY <1>4, <1>5, <1>6, <1>7, <1>8 DEF Next

\* What a commit makes of a row: it is as it was, or new with the status it was born
\* with, or superseded by a correction, or rewritten by an update.
LEMMA RowFate ==
  ASSUME IInv, NEW r \in Requests, pc[r] = "commit", Publish(r), call' = call, NEW i \in Rows
  PROVE  \/ scores'[i] = scores[i]
         \/ i = r /\ ~Present(i) /\ scores'[i].status = Born(i)'
         \/ /\ call[r].op = "Supersede" /\ call[r].row = i
            /\ scores'[i] = [scores[i] EXCEPT !.status = "SUPERSEDED"]
         \/ /\ call[r].op = "Update" /\ call[r].row = i
            /\ scores'[i] = Rewritten(scores[i], call[r], r)
<1>1. /\ ~Present(r) /\ call[r].op \in {"Create", "Update", "Supersede"}
      /\ call[r].op = "Create" => call[r].row = r /\ scores'[r] = Inserted(r, "DRAFT")
      /\ call[r].op = "Supersede" => scores'[r] = Inserted(r, "CONFIRMED")
      /\ call[r].op = "Update" => scores'[r] = scores[r]
      /\ call[r].op = "Supersede" =>
           scores'[call[r].row] = [scores[call[r].row] EXCEPT !.status = "SUPERSEDED"]
      /\ call[r].op = "Update" =>
           scores'[call[r].row] = Rewritten(scores[call[r].row], call[r], r)
      /\ \A k \in Rows : k # r /\ k # call[r].row => scores'[k] = scores[k]
  BY PublishRows
<1>2. CASE i = r /\ call[r].op \in {"Create", "Supersede"}
  <2>1. r \notin Drafts
    BY DistinctRows
  <2>2. Born(r)' = IF call[r].op = "Create" THEN "DRAFT" ELSE "CONFIRMED"
    BY <2>1 DEF Born
  <2>3. scores'[r].status = IF call[r].op = "Create" THEN "DRAFT" ELSE "CONFIRMED"
    BY <1>1, <1>2 DEF Inserted
  <2> QED BY <1>1, <1>2, <2>2, <2>3
<1>3. CASE i = r /\ call[r].op = "Update"
  BY <1>1, <1>3
<1>4. CASE i # r /\ i # call[r].row
  BY <1>1, <1>4
<1>5. CASE i # r /\ i = call[r].row
  BY <1>1, <1>5
<1> QED BY <1>1, <1>2, <1>3, <1>4, <1>5

\* How the status of a row comes about: it is kept, is the one the row was born with,
\* is SUPERSEDED, or is what a confirming update of a row that was there has set.
LEMMA RowStatusAfter ==
  ASSUME IInv, [Next]_vars, NEW i \in Rows
  PROVE  \/ scores'[i].status = scores[i].status /\ (Present(i)' => Present(i))
         \/ ~Present(i) /\ scores'[i].status = Born(i)'
         \/ scores'[i].status = "SUPERSEDED"
         \/ \E r \in Requests :
              /\ pc[r] = "commit" /\ Publish(r) /\ call' = call
              /\ call[r].op = "Update" /\ call[r].row = i /\ Present(i)
              /\ call[r].status = "CONFIRMED" /\ scores'[i].status = "CONFIRMED"
<1>1. CASE scores' = scores
  BY <1>1 DEF Present
<1>2. ASSUME NEW r \in Requests, pc[r] = "commit", Publish(r), call' = call,
             scores'[i].status # scores[i].status
      PROVE  \/ ~Present(i) /\ scores'[i].status = Born(i)'
             \/ scores'[i].status = "SUPERSEDED"
             \/ /\ call[r].op = "Update" /\ call[r].row = i /\ Present(i)
                /\ call[r].status = "CONFIRMED" /\ scores'[i].status = "CONFIRMED"
  <2>1. scores[i] \in Row
    BY DEF IInv, TypeOK
  <2>2. CASE /\ call[r].op = "Supersede" /\ call[r].row = i
             /\ scores'[i] = [scores[i] EXCEPT !.status = "SUPERSEDED"]
    BY <2>1, <2>2 DEF Row
  <2>3. CASE /\ call[r].op = "Update" /\ call[r].row = i
             /\ scores'[i] = Rewritten(scores[i], call[r], r)
    <3>1. call[r].status \in {"none", "CONFIRMED", "SUPERSEDED"} /\ Present(i)
      BY <1>2, <2>3, PublishRows
    <3>2. scores'[i].status = IF call[r].status = "none" THEN scores[i].status
                                                         ELSE call[r].status
      BY <2>3 DEF Rewritten
    <3> QED BY <1>2, <2>3, <3>1, <3>2
  <2> QED BY <1>2, <2>2, <2>3, RowFate
<1> QED BY <1>1, <1>2, StepShape DEF Present

\* DraftsOK is kept by every step.
LEMMA DraftsStep == ASSUME IInv, DraftsOK, [Next]_vars PROVE DraftsOK'
<1>1. ASSUME NEW r \in Requests, call[r].op = "Update", pc[r] \in {"update", "commit"}
      PROVE  call[r].row \in Rows /\ Present(call[r].row)
  BY <1>1 DEF IInv, CallOK, RowOK, Call
<1>2. ASSUME NEW i \in Rows, scores'[i].status = "DRAFT" PROVE Born(i)' = "DRAFT"
  <2>1. Present(i)'
    BY <1>2 DEF Present, Absent
  <2>2. CASE scores'[i].status = scores[i].status /\ Present(i)
    BY <1>2, <2>2, BornStays DEF DraftsOK
  <2>3. CASE ~Present(i) /\ scores'[i].status = Born(i)'
    BY <1>2, <2>3
  <2> QED BY <1>2, <2>1, <2>2, <2>3, RowStatusAfter
<1>3. ASSUME NEW i \in Rows, Present(i), scores'[i].status = "CONFIRMED",
             scores[i].status # "CONFIRMED"
      PROVE  Born(i) = "DRAFT"
  <2>1. PICK r \in Requests : /\ pc[r] = "commit" /\ call[r].op = "Update"
                              /\ call[r].row = i /\ call[r].status = "CONFIRMED"
    BY <1>3, RowStatusAfter
  <2> QED BY <2>1 DEF DraftsOK
<1>4. ASSUME NEW q \in Requests, pc'[q] \in {"update", "commit"}, call'[q].op = "Update"
      PROVE  /\ call'[q].status = "CONFIRMED" => Born(call[q].row)' = "DRAFT"
             /\ call'[q].fields /\ scores'[call'[q].row].status = "CONFIRMED"
                  => Born(call[q].row)' = "DRAFT"
  <2>1. call[q] \in Call /\ call'[q] = call[q]
    <3>1. pc[q] # "idle" /\ call'[q] = call[q]
      BY <1>4, Underway
    <3> QED BY <3>1 DEF IInv, CallOK
  <2>2. PICK i \in Rows : i = call[q].row
    BY <2>1 DEF Call
  <2>3. scores[i].status \in RowStatus \cup {Absent}
    BY DEF IInv, TypeOK, Row
  <2>4. Born(call[q].row)' = Born(i)'
    BY <2>1, <2>2 DEF Born
  <2>5. CASE pc[q] \in {"update", "commit"}
    <3>1. Present(i) /\ Born(i)' = Born(i)
      BY <1>1, <1>4, <2>1, <2>2, <2>5, BornStays
    <3>2. call[q].status = "CONFIRMED" => Born(i) = "DRAFT"
      BY <1>4, <2>1, <2>2, <2>5 DEF DraftsOK
    <3>3. call[q].fields /\ scores'[i].status = "CONFIRMED" => Born(i) = "DRAFT"
      BY <1>3, <1>4, <2>1, <2>2, <2>5, <3>1 DEF DraftsOK
    <3> QED BY <2>1, <2>2, <2>4, <3>1, <3>2, <3>3
  <2>6. CASE pc[q] = "read" /\ scores' = scores /\ Refusal(q, scores[i].status) = "none"
    <3>1. Present(i) /\ Born(i)' = Born(i)
      BY <2>6, BornStays DEF Refusal, Present
    <3>2. ~(scores[i].status = "CONFIRMED" /\ call[q].fields)
      BY <1>4, <2>1, <2>6 DEF Refusal, Absent
    <3>3. call[q].status = "CONFIRMED" => scores[i].status = "DRAFT"
      BY <1>4, <2>1, <2>3, <2>6, <3>1, <3>2 DEF Refusal, ValidTransition, Present, Absent
    <3>4. call[q].status = "CONFIRMED" => Born(i) = "DRAFT"
      BY <3>3 DEF DraftsOK
    <3>5. scores'[i].status # "CONFIRMED" \/ ~call[q].fields
      BY <2>6, <3>2
    <3> QED BY <2>1, <2>2, <2>4, <3>1, <3>4, <3>5
  <2>7. \/ pc[q] \in {"update", "commit"}
        \/ pc[q] = "read" /\ scores' = scores /\ Refusal(q, scores[call[q].row].status) = "none"
    BY <1>4, Underway
  <2> QED BY <2>2, <2>5, <2>6, <2>7
<1> QED BY <1>2, <1>4 DEF DraftsOK

\* A change of the audit is some call's commit, which ends the call.
LEMMA CommitEnds ==
  ASSUME IInv, [Next]_vars, audit' # audit
  PROVE  \E r \in Requests : pc[r] = "commit" /\ Publish(r) /\ pc'[r] = "done"
<1>1. PICK r \in Requests : Arrive(r) \/ Read(r) \/ Update(r) \/ Commit(r) \/ Abort(r)
  BY DEF Next, vars
<1>2. Commit(r)
  BY <1>1 DEF Arrive, Read, Update, Abort, Return
<1> QED BY <1>2 DEF Commit, Finish, IInv, TypeOK

\* ConfirmersOK is kept by every step: calls on record stay there.
LEMMA ConfirmersStep == ASSUME IInv, ConfirmersOK, [Next]_vars PROVE ConfirmersOK'
<1>0. \A q \in Requests : CallOK(q)
  BY DEF IInv
<1>1. audit \subseteq audit'
  BY StepShape, PublishAudit
<1>2. ASSUME NEW i \in Rows PROVE Confirmers(i) \subseteq Confirmers(i)'
  <2>1. \A q \in Confirmers(i) : q \in Requests /\ pc[q] = "done"
    BY DEF Confirmers, ConfirmersOK
  <2>2. \A q \in Confirmers(i) : call'[q] = call[q]
    BY <2>1, StepShape
  <2>3. \A q \in Confirmers(i) : Updated(i, q) \in audit'
    BY <1>1 DEF Confirmers
  <2> QED BY <2>2, <2>3 DEF Confirmers
<1>3. ASSUME NEW i \in Rows, scores'[i].status = "CONFIRMED", Born(i)' = "DRAFT"
      PROVE  Confirmers(i)' # {}
  <2>1. Present(i)'
    BY <1>3 DEF Present, Absent
  <2>2. CASE scores'[i].status = scores[i].status /\ Present(i)
    <3>1. Born(i) = "DRAFT"
      BY <1>3, <2>2, BornStays
    <3> QED BY <1>2, <1>3, <2>2, <3>1 DEF ConfirmersOK
  <2>3. ASSUME NEW r \in Requests, pc[r] = "commit", Publish(r), call' = call,
               call[r].op = "Update", call[r].row = i, call[r].status = "CONFIRMED"
        PROVE  r \in Confirmers(i)'
    BY <2>3, PublishAudit DEF Confirmers
  <2> QED BY <1>3, <2>1, <2>2, <2>3, RowStatusAfter
<1>4. ASSUME NEW i \in Rows, NEW q \in Requests, Updated(i, q) \in audit'
      PROVE  pc'[q] = "done"
  <2>1. CASE Updated(i, q) \in audit
    BY <2>1, DoneStays DEF ConfirmersOK
  <2>2. CASE Updated(i, q) \notin audit
    <3>1. PICK r \in Requests : pc[r] = "commit" /\ Publish(r) /\ pc'[r] = "done"
      BY <1>4, <2>2, CommitEnds
    <3>2. /\ Updated(i, q).action = "SCORE_UPDATED" /\ Updated(i, q).by = q
          /\ Created(r).action = "SCORE_CREATED"
          /\ Updated(call[r].row, r).by = r
      BY DEF Updated, Created
    <3>3. q = r
      BY <1>4, <2>2, <3>1, <3>2, PublishAudit
    <3> QED BY <3>1, <3>3
  <2> QED BY <2>1, <2>2
<1> QED BY <1>3, <1>4 DEF ConfirmersOK

\* A value in force is overwritten only in the race OverwritesNeedARace describes,
\* whatever status callers pass to UpdateScore.
THEOREM OverwritesRaced == Spec => OverwritesNeedARace
<1> DEFINE Holds(i) == scores[i].status = "CONFIRMED" =>
       /\ scores'[i].status = "CONFIRMED" => Overwriters(i)' \subseteq Overwriters(i)
       /\ scores'[i].value # scores[i].value =>
            /\ Born(i) = "DRAFT"
            /\ scores'[i].value \in Overwriters(i)
            /\ \E q \in Confirmers(i) : q # scores'[i].value
<1>1. ASSUME IInv, DraftsOK, ConfirmersOK, [Next]_vars, NEW i \in Rows,
             scores[i].status = "CONFIRMED"
      PROVE  Holds(i)
  <2>1. ASSUME NEW q \in Overwriters(i)' PROVE q \in Overwriters(i)
    <3>1. /\ q \in Requests /\ pc'[q] \in {"update", "commit"}
          /\ call'[q].op = "Update" /\ call'[q].row = i /\ call'[q].fields
      BY DEF Overwriters
    <3>2. \/ pc[q] \in {"update", "commit"} /\ call'[q] = call[q]
          \/ call'[q] = call[q] /\ Refusal(q, scores[call[q].row].status) = "none"
      BY <1>1, <3>1, Underway
    <3>3. CASE pc[q] \in {"update", "commit"} /\ call'[q] = call[q]
      BY <3>1, <3>3 DEF Overwriters
    <3>4. CASE call'[q] = call[q] /\ Refusal(q, scores[call[q].row].status) = "none"
      BY <1>1, <3>1, <3>4 DEF Refusal, Absent
    <3> QED BY <3>2, <3>3, <3>4
  <2>2. ASSUME scores'[i].value # scores[i].value
        PROVE  /\ Born(i) = "DRAFT"
               /\ scores'[i].value \in Overwriters(i)
               /\ \E q \in Confirmers(i) : q # scores'[i].value
    <3>1. PICK r \in Requests : pc[r] = "commit" /\ Publish(r) /\ call' = call
      BY <1>1, <2>2, StepShape
    <3>2. Present(i) /\ scores[i] \in Row
      BY <1>1 DEF Present, Absent, IInv, TypeOK
    <3>3. ~(scores'[i] = [scores[i] EXCEPT !.status = "SUPERSEDED"])
      BY <2>2, <3>2 DEF Row
    <3>4. /\ call[r].op = "Update" /\ call[r].row = i
          /\ scores'[i] = Rewritten(scores[i], call[r], r)
      BY <1>1, <2>2, <3>1, <3>2, <3>3, RowFate
    <3>5. call[r].fields /\ scores'[i].value = r
      BY <2>2, <3>4 DEF Rewritten
    <3>6. r \in Overwriters(i)
      BY <3>1, <3>4, <3>5 DEF Overwriters
    <3>7. Born(i) = "DRAFT"
      BY <1>1, <3>1, <3>4, <3>5 DEF DraftsOK
    <3>8. PICK q \in Confirmers(i) : TRUE
      BY <1>1, <3>7 DEF ConfirmersOK
    <3>9. pc[q] = "done"
      BY <1>1, <3>8 DEF Confirmers, ConfirmersOK
    <3> QED BY <3>1, <3>5, <3>6, <3>7, <3>8, <3>9
  <2> QED BY <2>1, <2>2
<1>2. Init => DraftsOK /\ ConfirmersOK
  <2> SUFFICES ASSUME Init PROVE DraftsOK /\ ConfirmersOK
    OBVIOUS
  <2>1. ASSUME NEW i \in Rows, Present(i) PROVE scores[i].status = Born(i)
    BY <2>1, DistinctRows DEF Init, Present, Born, Inserted, NoRow
  <2>2. \A i \in Rows, r \in Requests : Updated(i, r) \notin audit
    BY DEF Init, Updated, Created
  <2> QED BY <2>1, <2>2 DEF Init, DraftsOK, ConfirmersOK, Present, Absent
<1>3. IInv /\ DraftsOK /\ ConfirmersOK /\ [Next]_vars => (DraftsOK /\ ConfirmersOK)'
  BY DraftsStep, ConfirmersStep
<1>4. IInv /\ DraftsOK /\ ConfirmersOK /\ [Next]_vars => [\A i \in Rows : Holds(i)]_vars
  BY <1>1
<1>5. OverwritesNeedARace <=> [][\A i \in Rows : Holds(i)]_vars
  BY DEF OverwritesNeedARace
<1> QED BY Invariance, <1>2, <1>3, <1>4, <1>5, PTL DEF Spec

-----------------------------------------------------------------------------
\* The rest assumes that no caller passes CONFIRMED to UpdateScore, as the
\* handlers do not.  Then a row that is there keeps its status or is superseded.
LEMMA StatusMoves ==
  ASSUME NoOneConfirms, IInv, [Next]_vars, NEW i \in Rows, Present(i)
  PROVE  scores'[i].status \in {scores[i].status, "SUPERSEDED"}
<1>1. CASE scores' = scores
  BY <1>1
<1>2. ASSUME NEW r \in Requests, pc[r] = "commit", Publish(r)
      PROVE  scores'[i].status \in {scores[i].status, "SUPERSEDED"}
  <2> DEFINE j == call[r].row
  <2>1. /\ ~Present(r)
        /\ call[r].op \in {"Create", "Update", "Supersede"}
        /\ call[r].op = "Create" => j = r
        /\ call[r].op = "Supersede" => scores'[j] = [scores[j] EXCEPT !.status = "SUPERSEDED"]
        /\ call[r].op = "Update" => scores'[j] = Rewritten(scores[j], call[r], r)
        /\ \A k \in Rows : k # r /\ k # j => scores'[k] = scores[k]
        /\ call[r].op = "Update" => call[r].status \in {"none", "CONFIRMED", "SUPERSEDED"}
    BY <1>2, PublishRows
  <2>2. i # r /\ scores[i] \in Row
    BY <2>1 DEF IInv, TypeOK
  <2>3. CASE i # j
    BY <2>1, <2>2, <2>3
  <2>4. CASE i = j /\ call[r].op = "Supersede"
    BY <2>1, <2>2, <2>4 DEF Row
  <2>5. CASE i = j /\ call[r].op = "Update"
    <3>1. call[r].status \in {"none", "SUPERSEDED"}
      BY <1>2, <2>1, <2>5 DEF IInv, CallOK, Call, NoOneConfirms
    <3> QED BY <2>1, <2>5, <3>1 DEF Rewritten
  <2> QED BY <2>1, <2>2, <2>3, <2>4, <2>5
<1> QED BY <1>1, <1>2, StepShape

\* The check of CONFIRMED rows stays true until the commit.
LEMMA GuardStep ==
  ASSUME NoOneConfirms, IInv, GuardOK, [Next]_vars
  PROVE  GuardOK'
<1> SUFFICES ASSUME NEW q \in Requests, pc'[q] \in {"update", "commit"},
                    call'[q].op = "Update", call'[q].fields
             PROVE  scores'[call'[q].row].status # "CONFIRMED"
  BY DEF GuardOK
<1> DEFINE i == call[q].row
<1>0. CallOK(q) /\ RowOK(q) /\ pc \in [Requests -> Step] /\ call \in [Requests -> Call \cup {NoCall}]
  BY DEF IInv, TypeOK
<1>1. \/ pc[q] \in {"update", "commit"} /\ call'[q] = call[q]
      \/ /\ pc[q] = "read" /\ call'[q] = call[q] /\ scores' = scores
         /\ Refusal(q, scores[i].status) = "none"
  BY Underway
<1>2. CASE pc[q] \in {"update", "commit"} /\ call'[q] = call[q]
  <2>1. scores[i].status # "CONFIRMED"
    BY <1>2 DEF GuardOK
  <2>2. i \in Rows /\ Present(i)
    BY <1>0, <1>2 DEF CallOK, RowOK, Call
  <2> QED BY <1>2, <2>1, <2>2, StatusMoves
<1>3. CASE /\ pc[q] = "read" /\ call'[q] = call[q] /\ scores' = scores
           /\ Refusal(q, scores[i].status) = "none"
  <2>1. scores[i].status # "CONFIRMED"
    BY <1>3 DEF Refusal, Absent
  <2> QED BY <1>3, <2>1
<1> QED BY <1>1, <1>2, <1>3

\* Corrections of the same row exclude each other.
LEMMA ReplacedOnceStep ==
  ASSUME NoOneConfirms, IInv, ReplacedOnce, [Next]_vars
  PROVE  ReplacedOnce'
<1>0. \A q \in Requests : CallOK(q) /\ RowOK(q) /\ q \in Rows
  BY DEF IInv, Rows
<1>1. CASE scores' = scores
  <2>1. \A q \in Requests : Present(q) => call'[q] = call[q]
    BY <1>0, StepShape DEF RowOK
  <2>2. \A i \in Rows : Replacements(i)' = Replacements(i)
    BY <1>1, <2>1 DEF Replacements, Present
  <2> QED BY <1>1, <2>2 DEF ReplacedOnce
<1>2. ASSUME NEW r \in Requests, pc[r] = "commit", Publish(r), call' = call
      PROVE  ReplacedOnce'
  <2> DEFINE j == call[r].row
  <2>1. /\ ~Present(r)
        /\ call[r].op \in {"Create", "Update", "Supersede"}
        /\ call[r].op = "Create" => j = r
        /\ call[r].op # "Create" => j # r /\ Present(j)
        /\ call[r].op = "Supersede" => scores[j].status = "CONFIRMED"
        /\ call[r].op = "Supersede" => scores'[j] = [scores[j] EXCEPT !.status = "SUPERSEDED"]
        /\ call[r].op = "Update" => scores'[r] = scores[r]
        /\ \A k \in Rows : k # r /\ k # j => scores'[k] = scores[k]
    BY <1>2, PublishRows
  <2>2. j \in Rows
    BY <1>0, <1>2 DEF CallOK, Call
  <2>3. ASSUME NEW q \in Requests, q # r PROVE Present(q)' => Present(q)
    BY <2>1, <2>3, <1>0 DEF Present
  <2>4. ASSUME NEW i \in Rows, NEW q \in Replacements(i)'
        PROVE  \/ q \in Replacements(i)
               \/ q = r /\ i = j /\ call[r].op = "Supersede"
    BY <2>3, <1>2 DEF Replacements
  <2>5. \A i \in Rows : i # j \/ call[r].op # "Supersede" =>
                          Replacements(i)' \subseteq Replacements(i)
    BY <2>4
  <2>6. ASSUME NEW i \in Rows, i = j, call[r].op = "Supersede"
        PROVE  Replacements(i)' \subseteq {r}
    <3>1. Replacements(i) = {}
      BY <2>1, <2>6 DEF ReplacedOnce
    <3> QED BY <2>4, <3>1
  <2>7. ASSUME NEW i \in Rows
        PROVE  /\ \A q, p \in Replacements(i)' : q = p
               /\ scores'[i].status # "SUPERSEDED" => Replacements(i)' = {}
    <3>1. CASE i = j /\ call[r].op = "Supersede"
      <4>1. scores'[i].status = "SUPERSEDED"
        BY <3>1, <2>1, <2>2 DEF IInv, TypeOK, Row
      <4> QED BY <3>1, <2>6, <4>1
    <3>2. CASE (i # j \/ call[r].op # "Supersede") /\ Present(i)
      <4>1. scores'[i].status # "SUPERSEDED" => scores[i].status # "SUPERSEDED"
        BY <3>2, StatusMoves
      <4> QED BY <3>2, <2>5, <4>1 DEF ReplacedOnce
    <3>3. CASE (i # j \/ call[r].op # "Supersede") /\ ~Present(i)
      <4>1. Replacements(i) = {}
        BY <3>3, <1>0 DEF Replacements, RowOK
      <4> QED BY <3>3, <2>5, <4>1
    <3> QED BY <3>1, <3>2, <3>3
  <2> QED BY <2>7 DEF ReplacedOnce
<1> QED BY <1>1, <1>2, StepShape

\* Both hold in every reachable state.
LEMMA NInvariance == ASSUME NoOneConfirms PROVE Spec => [](IInv /\ NInv)
<1>1. Init => NInv
  BY InitIInv DEF Init, NInv, GuardOK, ReplacedOnce, Replacements, NoCall
<1>2. IInv /\ NInv /\ [Next]_vars => NInv'
  BY GuardStep, ReplacedOnceStep DEF NInv
<1> QED BY Invariance, <1>1, <1>2, PTL DEF Spec

\* A score is corrected at most once, and a row in force was not replaced
\* (ReplacedOnce).
THEOREM CorrectedOnce == ASSUME NoOneConfirms PROVE Spec => []ReplacedOnce
<1>1. NInv => ReplacedOnce
  BY DEF NInv
<1> QED BY NInvariance, <1>1, PTL

-----------------------------------------------------------------------------
(* Score implements ScoreLedger.  A call takes effect at its commit, where *)
(* GuardOK and the row's lock make what it checked true of the row it      *)
(* changes; it is turned down where it reads the row, or where its UPDATE  *)
(* matches none.                                                           *)
(***************************************************************************)

\* Who has been answered is done.
AnswerOK == \A r \in Requests : answer[r] # "none" => pc[r] = "done"

LEMMA AnswerStep == TypeOK /\ AnswerOK /\ [Next]_vars => AnswerOK'
<1> SUFFICES ASSUME TypeOK, AnswerOK, [Next]_vars PROVE AnswerOK'
  OBVIOUS
<1>1. CASE UNCHANGED vars
  BY <1>1 DEF vars, AnswerOK
<1>2. ASSUME NEW r \in Requests, NEW a, Finish(r, a) PROVE AnswerOK'
  BY <1>2 DEF Finish, AnswerOK, TypeOK
<1>3. ASSUME NEW r \in Requests, NEW s \in Step, pc[r] # "done",
             pc' = [pc EXCEPT ![r] = s], answer' = answer
      PROVE  AnswerOK'
  BY <1>3 DEF AnswerOK, TypeOK
<1>4. ASSUME NEW r \in Requests, Arrive(r) PROVE AnswerOK'
  BY <1>3, <1>4 DEF Arrive, Step
<1>5. ASSUME NEW r \in Requests, Read(r) PROVE AnswerOK'
  BY <1>2, <1>3, <1>5 DEF Read, Return, Step
<1>6. ASSUME NEW r \in Requests, Update(r) PROVE AnswerOK'
  BY <1>2, <1>3, <1>6 DEF Update, Return, Step
<1>7. ASSUME NEW r \in Requests, Commit(r) \/ Abort(r) PROVE AnswerOK'
  BY <1>2, <1>7 DEF Commit, Abort, Return
<1> QED BY <1>1, <1>4, <1>5, <1>6, <1>7 DEF Next

\* The end of a call is its answer in the ledger.
LEMMA FinishAnswers ==
  ASSUME IInv, AnswerOK, NEW r \in Requests, NEW a, pc[r] \notin {"idle", "done"}, Finish(r, a)
  PROVE  Ledger!Open(r) /\ Ledger!Answer(r, a)
<1>1. CallOK(r) /\ call[r] \in Call /\ answer[r] = "none"
  BY DEF IInv, CallOK, AnswerOK
<1>2. call[r] # Ledger!NoQuestion
  <2>1. call[r].op \in {"Create", "Update", "Supersede"}
    BY <1>1 DEF Call
  <2> QED BY <2>1 DEF Ledger!NoQuestion
<1> QED BY <1>1, <1>2 DEF Finish, Ledger!Open, Ledger!Answer

\* The sentinels of the check are reasons the ledger gives.
LEMMA RefusalIsTrue ==
  ASSUME NEW r \in Requests, call[r] \in Call, call[r].op # "Create",
         NEW s \in RowStatus \cup {Absent}, s = scores[call[r].row].status,
         Refusal(r, s) # "none"
  PROVE  Refusal(r, s) \in Ledger!Refusals(r)
<1>1. /\ call[r].op \in {"Update", "Supersede"} /\ call[r].fields \in BOOLEAN
      /\ call[r].status \in RowStatus \cup {"none"}
  BY StatusOpsAssumption DEF Call
<1>2. Ledger!Status(r) = s
  BY DEF Ledger!Status
<1>3. CASE s = Absent
  <2>1. Refusal(r, s) = "notfound"
    BY <1>3 DEF Refusal, Absent
  <2> QED BY <1>2, <1>3, <2>1 DEF Ledger!Refusals, Absent
<1>4. CASE s # Absent /\ call[r].op = "Supersede"
  <2>1. s # "CONFIRMED" /\ Refusal(r, s) = "notconfirmed"
    BY <1>4 DEF Refusal, Absent
  <2> QED BY <1>2, <1>4, <2>1 DEF Ledger!Refusals
<1>5. CASE s # Absent /\ call[r].op = "Update" /\ s = "CONFIRMED" /\ call[r].fields
  <2>1. Refusal(r, s) = "immutable"
    BY <1>5 DEF Refusal, Absent
  <2> QED BY <1>2, <1>5, <2>1 DEF Ledger!Refusals
<1>6. CASE s # Absent /\ call[r].op = "Update" /\ ~(s = "CONFIRMED" /\ call[r].fields)
  <2>1. /\ Refusal(r, s) = "badstatus" /\ call[r].status # "none"
        /\ ~ValidTransition(s, call[r].status)
    BY <1>6 DEF Refusal, Absent
  <2>2. s = call[r].status \/ ~Ledger!MayBecome(s, call[r].status)
    BY <1>1, <1>6, <2>1 DEF ValidTransition, Ledger!MayBecome, RowStatus, Absent
  <2> QED BY <1>2, <1>6, <2>1, <2>2 DEF Ledger!Refusals
<1> QED BY <1>1, <1>3, <1>4, <1>5, <1>6

\* A call that ends without a commit is turned down for a true reason, has nothing to
\* do, or fails.
LEMMA ReturnMaps ==
  ASSUME IInv, AnswerOK, NEW r \in Requests, pc[r] \notin {"idle", "done"}, NEW a,
         Return(r, a), \/ a \in Ledger!Refusals(r) \cup {"error"}
                       \/ a = "ok" /\ Ledger!Idle(r)
  PROVE  Ledger!Next
<1>1. Finish(r, a) /\ UNCHANGED <<scores, audit>>
  BY DEF Return
<1>2. Ledger!Open(r) /\ Ledger!Answer(r, a)
  BY <1>1, FinishAnswers
<1>3. Ledger!Decline(r)
  BY <1>1, <1>2 DEF Ledger!Decline
<1> QED BY <1>2, <1>3 DEF Ledger!Next

\* A commit is the call's effect, on a row that still is as it was checked.
LEMMA CommitMaps ==
  ASSUME NoOneConfirms, IInv, GuardOK, AnswerOK, NEW r \in Requests, Commit(r)
  PROVE  Ledger!Next
<1> DEFINE i == call[r].row
<1>1. pc[r] = "commit" /\ Publish(r) /\ \E a \in {"ok", "error"} : Finish(r, a)
  BY DEF Commit
<1>2. Ledger!Open(r) /\ Ledger!Effect(r)
  BY <1>1, FinishAnswers DEF Ledger!Effect
<1>3. /\ call[r] \in Call /\ WellFormed(call[r], r)
      /\ scores[r].status = "ABSENT" /\ Ledger!Status(r) = scores[i].status
      /\ call[r].op # "Create" => scores[i].status # "ABSENT"
      /\ call[r].op = "Supersede" => scores[i].status = "CONFIRMED"
  BY <1>1, PublishRows DEF Present, Absent, Ledger!Status
<1>4. CASE call[r].op = "Create"
  <2>1. i = r
    BY <1>3, <1>4 DEF WellFormed
  <2>2. /\ scores' = [scores EXCEPT ![r] = Inserted(r, "DRAFT")]
        /\ audit' = audit \cup {Created(r)}
    BY <1>1, <1>4 DEF Publish
  <2>3. Ledger!Create(r)
    BY <1>2, <1>3, <1>4, <2>1, <2>2
       DEF Ledger!Create, Ledger!Entry, Ledger!Event, Inserted, Created
  <2> QED BY <1>2, <2>3 DEF Ledger!Next
<1>5. CASE call[r].op = "Update"
  <2>1. /\ scores' = [scores EXCEPT ![i] = Rewritten(scores[i], call[r], r)]
        /\ audit' = audit \cup {Updated(i, r)}
    BY <1>1, <1>5 DEF Publish
  <2>2. call[r].fields => scores[i].status # "CONFIRMED"
    BY <1>1, <1>5 DEF GuardOK
  <2>3. call[r].status # "none" => call[r].status = "SUPERSEDED"
    BY <1>1, <1>3, <1>5, PublishRows DEF NoOneConfirms, Call
  <2>4. Rewritten(scores[i], call[r], r) =
          [status |-> IF call[r].status # "none" THEN call[r].status ELSE scores[i].status,
           value  |-> IF call[r].fields THEN r ELSE scores[i].value,
           meta   |-> IF call[r].meta THEN r ELSE scores[i].meta]
    BY DEF Rewritten
  <2>5. Ledger!Revise(r)
    BY <1>2, <1>3, <1>5, <2>1, <2>2, <2>3, <2>4
       DEF Ledger!Revise, Ledger!MayBecome, Ledger!Event, Updated
  <2> QED BY <1>2, <2>5 DEF Ledger!Next
<1>6. CASE call[r].op = "Supersede"
  <2>1. /\ scores' = [scores EXCEPT ![i].status = "SUPERSEDED",
                                    ![r] = Inserted(r, "CONFIRMED")]
        /\ audit' = audit \cup {Created(r), Updated(i, r)}
    BY <1>1, <1>6 DEF Publish
  <2>2. Ledger!Correct(r)
    BY <1>2, <1>3, <1>6, <2>1
       DEF Ledger!Correct, Ledger!Entry, Ledger!Event, Inserted, Created, Updated
  <2> QED BY <1>2, <2>2 DEF Ledger!Next
<1>7. call[r].op \in {"Create", "Update", "Supersede"}
  BY <1>3 DEF Call
<1> QED BY <1>4, <1>5, <1>6, <1>7

\* Every step of a call is a step on the ledger or leaves it as it is.
LEMMA StepMaps ==
  ASSUME NoOneConfirms, IInv, GuardOK, AnswerOK, [Next]_vars
  PROVE  [Ledger!Next]_(Ledger!vars)
<1> DEFINE Still == UNCHANGED <<scores, audit, call, answer>>
<1>1. CASE UNCHANGED vars
  BY <1>1 DEF vars, Ledger!vars
<1>2. ASSUME NEW r \in Requests, Arrive(r) PROVE Ledger!Next
  <2>1. PICK c \in Call : WellFormed(c, r) /\ call' = [call EXCEPT ![r] = c]
    BY <1>2 DEF Arrive
  <2>2. c \in Ledger!Question
    BY DEF Call, Rows, Ledger!Question, Ledger!Rows
  <2>3. call[r] = Ledger!NoQuestion
    BY <1>2 DEF Arrive, IInv, CallOK, NoCall, Ledger!NoQuestion
  <2>4. Ledger!Ask(r)
    BY <1>2, <2>1, <2>2, <2>3 DEF Arrive, WellFormed, Ledger!Ask
  <2> QED BY <2>4 DEF Ledger!Next
<1>3. ASSUME NEW r \in Requests, Read(r) PROVE Still \/ Ledger!Next
  <2> DEFINE s == scores[call[r].row].status
  <2>1. /\ pc[r] = "read" /\ call[r] \in Call /\ call[r].op # "Create"
        /\ s \in RowStatus \cup {Absent}
    BY <1>3 DEF Read, IInv, TypeOK, CallOK, LockOK, Call, Row
  <2>2. CASE Refusal(r, s) # "none" /\ Return(r, Refusal(r, s))
    <3>1. Refusal(r, s) \in Ledger!Refusals(r)
      BY <2>1, <2>2, RefusalIsTrue
    <3> QED BY <2>1, <2>2, <3>1, ReturnMaps
  <2>3. CASE Refusal(r, s) = "none" /\ IsNoop(call[r]) /\ Return(r, "ok")
    <3>1. s # Absent
      BY <2>3 DEF Refusal
    <3>2. Ledger!Idle(r)
      BY <2>3, <3>1 DEF IsNoop, Absent, Ledger!Idle, Ledger!Status
    <3> QED BY <2>1, <2>3, <3>2, ReturnMaps
  <2>4. CASE UNCHANGED <<scores, audit, rowLock, call, answer>>
    BY <2>4
  <2> QED BY <1>3, <2>2, <2>3, <2>4 DEF Read
<1>4. ASSUME NEW r \in Requests, Update(r) PROVE Still \/ Ledger!Next
  <2>1. pc[r] = "update"
    BY <1>4 DEF Update
  <2>2. CASE ~Matches(r) /\ Return(r, "notconfirmed")
    <3>1. "notconfirmed" \in Ledger!Refusals(r)
      BY <2>2 DEF Matches, Ledger!Refusals, Ledger!Status
    <3> QED BY <2>1, <2>2, <3>1, ReturnMaps
  <2>3. CASE UNCHANGED <<scores, audit, call, answer>>
    BY <2>3
  <2> QED BY <1>4, <2>2, <2>3 DEF Update
<1>5. ASSUME NEW r \in Requests, Abort(r) PROVE Ledger!Next
  BY <1>5, ReturnMaps DEF Abort
<1> QED BY <1>1, <1>2, <1>3, <1>4, <1>5, CommitMaps DEF Next, Ledger!vars

\* Score implements ScoreLedger, for any calls and rows, when nobody confirms: every
\* behaviour of the calls, with their races and failures, is one of atomic steps.
THEOREM LedgerRefinement == ASSUME NoOneConfirms PROVE Spec => ImplementsLedger
<1>1. Init => Ledger!Init
  <2> SUFFICES ASSUME Init PROVE Ledger!Init
    OBVIOUS
  <2>1. /\ scores = [i \in Rows |-> IF i \in Drafts THEN Inserted(i, "DRAFT")
                                    ELSE IF i \in Confirmed THEN Inserted(i, "CONFIRMED")
                                    ELSE NoRow]
    BY DistinctRows DEF Init
  <2> QED BY <2>1 DEF Init, Ledger!Init, Rows, Ledger!Rows, Inserted, NoRow, Absent, Created,
                      NoCall, Ledger!Entry, Ledger!Blank, Ledger!Event, Ledger!NoQuestion
<1>2. Init => AnswerOK
  BY DEF Init, AnswerOK
<1>3. IInv => TypeOK
  BY DEF IInv
<1>4. IInv /\ NInv /\ AnswerOK /\ [Next]_vars => [Ledger!Next]_(Ledger!vars)
  BY StepMaps DEF NInv
<1> QED BY <1>1, <1>2, <1>3, <1>4, AnswerStep, NInvariance, PTL
        DEF Spec, ImplementsLedger, Ledger!Spec

-----------------------------------------------------------------------------
(* Waiting: a call waits for the lock of one row.                          *)

Active(r) == pc[r] \notin {"idle", "done"}

\* A call is not kept waiting.
Ready(r) ==
  \/ pc[r] \in {"read", "commit"}
  \/ pc[r] = "update" /\ rowLock[call[r].row] = NoReq

\* Who holds a row has left the wait for it behind.
HoldersActive == \A i \in Rows : rowLock[i] # NoReq => pc[rowLock[i]] \in {"commit"}

\* As long as a call is in flight, some call can take its next step.
SomeoneReady == (\E r \in Requests : Active(r)) => \E r \in Requests : Ready(r)

\* How many steps a call is from its answer, at most.
Distance(r) ==
  CASE pc[r] = "idle" -> 4 [] pc[r] = "read" -> 3 [] pc[r] = "update" -> 2
    [] pc[r] = "commit" -> 1 [] OTHER -> 0

\* No step takes a call further from its answer, and each brings one nearer.
Nearer ==
  /\ \A r \in Requests : Distance(r)' <= Distance(r)
  /\ \E r \in Requests : Distance(r)' < Distance(r)

\* What a step of a call does to the waiting: it ends the call and gives its row
\* back, or takes the row, or goes on.
Ends(r) ==
  /\ Active(r) /\ pc'[r] = "done"
  /\ rowLock' = [i \in Rows |-> IF rowLock[i] = r THEN NoReq ELSE rowLock[i]]

Takes(r) ==
  /\ pc[r] = "update" /\ pc'[r] \in {"commit"}
  /\ rowLock' = [rowLock EXCEPT ![call[r].row] = r]

Goes(r) ==
  /\ \/ pc[r] = "idle" /\ pc'[r] \in {"read", "commit"}
     \/ pc[r] = "read" /\ pc'[r] = "update"
  /\ rowLock' = rowLock

LEMMA Steps ==
  ASSUME IInv, Next
  PROVE  \E r \in Requests : /\ \A q \in Requests \ {r} : pc'[q] = pc[q]
                             /\ Ends(r) \/ Takes(r) \/ Goes(r)
<1>1. PICK r \in Requests : Arrive(r) \/ Read(r) \/ Update(r) \/ Commit(r) \/ Abort(r)
  BY DEF Next
<1>2. pc \in [Requests -> Step]
  BY DEF IInv, TypeOK
<1>3. ASSUME NEW a, Finish(r, a), Active(r)
      PROVE  (\A q \in Requests \ {r} : pc'[q] = pc[q]) /\ Ends(r)
  BY <1>2, <1>3 DEF Finish, Ends
<1>4. CASE Arrive(r)
  BY <1>2, <1>3, <1>4 DEF Arrive, Return, Ends, Takes, Goes, Active, Step
<1>5. CASE Read(r)
  BY <1>2, <1>3, <1>5 DEF Read, Return, Ends, Takes, Goes, Active, Step
<1>6. CASE Update(r)
  BY <1>2, <1>3, <1>6 DEF Update, Return, Ends, Takes, Goes, Active, Step
<1>7. CASE Commit(r)
  BY <1>2, <1>3, <1>7 DEF Commit, Return, Ends, Takes, Goes, Active, Step
<1>8. CASE Abort(r)
  BY <1>2, <1>3, <1>8 DEF Abort, Return, Ends, Takes, Goes, Active, Step
<1> QED BY <1>1, <1>4, <1>5, <1>6, <1>7, <1>8

LEMMA HoldersStep == ASSUME IInv, HoldersActive, [Next]_vars PROVE HoldersActive'
<1>1. CASE UNCHANGED vars
  BY <1>1 DEF vars, HoldersActive
<1>2. CASE Next
  <2>1. PICK r \in Requests : /\ \A q \in Requests \ {r} : pc'[q] = pc[q]
                              /\ Ends(r) \/ Takes(r) \/ Goes(r)
    BY <1>2, Steps
  <2>2. rowLock \in [Rows -> Requests \cup {NoReq}]
    BY DEF IInv, TypeOK
  <2>3. CASE Ends(r)
    BY <2>1, <2>2, <2>3 DEF Ends, HoldersActive
  <2>4. CASE Takes(r)
    BY <2>1, <2>2, <2>4 DEF Takes, HoldersActive
  <2>5. CASE Goes(r)
    BY <2>1, <2>2, <2>5 DEF Goes, HoldersActive
  <2> QED BY <2>1, <2>3, <2>4, <2>5
<1> QED BY <1>1, <1>2

\* Who is waited for has its own statements left, and waits for nothing.
LEMMA HoldersSuffice == ASSUME IInv, HoldersActive PROVE SomeoneReady
<1> SUFFICES ASSUME NEW r \in Requests, Active(r) PROVE \E q \in Requests : Ready(q)
  BY DEF SomeoneReady
<1>1. CASE Ready(r)
  BY <1>1
<1>2. CASE ~Ready(r)
  <2>1. pc[r] = "update" /\ rowLock[call[r].row] # NoReq
    BY <1>2 DEF Ready, IInv, TypeOK, Step, Active
  <2>2. call[r].row \in Rows
    BY <2>1 DEF IInv, CallOK, Call
  <2>3. rowLock[call[r].row] \in Requests /\ pc[rowLock[call[r].row]] \in {"commit"}
    BY <2>1, <2>2 DEF IInv, TypeOK, HoldersActive
  <2> QED BY <2>3 DEF Ready
<1> QED BY <1>1, <1>2

\* Updates and corrections that race for a row never make all calls wait: the lock is
\* taken by the statement after which only the audit and the commit are left.
THEOREM NoDeadlock == Spec => []SomeoneReady
<1>1. Init => HoldersActive
  BY DEF Init, HoldersActive
<1>2. IInv /\ HoldersActive /\ [Next]_vars => HoldersActive'
  BY HoldersStep
<1>3. IInv /\ HoldersActive => SomeoneReady
  BY HoldersSuffice
<1> QED BY <1>1, <1>2, <1>3, Invariance, PTL DEF Spec

\* Each step brings a call nearer to its answer and takes none further from it:
\* no handler retries, so finitely many calls take finitely many steps.
THEOREM EveryStepCounts == Spec => [][Nearer]_vars
<1>1. ASSUME IInv, Next PROVE Nearer
  <2>1. PICK r \in Requests : /\ \A q \in Requests \ {r} : pc'[q] = pc[q]
                              /\ Ends(r) \/ Takes(r) \/ Goes(r)
    BY <1>1, Steps
  <2>2. pc[r] \in Step
    BY <1>1 DEF IInv, TypeOK
  <2>3. Distance(r)' < Distance(r) /\ Distance(r)' <= Distance(r)
    BY <2>1, <2>2 DEF Ends, Takes, Goes, Distance, Step, Active
  <2>4. ASSUME NEW q \in Requests \ {r} PROVE Distance(q)' <= Distance(q)
    BY <2>1 DEF Distance
  <2> QED BY <2>3, <2>4 DEF Nearer
<1>2. IInv /\ [Next]_vars => [Nearer]_vars
  BY <1>1
<1> QED BY <1>2, Invariance, PTL DEF Spec
=============================================================================
