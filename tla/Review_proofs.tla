--------------------------- MODULE Review_proofs ----------------------------
(***************************************************************************)
(* Theorems about Review, for any calls and requests.                      *)
(*                                                                         *)
(* The argument: from the locking read to the commit the row is the        *)
(* caller's alone, so the status that was checked is the status the commit *)
(* finds, and a request that has been decided is never found decidable.    *)
(***************************************************************************)
EXTENDS Review, Integers, TLAPS

Present(i) == reviews[i].status # "ABSENT"

\* What is known of a call by where it is.
CallOK(r) ==
  /\ pc[r] = "idle" <=> call[r] = NoCall
  /\ call[r].op = "Submit" <=> call[r].row = r
  /\ Present(r) => pc[r] = "done" /\ call[r].op = "Submit"
  /\ pc[r] = "score" => call[r].op = "Submit"
  /\ pc[r] = "lock" => call[r].op # "Submit"
  /\ answer[r] # "none" => pc[r] = "done"

\* A row is changed under its lock, as the status that was checked allows, and as
\* the caller will be shown.
LockOK(r) ==
  /\ pc[r] \in {"write", "commit"} /\ call[r].op # "Submit" =>
       /\ rowLock[call[r].row] = r
       /\ <<reviews[call[r].row].status, Target(call[r].op)>> \in allowedReviewTransitions
  /\ pc[r] = "commit" => shown[r] = Written(reviews[call[r].row], r)

IInv == TypeOK /\ \A r \in Calls : CallOK(r) /\ LockOK(r)

-----------------------------------------------------------------------------
\* The initial state satisfies the invariant.
LEMMA InitIInv == Init => IInv
<1> SUFFICES ASSUME Init PROVE IInv
  OBVIOUS
<1>1. TypeOK
  <2>1. NoRow \in Row /\ \A i \in Submitted : Inserted(i, Nobody) \in Row
    BY DEF NoRow, Row, Inserted, Status, Rows
  <2>2. reviews \in [Rows -> Row]
    BY <2>1 DEF Init
  <2>3. audit \subseteq AuditRow
    BY DEF Init, AuditRow, Operation, Rows
  <2> QED BY <2>1, <2>2, <2>3 DEF Init, TypeOK, Step, Answer
<1>2. ASSUME NEW r \in Calls PROVE CallOK(r) /\ LockOK(r)
  <2>1. r \in Rows /\ r \notin Submitted /\ r # Nobody
    BY DistinctNames DEF Rows
  <2>2. ~Present(r)
    BY <2>1 DEF Init, Present, NoRow
  <2> QED BY <2>1, <2>2 DEF Init, CallOK, LockOK, NoCall
<1> QED BY <1>1, <1>2 DEF IInv

\* Ending a call.
LEMMA FinishTypes ==
  ASSUME TypeOK, NEW r \in Calls, NEW a \in Answer, Finish(r, a)
  PROVE  /\ rowLock' \in [Rows -> Calls \cup {Nobody}]
         /\ pc' \in [Calls -> Step] /\ pc' = [pc EXCEPT ![r] = "done"]
         /\ answer' \in [Calls -> Answer] /\ answer' = [answer EXCEPT ![r] = a]
         /\ call' = call
         /\ \A i \in Rows : rowLock[i] # r => rowLock'[i] = rowLock[i]
BY DEF TypeOK, Finish, Step

\* A step that changes no row and, of the calls, only one that stays lawful.
LEMMA QuietStep ==
  ASSUME IInv, NEW r \in Calls, reviews' = reviews, TypeOK',
         \A q \in Calls \ {r} : /\ pc'[q] = pc[q] /\ call'[q] = call[q]
                                /\ shown'[q] = shown[q] /\ answer'[q] = answer[q],
         \A q \in Calls \ {r}, i \in Rows : rowLock[i] = q => rowLock'[i] = q,
         CallOK(r)', LockOK(r)'
  PROVE  IInv'
<1>1. ASSUME NEW q \in Calls, q # r PROVE CallOK(q)' /\ LockOK(q)'
  <2>1. CallOK(q) /\ LockOK(q) /\ call[q] \in Call \cup {NoCall}
    BY DEF IInv, TypeOK
  <2>2. /\ pc'[q] = pc[q] /\ call'[q] = call[q] /\ shown'[q] = shown[q]
        /\ answer'[q] = answer[q]
    BY <1>1
  <2>3. CallOK(q)'
    BY <2>1, <2>2 DEF CallOK, Present
  <2>4. pc[q] # "idle" => call[q].row \in Rows
    BY <2>1 DEF CallOK, Call
  <2>5. Written(reviews[call[q].row], q)' = Written(reviews[call[q].row], q)
    BY <2>2 DEF Written, Updated
  <2>6. LockOK(q)'
    BY <1>1, <2>1, <2>2, <2>4, <2>5 DEF LockOK
  <2> QED BY <2>3, <2>6
<1> QED BY <1>1 DEF IInv

\* A call that ends without a commit disturbs nothing.
LEMMA ReturnIInv ==
  ASSUME IInv, NEW r \in Calls, pc[r] \notin {"idle", "done"},
         NEW a \in Answer, Return(r, a)
  PROVE  IInv'
<1>1. Finish(r, a) /\ reviews' = reviews /\ audit' = audit /\ shown' = shown
  BY DEF Return
<1>2. /\ call' = call /\ pc' = [pc EXCEPT ![r] = "done"] /\ answer' = [answer EXCEPT ![r] = a]
      /\ \A i \in Rows : rowLock[i] # r => rowLock'[i] = rowLock[i]
      /\ TypeOK'
  BY <1>1, FinishTypes DEF IInv, TypeOK
<1>3. \A q \in Calls \ {r} : pc'[q] = pc[q] /\ answer'[q] = answer[q]
  BY <1>2 DEF IInv, TypeOK
<1>4. pc'[r] = "done"
  BY <1>2 DEF IInv, TypeOK
<1>5. CallOK(r)' /\ LockOK(r)'
  BY <1>1, <1>2, <1>4 DEF IInv, CallOK, LockOK, Present
<1> QED BY <1>1, <1>2, <1>3, <1>5, QuietStep

\* The arrival of a call.
LEMMA ArriveIInv == ASSUME IInv, NEW r \in Calls, Arrive(r) PROVE IInv'
<1>1. PICK c \in Call : /\ c.op = "Submit" <=> c.row = r
                        /\ call' = [call EXCEPT ![r] = c]
                        /\ pc' = [pc EXCEPT ![r] = IF c.op = "Submit" THEN "score" ELSE "lock"]
  BY DEF Arrive
<1>2. pc[r] = "idle" /\ UNCHANGED <<reviews, audit, rowLock, shown, answer>>
  BY DEF Arrive
<1>3. TypeOK'
  BY <1>1, <1>2 DEF IInv, TypeOK, Step
<1>4. /\ pc'[r] = IF c.op = "Submit" THEN "score" ELSE "lock"
      /\ call'[r] = c /\ ~Present(r) /\ answer[r] = "none"
  BY <1>1, <1>2 DEF IInv, TypeOK, CallOK
<1>5. c # NoCall
  <2>1. c.op \in Operation
    BY DEF Call
  <2> QED BY <2>1 DEF NoCall, Operation
<1>6. CallOK(r)' /\ LockOK(r)'
  BY <1>1, <1>2, <1>4, <1>5 DEF CallOK, LockOK, Present
<1>7. \A q \in Calls \ {r} : pc'[q] = pc[q] /\ call'[q] = call[q]
  BY <1>1 DEF IInv, TypeOK
<1> QED BY <1>2, <1>3, <1>6, <1>7, QuietStep

\* The search for the score.
LEMMA FindScoreIInv == ASSUME IInv, NEW r \in Calls, FindScore(r) PROVE IInv'
<1>1. pc[r] = "score" /\ CallOK(r) /\ LockOK(r)
  BY DEF FindScore, IInv
<1>2. CASE Return(r, "notfound")
  BY <1>1, <1>2, ReturnIInv DEF Answer
<1>3. CASE /\ pc' = [pc EXCEPT ![r] = "write"]
           /\ UNCHANGED <<reviews, audit, rowLock, call, shown, answer>>
  <2>1. TypeOK'
    BY <1>3 DEF IInv, TypeOK, Step
  <2>2. pc'[r] = "write" /\ \A q \in Calls \ {r} : pc'[q] = pc[q]
    BY <1>3 DEF IInv, TypeOK
  <2>3. call[r].op = "Submit"
    BY <1>1 DEF CallOK
  <2>4. CallOK(r)' /\ LockOK(r)'
    BY <1>1, <1>3, <2>2, <2>3 DEF CallOK, LockOK, Present
  <2> QED BY <1>3, <2>1, <2>2, <2>4, QuietStep
<1> QED BY <1>2, <1>3 DEF FindScore

\* The lock and the check of the status.
LEMMA LockIInv == ASSUME IInv, NEW r \in Calls, Lock(r) PROVE IInv'
<1> DEFINE i == call[r].row
           refusal == Refusal(call[r].op, reviews[i].status)
<1>1. /\ pc[r] = "lock" /\ CallOK(r) /\ call[r] \in Call /\ i \in Rows /\ rowLock[i] = Nobody
      /\ call[r].op # "Submit" /\ call[r].op \in Operation
  <2>1. pc[r] = "lock" /\ CallOK(r) /\ rowLock[i] = Nobody
    BY DEF Lock, IInv
  <2>2. call[r] \in Call
    BY <2>1 DEF IInv, TypeOK, CallOK
  <2> QED BY <2>1, <2>2 DEF Call, CallOK
<1>2. CASE refusal # "none" /\ Return(r, refusal)
  <2>1. refusal \in Answer
    BY DEF Refusal, Answer
  <2> QED BY <1>1, <1>2, <2>1, ReturnIInv
<1>3. CASE /\ refusal = "none"
           /\ rowLock' = [rowLock EXCEPT ![i] = r]
           /\ pc' = [pc EXCEPT ![r] = "write"]
           /\ UNCHANGED <<reviews, audit, call, shown, answer>>
  <2>1. TypeOK'
    BY <1>1, <1>3 DEF IInv, TypeOK, Step
  <2>2. rowLock'[i] = r /\ pc'[r] = "write" /\ \A q \in Calls \ {r} : pc'[q] = pc[q]
    BY <1>1, <1>3 DEF IInv, TypeOK
  <2>3. <<reviews[i].status, Target(call[r].op)>> \in allowedReviewTransitions
    BY <1>3 DEF Refusal
  <2>4. CallOK(r)' /\ LockOK(r)'
    BY <1>1, <1>3, <2>2, <2>3 DEF CallOK, LockOK, Present
  <2>5. \A q \in Calls \ {r}, j \in Rows : rowLock[j] = q => rowLock'[j] = q
    BY <1>1, <1>3, DistinctNames DEF IInv, TypeOK
  <2> QED BY <1>3, <2>1, <2>2, <2>4, <2>5, QuietStep
<1> QED BY <1>2, <1>3 DEF Lock

\* The columns of an inserted and of an updated row.
LEMMA InsertedFields ==
  ASSUME NEW i, NEW comment
  PROVE  LET row == Inserted(i, comment) IN
         /\ row.status = "SUBMITTED" /\ row.reviewer = Nobody /\ row.reason = Nobody
         /\ row.comment = comment /\ row.creator = i /\ row.updater = i
BY DEF Inserted, NoRow

LEMMA UpdatedFields ==
  ASSUME NEW row \in Row, NEW r
  PROVE  LET new == Updated(row, r)
             op == call[r].op IN
         /\ new.status = Target(op) /\ new.updater = r /\ new.creator = row.creator
         /\ new.reviewer = IF op = "Assign" THEN r ELSE row.reviewer
         /\ new.reason = IF op = "Reject" THEN r ELSE row.reason
         /\ new.comment = IF call[r].comment THEN r ELSE row.comment
BY DEF Updated, Row

\* The row a call writes is a row.
LEMMA WrittenType ==
  ASSUME NEW r \in Calls, call[r] \in Call, NEW row \in Row
  PROVE  Written(row, r) \in Row
<1>1. Target(call[r].op) \in Status /\ r \in Rows
  <2>1. call[r].op \in Operation
    BY DEF Call
  <2> QED BY <2>1 DEF Target, Status, Operation, Rows
<1>2. Inserted(r, IF call[r].comment THEN r ELSE Nobody) \in Row
  <2>1. NoRow \in Row
    BY DEF NoRow, Row
  <2>2. (IF call[r].comment THEN r ELSE Nobody) \in Calls \cup {Nobody}
    OBVIOUS
  <2> QED BY <1>1, <2>1, <2>2 DEF Inserted, Row, Status
<1>3. Updated(row, r) \in Row
  BY <1>1 DEF Updated, Row
<1> QED BY <1>2, <1>3 DEF Written

\* The statements of a call, which nobody sees yet.
LEMMA WriteIInv == ASSUME IInv, NEW r \in Calls, Write(r) PROVE IInv'
<1> DEFINE i == call[r].row
<1>1. /\ pc[r] = "write" /\ CallOK(r) /\ LockOK(r)
      /\ shown' = [shown EXCEPT ![r] = Written(reviews[i], r)]
      /\ pc' = [pc EXCEPT ![r] = "commit"]
      /\ UNCHANGED <<reviews, audit, rowLock, call, answer>>
  BY DEF Write, IInv
<1>2. call[r] \in Call /\ i \in Rows
  BY <1>1 DEF IInv, TypeOK, CallOK, Call
<1>3. Written(reviews[i], r) \in Row
  BY <1>2, WrittenType DEF IInv, TypeOK
<1>4. TypeOK'
  BY <1>1, <1>3 DEF IInv, TypeOK, Step
<1>5. pc'[r] = "commit" /\ shown'[r] = Written(reviews[i], r)
  BY <1>1 DEF IInv, TypeOK
<1>6. Written(reviews[i], r)' = Written(reviews[i], r)
  BY <1>1 DEF Written, Updated
<1>7. CallOK(r)' /\ LockOK(r)'
  BY <1>1, <1>5, <1>6 DEF CallOK, LockOK, Present
<1>8. \A q \in Calls \ {r} : pc'[q] = pc[q] /\ shown'[q] = shown[q]
  BY <1>1 DEF IInv, TypeOK
<1> QED BY <1>1, <1>4, <1>7, <1>8, QuietStep

\* What a commit does to the table.
LEMMA CommitRows ==
  ASSUME IInv, NEW r \in Calls, Commit(r)
  PROVE  /\ pc[r] = "commit" /\ call[r] \in Call /\ call[r].row \in Rows
         /\ call[r].op \in Operation /\ CallOK(r) /\ LockOK(r)
         /\ reviews \in [Rows -> Row] /\ reviews' \in [Rows -> Row]
         /\ reviews'[call[r].row] = Written(reviews[call[r].row], r)
         /\ \A i \in Rows : i # call[r].row => reviews'[i] = reviews[i]
         /\ audit' = audit \cup {Recorded(r)}
         /\ call' = call /\ shown' = shown
         /\ pc' = [pc EXCEPT ![r] = "done"] /\ pc'[r] = "done"
         /\ \A q \in Calls \ {r} : pc'[q] = pc[q] /\ answer'[q] = answer[q]
         /\ \A i \in Rows : rowLock[i] # r => rowLock'[i] = rowLock[i]
<1>1. /\ pc[r] = "commit" /\ shown' = shown /\ audit' = audit \cup {Recorded(r)}
      /\ reviews' = [reviews EXCEPT ![call[r].row] = Written(@, r)]
      /\ \E a \in {"ok", "error"} : Finish(r, a)
  BY DEF Commit
<1>2. PICK a \in Answer : Finish(r, a)
  BY <1>1 DEF Answer
<1>3. call[r] \in Call /\ CallOK(r) /\ LockOK(r)
  BY <1>1 DEF IInv, TypeOK, CallOK
<1>4. call[r].row \in Rows /\ call[r].op \in Operation
  BY <1>3 DEF Call
<1>5. reviews \in [Rows -> Row] /\ Written(reviews[call[r].row], r) \in Row
  BY <1>3, <1>4, WrittenType DEF IInv, TypeOK
<1>6. /\ reviews' \in [Rows -> Row]
      /\ reviews'[call[r].row] = Written(reviews[call[r].row], r)
      /\ \A i \in Rows : i # call[r].row => reviews'[i] = reviews[i]
  BY <1>1, <1>4, <1>5
<1>7. /\ call' = call /\ pc' = [pc EXCEPT ![r] = "done"] /\ answer' = [answer EXCEPT ![r] = a]
      /\ \A i \in Rows : rowLock[i] # r => rowLock'[i] = rowLock[i]
  BY <1>2, FinishTypes DEF IInv
<1>8. pc'[r] = "done" /\ \A q \in Calls \ {r} : pc'[q] = pc[q] /\ answer'[q] = answer[q]
  BY <1>7 DEF IInv, TypeOK
<1> QED BY <1>1, <1>3, <1>4, <1>5, <1>6, <1>7, <1>8

\* Two calls are never in the way of each other's rows.
LEMMA OthersRow ==
  ASSUME IInv, NEW r \in Calls, Commit(r), NEW q \in Calls, q # r,
         pc[q] \in {"write", "commit"}
  PROVE  call[q].row # call[r].row
<1>1. /\ pc[r] = "commit" /\ CallOK(r) /\ LockOK(r) /\ CallOK(q) /\ LockOK(q)
      /\ call[r].row \in Rows
  BY CommitRows DEF IInv
<1>2. CASE call[q].op = "Submit"
  <2>1. call[q].row = q
    BY <1>1, <1>2 DEF CallOK
  <2>2. ~Present(q)
    BY <1>1 DEF CallOK
  <2>3. call[r].op # "Submit" => Present(call[r].row)
    BY <1>1 DEF LockOK, Present, allowedReviewTransitions
  <2>4. call[r].op = "Submit" => call[r].row = r
    BY <1>1 DEF CallOK
  <2> QED BY <2>1, <2>2, <2>3, <2>4
<1>3. CASE call[q].op # "Submit" /\ call[r].op = "Submit"
  <2>1. Present(call[q].row) /\ call[r].row = r /\ ~Present(r)
    BY <1>1, <1>3 DEF CallOK, LockOK, Present, allowedReviewTransitions
  <2> QED BY <2>1
<1>4. CASE call[q].op # "Submit" /\ call[r].op # "Submit"
  BY <1>1, <1>4 DEF LockOK
<1> QED BY <1>2, <1>3, <1>4

\* The commit.
LEMMA CommitIInv == ASSUME IInv, NEW r \in Calls, Commit(r) PROVE IInv'
<1> DEFINE i == call[r].row
<1>1. TypeOK'
  <2>1. \E a \in {"ok", "error"} : Finish(r, a)
    BY DEF Commit
  <2>2. PICK a \in Answer : Finish(r, a)
    BY <2>1 DEF Answer
  <2>3. Recorded(r) \in AuditRow
    BY CommitRows DEF Recorded, AuditRow, Rows
  <2>4. audit' \subseteq AuditRow
    BY <2>3, CommitRows DEF IInv, TypeOK
  <2>5. /\ rowLock' \in [Rows -> Calls \cup {Nobody}] /\ pc' \in [Calls -> Step]
        /\ answer' \in [Calls -> Answer]
    BY <2>2, FinishTypes DEF IInv
  <2>6. reviews' \in [Rows -> Row] /\ call' = call /\ shown' = shown
    BY CommitRows
  <2> QED BY <2>4, <2>5, <2>6 DEF IInv, TypeOK
<1>2. \A j \in Rows : Present(j)' => Present(j) \/ (j = r /\ call[r].op = "Submit")
  <2> SUFFICES ASSUME NEW j \in Rows, Present(j)', ~Present(j)
               PROVE  j = r /\ call[r].op = "Submit"
    OBVIOUS
  <2>1. j = i
    BY CommitRows DEF Present
  <2>2. call[r].op # "Submit" => Present(i)
    BY CommitRows DEF LockOK, Present, allowedReviewTransitions
  <2>3. call[r].op = "Submit" => i = r
    BY CommitRows DEF CallOK
  <2> QED BY <2>1, <2>2, <2>3
<1>3. ASSUME NEW q \in Calls PROVE CallOK(q)' /\ LockOK(q)'
  <2>1. CallOK(q) /\ LockOK(q) /\ q \in Rows /\ call' = call
    BY CommitRows DEF IInv, Rows
  <2>2. CASE q = r
    <3>1. pc'[q] = "done" /\ pc[q] = "commit" /\ (Present(q)' => call[q].op = "Submit")
      <4>1. ~Present(q)
        BY <2>2, CommitRows DEF CallOK
      <4> QED BY <1>2, <2>1, <2>2, <4>1, CommitRows
    <3> QED BY <2>1, <3>1 DEF CallOK, LockOK
  <2>3. CASE q # r
    <3>1. pc'[q] = pc[q] /\ answer'[q] = answer[q] /\ shown'[q] = shown[q]
      BY <2>3, CommitRows
    <3>2. CallOK(q)'
      BY <1>2, <2>1, <2>3, <3>1 DEF CallOK
    <3>3. ASSUME pc[q] \in {"write", "commit"}
          PROVE  /\ reviews'[call[q].row] = reviews[call[q].row] /\ call[q].row \in Rows
                 /\ rowLock[call[q].row] = q => rowLock'[call[q].row] = q
      <4>1. call[q].row # i
        BY <2>3, <3>3, OthersRow
      <4>2. call[q].row \in Rows
        BY <2>1, <3>3 DEF IInv, TypeOK, CallOK, Call
      <4> QED BY <2>3, <4>1, <4>2, CommitRows
    <3>4. LockOK(q)'
      <4>1. CASE pc[q] \in {"write", "commit"}
        <5>1. Written(reviews[call[q].row], q)' = Written(reviews[call[q].row], q)
          BY <2>1, <3>3, <4>1 DEF Written, Updated
        <5> QED BY <2>1, <3>1, <3>3, <4>1, <5>1 DEF LockOK
      <4>2. CASE pc[q] \notin {"write", "commit"}
        BY <3>1, <4>2 DEF LockOK
      <4> QED BY <4>1, <4>2
    <3> QED BY <3>2, <3>4
  <2> QED BY <2>2, <2>3
<1> QED BY <1>1, <1>3 DEF IInv

\* The invariant is inductive.
LEMMA StepIInv == IInv /\ [Next]_vars => IInv'
<1> SUFFICES ASSUME IInv, [Next]_vars PROVE IInv'
  OBVIOUS
<1>1. CASE UNCHANGED vars
  BY <1>1 DEF vars, IInv, TypeOK, CallOK, LockOK, Present, Written, Updated
<1>2. ASSUME NEW r \in Calls, Abort(r) PROVE IInv'
  BY <1>2, ReturnIInv DEF Abort, Answer
<1> QED BY <1>1, <1>2, ArriveIInv, FindScoreIInv, LockIInv, WriteIInv, CommitIInv DEF Next

\* The invariant holds in every reachable state.
THEOREM Invariance == Spec => []IInv
BY InitIInv, StepIInv, PTL DEF Spec

\* Every reachable state is well typed (TypeOK).
THEOREM TypeCorrect == Spec => []TypeOK
<1>1. IInv => TypeOK
  BY DEF IInv
<1> QED BY Invariance, <1>1, PTL

-----------------------------------------------------------------------------
\* Only a commit changes rows and audit or brings good news.
LEMMA OnlyCommits ==
  ASSUME IInv, [Next]_vars
  PROVE  \/ \E r \in Calls : Commit(r)
         \/ /\ reviews' = reviews /\ audit' = audit
            /\ \A q \in Calls : answer'[q] = "ok" => answer[q] = "ok" /\ call'[q] = call[q]
<1> DEFINE Quiet == /\ reviews' = reviews /\ audit' = audit
                    /\ \A q \in Calls : answer'[q] = "ok" => answer[q] = "ok" /\ call'[q] = call[q]
<1>1. CASE UNCHANGED vars
  BY <1>1 DEF vars
<1>2. ASSUME NEW r \in Calls, NEW a, Return(r, a), a # "ok" PROVE Quiet
  BY <1>2 DEF Return, Finish, IInv, TypeOK
<1>3. ASSUME NEW r \in Calls, Arrive(r) PROVE Quiet
  <2>1. /\ pc[r] = "idle" /\ UNCHANGED <<reviews, audit, answer>>
        /\ \E c \in Call : call' = [call EXCEPT ![r] = c]
    BY <1>3 DEF Arrive
  <2>2. answer[r] # "ok"
    BY <2>1 DEF IInv, CallOK
  <2>3. \A q \in Calls \ {r} : call'[q] = call[q]
    BY <2>1 DEF IInv, TypeOK
  <2> QED BY <2>1, <2>2, <2>3
<1>4. ASSUME NEW r \in Calls, FindScore(r) PROVE Quiet
  BY <1>2, <1>4 DEF FindScore
<1>5. ASSUME NEW r \in Calls, Lock(r) PROVE Quiet
  <2> DEFINE refusal == Refusal(call[r].op, reviews[call[r].row].status)
  <2>1. refusal # "ok"
    BY DEF Refusal
  <2> QED BY <1>2, <1>5, <2>1 DEF Lock
<1>6. ASSUME NEW r \in Calls, Write(r) PROVE Quiet
  BY <1>6 DEF Write
<1>7. ASSUME NEW r \in Calls, Abort(r) PROVE Quiet
  BY <1>2, <1>7 DEF Abort
<1> QED BY <1>1, <1>3, <1>4, <1>5, <1>6, <1>7 DEF Next

\* The columns a commit leaves, by operation.
LEMMA CommitFields ==
  ASSUME IInv, NEW r \in Calls, Commit(r)
  PROVE  LET i == call[r].row
             op == call[r].op IN
         /\ op = "Submit" =>
              /\ i = r /\ reviews[i].status = "ABSENT" /\ reviews'[i].status = "SUBMITTED"
              /\ reviews'[i].reason = Nobody /\ reviews'[i].creator = r
         /\ op # "Submit" =>
              /\ <<reviews[i].status, Target(op)>> \in allowedReviewTransitions
              /\ reviews'[i].status = Target(op) /\ reviews'[i].updater = r
              /\ reviews'[i].creator = reviews[i].creator
              /\ reviews'[i].reviewer = IF op = "Assign" THEN r ELSE reviews[i].reviewer
              /\ reviews'[i].reason = IF op = "Reject" THEN r ELSE reviews[i].reason
              /\ reviews'[i].comment = IF call[r].comment THEN r ELSE reviews[i].comment
<1> DEFINE i == call[r].row
           op == call[r].op
<1>1. /\ pc[r] = "commit" /\ i \in Rows /\ CallOK(r) /\ LockOK(r)
      /\ reviews[i] \in Row /\ reviews'[i] = Written(reviews[i], r)
  BY CommitRows
<1>2. CASE op = "Submit"
  <2>1. i = r /\ ~Present(i)
    BY <1>1, <1>2 DEF CallOK
  <2>2. reviews'[i] = Inserted(r, IF call[r].comment THEN r ELSE Nobody)
    BY <1>1, <1>2 DEF Written
  <2>3. /\ reviews'[i].status = "SUBMITTED" /\ reviews'[i].reason = Nobody
        /\ reviews'[i].creator = r
    BY <2>2, InsertedFields
  <2> QED BY <1>2, <2>1, <2>3 DEF Present
<1>3. CASE op # "Submit"
  <2>1. reviews'[i] = Updated(reviews[i], r)
    BY <1>1, <1>3 DEF Written
  <2>2. <<reviews[i].status, Target(op)>> \in allowedReviewTransitions
    BY <1>1, <1>3 DEF LockOK
  <2> QED BY <1>1, <1>3, <2>1, <2>2, UpdatedFields
<1> QED BY <1>2, <1>3

\* DecidedOnce for any calls and requests: a decision a caller was told of stands.
THEOREM Decided == Spec => []DecidedOnce
<1>1. Init => DecidedOnce
  BY DEF Init, DecidedOnce
<1>2. IInv /\ DecidedOnce /\ [Next]_vars => DecidedOnce'
  <2> SUFFICES ASSUME IInv, DecidedOnce, [Next]_vars, NEW q \in Calls,
                      answer'[q] = "ok", call'[q].op \in Decision
               PROVE  /\ reviews'[call'[q].row].status = Target(call'[q].op)
                      /\ reviews'[call'[q].row].updater = q
    BY DEF DecidedOnce
  <2>1. CASE /\ reviews' = reviews
             /\ \A p \in Calls : answer'[p] = "ok" => answer[p] = "ok" /\ call'[p] = call[p]
    BY <2>1 DEF DecidedOnce
  <2>2. ASSUME NEW r \in Calls, Commit(r)
        PROVE  /\ reviews'[call'[q].row].status = Target(call'[q].op)
               /\ reviews'[call'[q].row].updater = q
    <3>1. call' = call
      BY <2>2, CommitRows
    <3>2. CASE q = r
      <4>1. call[r].op # "Submit"
        BY <3>1, <3>2 DEF Decision
      <4> QED BY <2>2, <3>1, <3>2, <4>1, CommitFields
    <3>3. CASE q # r
      <4>1. answer[q] = "ok" /\ call[q].op \in Decision
        BY <2>2, <3>1, <3>3, CommitRows
      <4>2. /\ reviews[call[q].row].status = Target(call[q].op)
            /\ reviews[call[q].row].updater = q
        BY <4>1 DEF DecidedOnce
      <4>3. reviews[call[q].row].status \in {"APPROVED", "REJECTED"}
        BY <4>1, <4>2 DEF Decision, Target
      <4>4. reviews[call[r].row].status \notin {"APPROVED", "REJECTED"}
        <5>1. \A s \in {"APPROVED", "REJECTED"} : \A t : <<s, t>> \notin allowedReviewTransitions
          BY DEF allowedReviewTransitions
        <5> QED BY <2>2, <5>1, CommitFields
      <4>5. call[q].row # call[r].row /\ call[q].row \in Rows
        <5>1. call[q] \in Call
          BY <4>1 DEF IInv, TypeOK, NoCall, Decision
        <5> QED BY <4>3, <4>4, <5>1 DEF Call
      <4>6. reviews'[call[q].row] = reviews[call[q].row]
        BY <2>2, <4>5, CommitRows
      <4> QED BY <3>1, <4>2, <4>6
    <3> QED BY <3>2, <3>3
  <2> QED BY <2>1, <2>2, OnlyCommits
<1> QED BY <1>1, <1>2, Invariance, PTL DEF Spec

\* AuditTellsRow for any calls and requests.
THEOREM AuditTrail == Spec => []AuditTellsRow
<1>1. Init => AuditTellsRow
  <2> SUFFICES ASSUME Init, NEW i \in Rows PROVE {a \in audit : a.row = i} = Trail(i)
    BY DEF AuditTellsRow
  <2>1. audit = {[action |-> "Submit", row |-> j, by |-> j] : j \in Submitted}
    BY DEF Init
  <2>2. CASE i \in Submitted
    <3>1. reviews[i] = Inserted(i, Nobody)
      BY <2>2 DEF Init, Rows
    <3>2. reviews[i].status = "SUBMITTED" /\ reviews[i].creator = i
      BY <3>1, InsertedFields
    <3> QED BY <2>1, <2>2, <3>2 DEF Trail
  <2>3. CASE i \notin Submitted
    <3>1. reviews[i].status = "ABSENT"
      BY <2>3 DEF Init, NoRow
    <3> QED BY <2>1, <2>3, <3>1 DEF Trail
  <2> QED BY <2>2, <2>3
<1>2. IInv /\ AuditTellsRow /\ [Next]_vars => AuditTellsRow'
  <2> SUFFICES ASSUME IInv, AuditTellsRow, [Next]_vars PROVE AuditTellsRow'
    OBVIOUS
  <2>1. CASE reviews' = reviews /\ audit' = audit
    BY <2>1 DEF AuditTellsRow, Trail
  <2>2. ASSUME NEW r \in Calls, Commit(r), NEW i \in Rows
        PROVE  {a \in audit' : a.row = i} = Trail(i)'
    <3> DEFINE j == call[r].row
    <3>1. /\ audit' = audit \cup {Recorded(r)} /\ j \in Rows /\ call[r].op \in Operation
          /\ Recorded(r) = [action |-> call[r].op, row |-> j, by |-> r]
          /\ \A k \in Rows : k # j => reviews'[k] = reviews[k]
      BY <2>2, CommitRows DEF Recorded
    <3>2. {a \in audit : a.row = i} = Trail(i)
      BY DEF AuditTellsRow
    <3>3. CASE i # j
      <4>1. {a \in audit' : a.row = i} = {a \in audit : a.row = i}
        BY <3>1, <3>3
      <4>2. Trail(i)' = Trail(i)
        BY <3>1, <3>3 DEF Trail
      <4> QED BY <3>2, <4>1, <4>2
    <3>4. CASE i = j
      <4>1. {a \in audit' : a.row = i} = Trail(i) \cup {Recorded(r)}
        BY <3>1, <3>2, <3>4
      <4>2. Trail(i)' = Trail(i) \cup {Recorded(r)}
        <5>1. CASE call[r].op = "Submit"
          <6>1. /\ reviews[i].status = "ABSENT" /\ reviews'[i].status = "SUBMITTED"
                /\ reviews'[i].creator = r
            BY <2>2, <3>4, <5>1, CommitFields
          <6> QED BY <3>1, <3>4, <5>1, <6>1 DEF Trail
        <5>2. CASE call[r].op = "Assign"
          <6>1. /\ reviews[i].status = "SUBMITTED" /\ reviews'[i].status = "UNDER_REVIEW"
                /\ reviews'[i].creator = reviews[i].creator /\ reviews'[i].reviewer = r
            BY <2>2, <3>4, <5>2, CommitFields DEF Target, allowedReviewTransitions
          <6> QED BY <3>1, <3>4, <5>2, <6>1 DEF Trail
        <5>3. CASE call[r].op = "Approve"
          <6>1. /\ reviews[i].status = "UNDER_REVIEW" /\ reviews'[i].status = "APPROVED"
                /\ reviews'[i].creator = reviews[i].creator
                /\ reviews'[i].reviewer = reviews[i].reviewer /\ reviews'[i].updater = r
            BY <2>2, <3>4, <5>3, CommitFields DEF Target, allowedReviewTransitions
          <6> QED BY <3>1, <3>4, <5>3, <6>1 DEF Trail
        <5>4. CASE call[r].op = "Reject"
          <6>1. /\ reviews[i].status = "UNDER_REVIEW" /\ reviews'[i].status = "REJECTED"
                /\ reviews'[i].creator = reviews[i].creator
                /\ reviews'[i].reviewer = reviews[i].reviewer /\ reviews'[i].updater = r
            BY <2>2, <3>4, <5>4, CommitFields DEF Target, allowedReviewTransitions
          <6> QED BY <3>1, <3>4, <5>4, <6>1 DEF Trail
        <5> QED BY <3>1, <5>1, <5>2, <5>3, <5>4 DEF Operation
      <4> QED BY <4>1, <4>2
    <3> QED BY <3>3, <3>4
  <2>3. CASE \E r \in Calls : Commit(r)
    BY <2>2, <2>3 DEF AuditTellsRow
  <2> QED BY <2>1, <2>3, OnlyCommits
<1> QED BY <1>1, <1>2, Invariance, PTL DEF Spec

\* ReasonOfRejection for any calls and requests.
THEOREM ReasonSound == Spec => []ReasonOfRejection
<1>1. Init => ReasonOfRejection
  <2> SUFFICES ASSUME Init, NEW i \in Rows
               PROVE  reviews[i].reason = Nobody /\ reviews[i].status # "REJECTED"
    BY DEF ReasonOfRejection
  <2>1. reviews[i] = Inserted(i, Nobody) \/ reviews[i] = NoRow
    BY DEF Init
  <2>2. NoRow.reason = Nobody /\ NoRow.status = "ABSENT"
    BY DEF NoRow
  <2> QED BY <2>1, <2>2, InsertedFields
<1>2. IInv /\ ReasonOfRejection /\ [Next]_vars => ReasonOfRejection'
  <2> SUFFICES ASSUME IInv, ReasonOfRejection, [Next]_vars PROVE ReasonOfRejection'
    OBVIOUS
  <2>1. CASE reviews' = reviews
    BY <2>1 DEF ReasonOfRejection
  <2>2. ASSUME NEW r \in Calls, Commit(r), NEW i \in Rows
        PROVE  reviews'[i].reason = IF reviews'[i].status = "REJECTED" THEN reviews'[i].updater
                                                                      ELSE Nobody
    <3> DEFINE j == call[r].row
    <3>1. reviews[i].reason = IF reviews[i].status = "REJECTED" THEN reviews[i].updater
                                                                ELSE Nobody
      BY DEF ReasonOfRejection
    <3>2. CASE i # j
      BY <2>2, <3>1, <3>2, CommitRows
    <3>3. CASE i = j /\ call[r].op = "Submit"
      BY <2>2, <3>3, CommitFields
    <3>4. CASE i = j /\ call[r].op # "Submit"
      <4>1. call[r].op \in {"Assign", "Approve", "Reject"}
        BY <2>2, <3>4, CommitRows DEF Operation
      <4>2. Target(call[r].op) = "REJECTED" <=> call[r].op = "Reject"
        BY <4>1 DEF Target
      <4>3. reviews[i].status # "REJECTED"
        BY <2>2, <3>4, CommitFields DEF allowedReviewTransitions
      <4>4. /\ reviews'[i].status = Target(call[r].op)
            /\ reviews'[i].reason = (IF call[r].op = "Reject" THEN r ELSE reviews[i].reason)
            /\ reviews'[i].updater = r
        BY <2>2, <3>4, CommitFields
      <4> QED BY <3>1, <4>2, <4>3, <4>4
    <3> QED BY <3>2, <3>3, <3>4
  <2>3. CASE \E r \in Calls : Commit(r)
    BY <2>2, <2>3 DEF ReasonOfRejection
  <2> QED BY <2>1, <2>3, OnlyCommits
<1> QED BY <1>1, <1>2, Invariance, PTL DEF Spec

\* AnswerShowsRow for any calls and requests: nothing changes between what a caller
\* is shown and what he commits.
THEOREM TruthfulAnswer == Spec => AnswerShowsRow
<1>1. IInv /\ [Next]_vars =>
        [\A r \in Calls : pc[r] = "commit" /\ reviews'[call[r].row] # reviews[call[r].row]
                            /\ pc'[r] = "done" =>
           shown[r] = reviews'[call[r].row]]_vars
  <2> SUFFICES ASSUME IInv, [Next]_vars, NEW r \in Calls, pc[r] = "commit",
                      reviews'[call[r].row] # reviews[call[r].row], pc'[r] = "done"
               PROVE  shown[r] = reviews'[call[r].row]
    OBVIOUS
  <2>1. PICK q \in Calls : Commit(q)
    BY OnlyCommits
  <2>2. q = r
    BY <2>1, CommitRows
  <2> QED BY <2>1, <2>2, CommitRows DEF LockOK
<1> QED BY <1>1, Invariance, PTL DEF Spec, AnswerShowsRow

-----------------------------------------------------------------------------
(***************************************************************************)
(* Review implements ReviewHistory.  The audit is the log; a call takes    *)
(* effect at its commit, is turned down where its status is read, and both *)
(* agree with the log because the audit tells the row.                     *)
(***************************************************************************)

\* What has been done to a request in a status.
StepsTo(s) == CASE s = "ABSENT"       -> {}
                [] s = "SUBMITTED"    -> {"Submit"}
                [] s = "UNDER_REVIEW" -> {"Submit", "Assign"}
                [] s = "APPROVED"     -> {"Submit", "Assign", "Approve"}
                [] s = "REJECTED"     -> {"Submit", "Assign", "Reject"}

\* The log and the status of a row tell the same.
LEMMA LogTellsStatus ==
  ASSUME TypeOK, AuditTellsRow, NEW i \in Rows
  PROVE  History!Done(i) = StepsTo(reviews[i].status)
<1>1. {a \in audit : a.row = i} = Trail(i)
  BY DEF AuditTellsRow
<1>2. History!Done(i) = {e.action : e \in Trail(i)}
  BY <1>1 DEF History!Done
<1>3. reviews[i].status \in Status \cup {"ABSENT"}
  BY DEF TypeOK, Row
<1>4. CASE reviews[i].status = "ABSENT"
  BY <1>2, <1>4 DEF Trail, StepsTo
<1>5. CASE reviews[i].status = "SUBMITTED"
  BY <1>2, <1>5 DEF Trail, StepsTo
<1>6. CASE reviews[i].status = "UNDER_REVIEW"
  BY <1>2, <1>6 DEF Trail, StepsTo
<1>7. CASE reviews[i].status = "APPROVED"
  BY <1>2, <1>7 DEF Trail, StepsTo
<1>8. CASE reviews[i].status = "REJECTED"
  BY <1>2, <1>8 DEF Trail, StepsTo
<1> QED BY <1>3, <1>4, <1>5, <1>6, <1>7, <1>8 DEF Status

\* The transitions the code allows are those the log allows, and the sentinels it
\* returns otherwise are the reasons the log gives.
LEMMA RefusalByLog ==
  ASSUME NEW op \in Operation \ {"Submit"}, NEW s \in Status \cup {"ABSENT"}
  PROVE  /\ <<s, Target(op)>> \in allowedReviewTransitions <=> StepsTo(s) = History!Before(op)
         /\ Refusal(op, s) = "none" <=> StepsTo(s) = History!Before(op)
         /\ Refusal(op, s) # "none" => Refusal(op, s) = History!Reason(op, StepsTo(s))
<1>1. /\ "Submit" \notin StepsTo("ABSENT")
      /\ \A t \in Status : "Submit" \in StepsTo(t)
      /\ \A t \in Status \cup {"ABSENT"} :
           /\ "Assign" \in StepsTo(t) <=> t \in {"UNDER_REVIEW", "APPROVED", "REJECTED"}
           /\ "Approve" \in StepsTo(t) <=> t = "APPROVED"
           /\ "Reject" \in StepsTo(t) <=> t = "REJECTED"
  BY DEF StepsTo, Status
<1>2. StepsTo(s) = History!Before(op) <=> \/ op = "Assign" /\ s = "SUBMITTED"
                                          \/ op # "Assign" /\ s = "UNDER_REVIEW"
  <2>1. CASE op = "Assign"
    <3>1. History!Before(op) = {"Submit"} /\ StepsTo("SUBMITTED") = {"Submit"}
      BY <2>1 DEF History!Before, StepsTo
    <3> QED BY <1>1, <2>1, <3>1 DEF Status
  <2>2. CASE op # "Assign"
    <3>1. /\ History!Before(op) = {"Submit", "Assign"}
          /\ StepsTo("UNDER_REVIEW") = {"Submit", "Assign"}
      BY <2>2 DEF History!Before, StepsTo, Operation
    <3> QED BY <1>1, <2>2, <3>1 DEF Status
  <2> QED BY <2>1, <2>2
<1>3. <<s, Target(op)>> \in allowedReviewTransitions <=> \/ op = "Assign" /\ s = "SUBMITTED"
                                                         \/ op # "Assign" /\ s = "UNDER_REVIEW"
  <2>1. \A t : <<s, t>> \in allowedReviewTransitions <=>
                 \/ s = "SUBMITTED" /\ t = "UNDER_REVIEW"
                 \/ s = "UNDER_REVIEW" /\ t \in {"APPROVED", "REJECTED"}
    BY DEF allowedReviewTransitions
  <2>2. CASE op = "Assign"
    <3>1. Target(op) = "UNDER_REVIEW"
      BY <2>2 DEF Target
    <3> QED BY <2>1, <2>2, <3>1
  <2>3. CASE op # "Assign"
    <3>1. Target(op) \in {"APPROVED", "REJECTED"}
      BY <2>3 DEF Target, Operation
    <3> QED BY <2>1, <2>3, <3>1
  <2> QED BY <2>2, <2>3
<1>4. StepsTo(s) = {} <=> s = "ABSENT"
  BY <1>1 DEF StepsTo
<1>5. CASE s = "ABSENT"
  <2>1. <<s, Target(op)>> \notin allowedReviewTransitions
    BY <1>3, <1>5
  <2>2. Refusal(op, s) = "notfound"
    BY <1>5, <2>1 DEF Refusal
  <2> QED BY <1>2, <1>3, <1>4, <1>5, <2>1, <2>2 DEF History!Reason
<1>6. CASE s # "ABSENT"
  <2>1. Refusal(op, s) = IF <<s, Target(op)>> \in allowedReviewTransitions THEN "none"
                         ELSE IF op = "Assign" THEN "notsubmitted" ELSE "notunderreview"
    BY <1>6 DEF Refusal
  <2> QED BY <1>2, <1>3, <1>4, <1>6, <2>1 DEF History!Reason
<1> QED BY <1>5, <1>6

\* The end of a call is its answer in the history.
LEMMA FinishAnswers ==
  ASSUME IInv, NEW r \in Calls, NEW a, pc[r] \notin {"idle", "done"}, Finish(r, a)
  PROVE  /\ Asked[r].op = call[r].op /\ Asked[r].row = call[r].row
         /\ call[r] \in Call
         /\ History!Open(r) /\ History!Answer(r, a)
<1>1. /\ CallOK(r) /\ call[r] \in Call /\ call' = call
      /\ answer' = [answer EXCEPT ![r] = a]
  BY DEF IInv, TypeOK, CallOK, Finish
<1>2. Asked[r].op = call[r].op /\ Asked[r].row = call[r].row
  BY DEF Asked
<1>3. Asked[r] # History!NoQuestion
  <2>1. call[r].op \in Operation
    BY <1>1 DEF Call
  <2> QED BY <1>2, <2>1 DEF History!NoQuestion, Operation
<1>4. Asked' = Asked /\ answer[r] = "none"
  BY <1>1 DEF Asked, CallOK
<1> QED BY <1>1, <1>2, <1>3, <1>4 DEF History!Open, History!Answer

\* A call that ends without a commit, at the start of its work or on its way, is
\* answered in the history by a failure or by the reason it is given.
LEMMA ReturnMaps ==
  ASSUME IInv, NEW r \in Calls, pc[r] \notin {"idle", "done"}, NEW a, Return(r, a),
         \/ a = "error"
         \/ a = "notfound" /\ call[r].op = "Submit"
         \/ /\ History!Done(call[r].row) # History!Before(call[r].op)
            /\ a = History!Reason(call[r].op, History!Done(call[r].row))
  PROVE  History!Next
<1>1. Finish(r, a) /\ audit' = audit
  BY DEF Return
<1>2. /\ Asked[r].op = call[r].op /\ Asked[r].row = call[r].row
      /\ History!Open(r) /\ History!Answer(r, a)
  BY <1>1, FinishAnswers
<1>3. History!Fail(r) \/ History!Refuse(r)
  BY <1>1, <1>2 DEF History!Fail, History!Refuse
<1> QED BY <1>2, <1>3 DEF History!Next

\* The commit of a call is its effect on the log.
LEMMA CommitMaps ==
  ASSUME IInv, AuditTellsRow, NEW r \in Calls, Commit(r)
  PROVE  History!Next
<1> DEFINE q == Asked[r]
<1>0. q.op = call[r].op /\ q.row = call[r].row
  BY DEF Asked
<1>1. /\ pc[r] = "commit" /\ q.row \in Rows /\ q.op \in Operation /\ TypeOK
      /\ audit' = audit \cup {[action |-> q.op, row |-> q.row, by |-> r]}
  BY <1>0, CommitRows DEF IInv, Recorded
<1>2. History!Done(q.row) = History!Before(q.op)
  <2>1. History!Done(q.row) = StepsTo(reviews[q.row].status)
    BY <1>1, LogTellsStatus
  <2>2. CASE q.op = "Submit"
    <3>1. reviews[q.row].status = "ABSENT"
      <4>1. call[r].op = "Submit"
        BY <1>0, <2>2
      <4>2. reviews[call[r].row].status = "ABSENT"
        BY <4>1, CommitFields
      <4> QED BY <1>0, <4>2
    <3> QED BY <2>1, <2>2, <3>1 DEF StepsTo, History!Before
  <2>3. CASE q.op # "Submit"
    <3>1. <<reviews[q.row].status, Target(q.op)>> \in allowedReviewTransitions
      BY <1>0, <2>3, CommitFields
    <3>2. reviews[q.row].status \in Status \cup {"ABSENT"}
      BY <1>1 DEF TypeOK, Row
    <3> QED BY <1>1, <2>1, <2>3, <3>1, <3>2, RefusalByLog
  <2> QED BY <2>2, <2>3
<1>3. PICK a \in {"ok", "error"} : Finish(r, a)
  BY DEF Commit
<1>4. History!Open(r) /\ History!Answer(r, a)
  BY <1>1, <1>3, FinishAnswers
<1>5. History!Perform(r)
  BY <1>1, <1>2, <1>3, <1>4 DEF History!Perform
<1> QED BY <1>4, <1>5 DEF History!Next

\* Every step of a call is a step of the history or leaves it as it is.
LEMMA StepMaps ==
  ASSUME IInv, AuditTellsRow, [Next]_vars
  PROVE  [History!Next]_(History!vars)
<1> DEFINE Still == UNCHANGED <<audit, Asked, answer>>
<1>1. CASE UNCHANGED vars
  BY <1>1 DEF vars, Asked, History!vars
<1>2. ASSUME UNCHANGED <<audit, call, answer>> PROVE Still
  BY <1>2 DEF Asked
<1>3. ASSUME NEW r \in Calls, Arrive(r) PROVE History!Next
  <2>1. PICK c \in Call : (c.op = "Submit" <=> c.row = r) /\ call' = [call EXCEPT ![r] = c]
    BY <1>3 DEF Arrive
  <2> DEFINE q == [op |-> c.op, row |-> c.row]
  <2>2. q \in History!Question /\ (q.op = "Submit" <=> q.row = r)
    BY <2>1 DEF Call, Operation, Rows, History!Question, History!Operation, History!Rows
  <2>3. Asked[r] = History!NoQuestion
    <3>1. call[r] = NoCall
      BY <1>3 DEF Arrive, IInv, CallOK
    <3> QED BY <3>1 DEF Asked, NoCall, History!NoQuestion
  <2>4. Asked' = [Asked EXCEPT ![r] = q]
    <3>1. call'[r] = c /\ \A p \in Calls \ {r} : call'[p] = call[p]
      BY <2>1 DEF IInv, TypeOK
    <3> QED BY <3>1 DEF Asked
  <2>5. UNCHANGED <<audit, answer>>
    BY <1>3 DEF Arrive
  <2>6. History!Ask(r)
    BY <2>2, <2>3, <2>4, <2>5 DEF History!Ask
  <2> QED BY <2>6 DEF History!Next
<1>4. ASSUME NEW r \in Calls, FindScore(r) PROVE Still \/ History!Next
  <2>1. pc[r] = "score" /\ call[r].op = "Submit"
    BY <1>4 DEF FindScore, IInv, CallOK
  <2>2. CASE Return(r, "notfound")
    BY <2>1, <2>2, ReturnMaps
  <2>3. CASE UNCHANGED <<audit, call, answer>>
    BY <1>2, <2>3
  <2> QED BY <1>4, <2>2, <2>3 DEF FindScore
<1>5. ASSUME NEW r \in Calls, Lock(r) PROVE Still \/ History!Next
  <2> DEFINE i == call[r].row
             op == call[r].op
             refusal == Refusal(op, reviews[i].status)
  <2>1. pc[r] = "lock" /\ call[r] \in Call /\ op # "Submit" /\ TypeOK
    BY <1>5 DEF Lock, IInv, TypeOK, CallOK
  <2>2. /\ i \in Rows /\ op \in Operation \ {"Submit"}
        /\ reviews[i].status \in Status \cup {"ABSENT"}
    BY <2>1 DEF TypeOK, Call, Row
  <2>3. History!Done(i) = StepsTo(reviews[i].status)
    BY <2>1, <2>2, LogTellsStatus
  <2>4. CASE refusal # "none" /\ Return(r, refusal)
    <3>1. /\ History!Done(i) # History!Before(op)
          /\ refusal = History!Reason(op, History!Done(i))
      BY <2>2, <2>3, <2>4, RefusalByLog
    <3> QED BY <2>1, <2>4, <3>1, ReturnMaps
  <2>5. CASE UNCHANGED <<audit, call, answer>>
    BY <1>2, <2>5
  <2> QED BY <1>5, <2>4, <2>5 DEF Lock
<1>6. ASSUME NEW r \in Calls, Write(r) PROVE Still
  BY <1>2, <1>6 DEF Write
<1>7. ASSUME NEW r \in Calls, Abort(r) PROVE History!Next
  BY <1>7, ReturnMaps DEF Abort
<1> QED BY <1>1, <1>3, <1>4, <1>5, <1>6, <1>7, CommitMaps DEF Next, History!vars

\* Review implements ReviewHistory, for any calls and requests: every behaviour of the
\* calls, with their interleavings and failures, is one of the atomic specification.
THEOREM HistoryRefinement == Spec => ImplementsHistory
<1>1. Init => History!Init
  BY DEF Init, NoCall, Asked, History!Init, History!NoQuestion
<1>2. IInv /\ AuditTellsRow /\ [Next]_vars => [History!Next]_(History!vars)
  BY StepMaps
<1> QED BY <1>1, <1>2, Invariance, AuditTrail, PTL DEF Spec, ImplementsHistory, History!Spec

-----------------------------------------------------------------------------
(* Waiting: a call waits for the lock of one row.                          *)

Active(r) == pc[r] \notin {"idle", "done"}

\* A call is not kept waiting.
Ready(r) ==
  \/ pc[r] \in {"score", "write", "commit"}
  \/ pc[r] = "lock" /\ rowLock[call[r].row] = Nobody

\* Who holds a row has left the wait for it behind.
HoldersActive == \A i \in Rows : rowLock[i] # Nobody => pc[rowLock[i]] \in {"write", "commit"}

\* As long as a call is in flight, some call can take its next step.
SomeoneReady == (\E r \in Calls : Active(r)) => \E r \in Calls : Ready(r)

\* How many steps a call is from its answer, at most.
Distance(r) ==
  CASE pc[r] = "idle" -> 4 [] pc[r] \in {"score", "lock"} -> 3
    [] pc[r] = "write" -> 2 [] pc[r] = "commit" -> 1 [] OTHER -> 0

\* No step takes a call further from its answer, and each brings one nearer.
Nearer ==
  /\ \A r \in Calls : Distance(r)' <= Distance(r)
  /\ \E r \in Calls : Distance(r)' < Distance(r)

\* What a step of a call does to the waiting: it ends the call and gives its row
\* back, or takes the row, or goes on.
Ends(r) ==
  /\ Active(r) /\ pc'[r] = "done"
  /\ rowLock' = [i \in Rows |-> IF rowLock[i] = r THEN Nobody ELSE rowLock[i]]

Takes(r) ==
  /\ pc[r] = "lock" /\ pc'[r] \in {"write", "commit"}
  /\ rowLock' = [rowLock EXCEPT ![call[r].row] = r]

Goes(r) ==
  /\ \/ pc[r] = "idle" /\ pc'[r] \in {"score", "lock"}
     \/ pc[r] = "score" /\ pc'[r] = "write"
     \/ pc[r] = "write" /\ pc'[r] = "commit"
  /\ rowLock' = rowLock

LEMMA Steps ==
  ASSUME IInv, Next
  PROVE  \E r \in Calls : /\ \A q \in Calls \ {r} : pc'[q] = pc[q]
                          /\ Ends(r) \/ Takes(r) \/ Goes(r)
<1>1. PICK r \in Calls : Arrive(r) \/ FindScore(r) \/ Lock(r) \/ Write(r) \/ Commit(r) \/ Abort(r)
  BY DEF Next
<1>2. pc \in [Calls -> Step]
  BY DEF IInv, TypeOK
<1>3. ASSUME NEW a, Finish(r, a), Active(r)
      PROVE  (\A q \in Calls \ {r} : pc'[q] = pc[q]) /\ Ends(r)
  BY <1>2, <1>3 DEF Finish, Ends
<1>4. CASE Arrive(r)
  BY <1>2, <1>3, <1>4 DEF Arrive, Return, Ends, Takes, Goes, Active, Step
<1>5. CASE FindScore(r)
  BY <1>2, <1>3, <1>5 DEF FindScore, Return, Ends, Takes, Goes, Active, Step
<1>6. CASE Lock(r)
  BY <1>2, <1>3, <1>6 DEF Lock, Return, Ends, Takes, Goes, Active, Step
<1>7. CASE Write(r)
  BY <1>2, <1>3, <1>7 DEF Write, Return, Ends, Takes, Goes, Active, Step
<1>8. CASE Commit(r)
  BY <1>2, <1>3, <1>8 DEF Commit, Return, Ends, Takes, Goes, Active, Step
<1>9. CASE Abort(r)
  BY <1>2, <1>3, <1>9 DEF Abort, Return, Ends, Takes, Goes, Active, Step
<1> QED BY <1>1, <1>4, <1>5, <1>6, <1>7, <1>8, <1>9

LEMMA HoldersStep == ASSUME IInv, HoldersActive, [Next]_vars PROVE HoldersActive'
<1>1. CASE UNCHANGED vars
  BY <1>1 DEF vars, HoldersActive
<1>2. CASE Next
  <2>1. PICK r \in Calls : /\ \A q \in Calls \ {r} : pc'[q] = pc[q]
                           /\ Ends(r) \/ Takes(r) \/ Goes(r)
    BY <1>2, Steps
  <2>2. rowLock \in [Rows -> Calls \cup {Nobody}]
    BY DEF IInv, TypeOK
  <2>3. CASE Ends(r)
    BY <2>1, <2>2, <2>3 DEF Ends, HoldersActive
  <2>4. CASE Takes(r)
    BY <2>1, <2>2, <2>4 DEF Takes, HoldersActive
  <2>5. CASE Goes(r)
    BY <2>1, <2>2, <2>5 DEF Goes, HoldersActive
  <2> QED BY <2>1, <2>3, <2>4, <2>5
<1> QED BY <1>1, <1>2

\* Who is waited for has its own statements left, and waits for nothing.
LEMMA HoldersSuffice == ASSUME IInv, HoldersActive PROVE SomeoneReady
<1> SUFFICES ASSUME NEW r \in Calls, Active(r) PROVE \E q \in Calls : Ready(q)
  BY DEF SomeoneReady
<1>1. CASE Ready(r)
  BY <1>1
<1>2. CASE ~Ready(r)
  <2>1. pc[r] = "lock" /\ rowLock[call[r].row] # Nobody
    BY <1>2 DEF Ready, IInv, TypeOK, Step, Active
  <2>2. call[r].row \in Rows
    BY <2>1 DEF IInv, TypeOK, CallOK, Call
  <2>3. rowLock[call[r].row] \in Calls /\ pc[rowLock[call[r].row]] \in {"write", "commit"}
    BY <2>1, <2>2 DEF IInv, TypeOK, HoldersActive
  <2> QED BY <2>3 DEF Ready
<1> QED BY <1>1, <1>2

\* Decisions that race for a request never make all calls wait: a call locks one row,
\* the last thing it waits for.
THEOREM NoDeadlock == Spec => []SomeoneReady
<1>1. Init => HoldersActive
  BY DEF Init, HoldersActive
<1>2. IInv /\ HoldersActive /\ [Next]_vars => HoldersActive'
  BY HoldersStep
<1>3. IInv /\ HoldersActive => SomeoneReady
  BY HoldersSuffice
<1> QED BY <1>1, <1>2, <1>3, Invariance, PTL DEF Spec

\* Each step brings a call nearer to its answer and takes none further from it:
\* no handler retries, so finitely many calls take finitely many steps.
THEOREM EveryStepCounts == Spec => [][Nearer]_vars
<1>1. ASSUME IInv, Next PROVE Nearer
  <2>1. PICK r \in Calls : /\ \A q \in Calls \ {r} : pc'[q] = pc[q]
                           /\ Ends(r) \/ Takes(r) \/ Goes(r)
    BY <1>1, Steps
  <2>2. pc[r] \in Step
    BY <1>1 DEF IInv, TypeOK
  <2>3. Distance(r)' < Distance(r) /\ Distance(r)' <= Distance(r)
    BY <2>1, <2>2 DEF Ends, Takes, Goes, Distance, Step, Active
  <2>4. ASSUME NEW q \in Calls \ {r} PROVE Distance(q)' <= Distance(q)
    BY <2>1 DEF Distance
  <2> QED BY <2>3, <2>4 DEF Nearer
<1>2. IInv /\ [Next]_vars => [Nearer]_vars
  BY <1>1
<1> QED BY <1>2, Invariance, PTL DEF Spec
=============================================================================
