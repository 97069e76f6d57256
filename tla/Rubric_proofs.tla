---------------------------- MODULE Rubric_proofs ----------------------------
(***************************************************************************)
(* Theorems about Rubric, for any calls, drafts, names, scopes and scores. *)
(*                                                                         *)
(* The argument: the handlers' own checks are made too early and show      *)
(* nothing; what holds, holds by the row's lock, under which the status is *)
(* checked, and by the constraints.  A call that has passed the unique     *)
(* index keeps the key to itself until it commits, because others wait for *)
(* it; bands and the reason can only be changed under the row's lock.      *)
(***************************************************************************)
EXTENDS Rubric, TLAPS

Edit == {"Update", "Archive", "Criterion", "Band"}

\* The body of a call suits its operation.
Typed(c, q) ==
  /\ c.op \in Edit \cup {"Create", "Clone"} /\ c.row \in Rows
  /\ c.op = "Create" => c.row = q /\ c.body \in Identity
  /\ c.op = "Update" => c.body \in Change
  /\ c.op = "Criterion" => c.body \in Weights
  /\ c.op = "Band" => c.body \in Interval

\* The row is the call's own, and its status allows the operation.
Locked(q) ==
  /\ rowLock[call[q].row] = q
  /\ Refusal(q, rubrics[call[q].row].status) = "none"

\* The constraints hold of what the call has written.
Cleared(q) ==
  /\ call[q].op = "Update" => ~Duplicate(q) /\ ~Unreasoned(q)
  /\ call[q].op = "Band" => ~Overlapping(q)

\* What is known of a call by where it is.
CallOK(q) ==
  /\ pc[q] \notin {"idle", "done"} => Typed(call[q], q)
  /\ pc[q] # "done" => /\ Absent(rubrics[q]) /\ answer[q] = "none"
                       /\ \A a \in audit : a.by # q
  /\ pc[q] = "look" => call[q].op \in {"Clone", "Update", "Criterion"}
  /\ pc[q] \in {"count", "lock"} => call[q].op \in Edit
  /\ pc[q] \in {"write", "commit"} /\ call[q].op \in Edit => Locked(q)
  /\ pc[q] = "commit" => Cleared(q)

\* Two calls about to commit never bring the same key.
Reserved(q) ==
  \A p \in Calls \ {q} :
    /\ pc[p] = "commit" /\ call[p].op = "Update"
    /\ pc[q] = "commit" /\ call[q].op = "Update"
    => ~SameKey(Written(p), Written(q))

CallInv == DOMAIN call = Calls /\ \A q \in Calls : CallOK(q) /\ Reserved(q)

IInv == /\ TypeOK /\ CallInv
        /\ OneActivePerScope /\ ArchivedForReason /\ OneBandPerScore
        /\ AuditTells /\ AnswersTrue

-----------------------------------------------------------------------------
(* The operators of the module.                                            *)

LEMMA Identifiers ==
  /\ Calls \subseteq Rows /\ Nobody \notin Rows
  /\ \A q \in Calls : q \in Rows /\ q # Nobody /\ q \notin Drafts
BY RubricAssumption DEF Rows

\* A new draft has no reason and its maker's name.
LEMMA InsertedFields ==
  ASSUME NEW i \in Rows, NEW identity,
         identity.name \in Names \cup {Nobody}, identity.scope \in Scopes \cup {NoScope}
  PROVE  /\ Inserted(i, identity) \in Row
         /\ Inserted(i, identity).status = "draft"
         /\ Inserted(i, identity).reason = Nobody
         /\ Inserted(i, identity).creator = i
BY DEF Inserted, NoRow, Row, Status

LEMMA Symmetry ==
  ASSUME NEW a, NEW b, SameKey(a, b)
  PROVE  SameKey(b, a)
BY DEF SameKey

LEMMA OverlapSymmetry ==
  ASSUME NEW a \in Interval, NEW b \in Interval, Overlap(a, b)
  PROVE  Overlap(b, a)
<1>1. /\ a.min \in Int /\ a.max \in Int /\ b.min \in Int /\ b.max \in Int
  BY RubricAssumption DEF Interval
<1> QED BY <1>1 DEF Overlap

\* The row a call leaves, by its operation.
LEMMA WrittenFields ==
  ASSUME TypeOK, NEW r \in Calls, Typed(call[r], r)
  PROVE  LET row == rubrics[call[r].row]
             new == Written(r)
             op == call[r].op IN
         /\ new \in Row
         /\ op \in {"Create", "Clone"} =>
              new.status = "draft" /\ new.reason = Nobody /\ new.creator = r
         /\ op = "Archive" =>
              new.status = "archived" /\ new.reason = r /\ new.creator = row.creator
         /\ op = "Update" =>
              /\ new.status = (IF call[r].body.status = "" THEN row.status
                                                           ELSE call[r].body.status)
              /\ new.reason = row.reason /\ new.creator = row.creator
         /\ op \in {"Criterion", "Band"} => new = row
<1> DEFINE row == rubrics[call[r].row]
           op == call[r].op
<1>1. row \in Row /\ r \in Rows /\ seen[r] \in Row
  BY Identifiers DEF TypeOK, Typed
<1>2. CASE op = "Create"
  <2>1. Written(r) = Inserted(r, call[r].body)
    BY <1>2 DEF Written
  <2>2. call[r].body.name \in Names /\ call[r].body.scope \in Scopes \cup {NoScope}
    BY <1>2 DEF Typed, Identity
  <2> QED BY <1>1, <1>2, <2>1, <2>2, InsertedFields
<1>3. CASE op = "Clone"
  <2>1. Written(r) = Inserted(r, seen[r])
    BY <1>3 DEF Written
  <2>2. seen[r].name \in Names \cup {Nobody} /\ seen[r].scope \in Scopes \cup {NoScope}
    BY <1>1 DEF Row
  <2> QED BY <1>1, <1>3, <2>1, <2>2, InsertedFields
<1>4. CASE op = "Archive"
  <2>1. Written(r) = [row EXCEPT !.status = "archived", !.reason = r]
    BY <1>4 DEF Written
  <2> QED BY <1>1, <1>4, <2>1 DEF Row, Status
<1>5. CASE op = "Update"
  <2>1. Written(r) = [row EXCEPT
          !.status = IF call[r].body.status = "" THEN @ ELSE call[r].body.status,
          !.name = call[r].body.name, !.scope = call[r].body.scope]
    BY <1>5 DEF Written
  <2>2. /\ call[r].body.name \in Names /\ call[r].body.scope \in Scopes \cup {NoScope}
        /\ call[r].body.status \in Status \cup {""}
    BY <1>5 DEF Typed, Change
  <2> QED BY <1>1, <1>5, <2>1, <2>2 DEF Row
<1>6. CASE op \in {"Criterion", "Band"}
  <2>1. Written(r) = row
    BY <1>6 DEF Written
  <2> QED BY <1>1, <1>6, <2>1
<1> QED BY <1>2, <1>3, <1>4, <1>5, <1>6 DEF Typed, Edit

\* What the check under the lock lets pass.
LEMMA Unrefused ==
  ASSUME NEW r \in Calls, Typed(call[r], r), call[r].op \in Edit, NEW s \in Status \cup {"absent"},
         s = rubrics[call[r].row].status, Refusal(r, s) = "none"
  PROVE  /\ s \in {"draft", "active"}
         /\ call[r].op = "Archive" => s = "active"
         /\ call[r].op = "Update" =>
              \/ call[r].body.status \in {"", s}
              \/ s = "draft" /\ call[r].body.status = "active"
              \/ s = "active" /\ call[r].body.status = "archived"
<1>1. ~Absent(rubrics[call[r].row]) /\ (s = "archived" => call[r].op = "Archive")
  BY DEF Refusal
<1>2. \A next \in Asked(r, s) : <<s, next>> \in allowedRubricTransitions
  BY DEF Refusal
<1>3. s \in Status
  BY <1>1 DEF Absent
<1>4. CASE call[r].op = "Archive"
  <2>1. <<s, "archived">> \in allowedRubricTransitions
    BY <1>2, <1>4 DEF Asked
  <2> QED BY <2>1, <1>4 DEF allowedRubricTransitions
<1>5. CASE call[r].op = "Update" /\ call[r].body.status \notin {"", s}
  <2>1. call[r].body.status \in Asked(r, s)
    BY <1>5 DEF Asked
  <2>2. <<s, call[r].body.status>> \in allowedRubricTransitions
    BY <1>2, <2>1
  <2> QED BY <2>2, <1>5 DEF allowedRubricTransitions
<1>6. CASE call[r].op # "Archive" /\ (call[r].op = "Update" => call[r].body.status \in {"", s})
  BY <1>1, <1>3, <1>6 DEF Status
<1> QED BY <1>4, <1>5, <1>6

-----------------------------------------------------------------------------
(* Steps that change no table.                                             *)

LEMMA InitInv == Init => IInv
<1> SUFFICES ASSUME Init PROVE IInv
  OBVIOUS
<1>1. PICK identity \in [Drafts -> Identity] :
        /\ rubrics = [i \in Rows |-> IF i \in Drafts THEN Inserted(i, identity[i]) ELSE NoRow]
        /\ criteria = {} /\ bands = {}
        /\ audit = {[action |-> "Create", row |-> i, by |-> i] : i \in Drafts}
        /\ rowLock = [i \in Rows |-> Nobody]
        /\ call = [r \in Calls |-> NoCall]
        /\ seen = [r \in Calls |-> NoRow]
        /\ pc = [r \in Calls |-> "idle"]
        /\ answer = [r \in Calls |-> "none"]
  BY DEF Init
<1>2. ASSUME NEW i \in Rows
      PROVE  /\ rubrics[i] \in Row /\ rubrics[i].reason = Nobody
             /\ rubrics[i].status = (IF i \in Drafts THEN "draft" ELSE "absent")
             /\ i \in Drafts => rubrics[i].creator = i
  <2>1. CASE i \in Drafts
    <3>1. identity[i].name \in Names \cup {Nobody} /\ identity[i].scope \in Scopes \cup {NoScope}
      BY <2>1 DEF Identity
    <3> QED BY <1>1, <2>1, <3>1, InsertedFields
  <2>2. CASE i \notin Drafts
    BY <1>1, <2>2 DEF NoRow, Row, Status
  <2> QED BY <2>1, <2>2
<1>3. TypeOK
  <2>1. rubrics \in [Rows -> Row]
    BY <1>1, <1>2
  <2>2. audit \subseteq AuditRow
    BY <1>1 DEF AuditRow, Rows
  <2>3. NoRow \in Row
    BY DEF NoRow, Row, Status
  <2> QED BY <1>1, <2>1, <2>2, <2>3 DEF TypeOK, Step, Answer
<1>4. CallInv
  <2>1. ASSUME NEW q \in Calls PROVE CallOK(q)
    <3>1. Absent(rubrics[q])
      BY <1>2, Identifiers DEF Absent
    <3>2. \A a \in audit : a.by # q
      BY <1>1, Identifiers
    <3> QED BY <1>1, <3>1, <3>2 DEF CallOK
  <2>2. ASSUME NEW q \in Calls PROVE Reserved(q)
    BY <1>1 DEF Reserved
  <2> QED BY <1>1, <2>1, <2>2 DEF CallInv
<1>5. OneActivePerScope /\ ArchivedForReason /\ OneBandPerScore
  BY <1>1, <1>2 DEF OneActivePerScope, SameKey, ArchivedForReason, OneBandPerScore
<1>6. AuditTells
  <2>1. {<<a.row, a.by>> : a \in {x \in audit : x.action = "Create"}}
          = {<<i, rubrics[i].creator>> : i \in {j \in Rows : ~Absent(rubrics[j])}}
    <3>1. {x \in audit : x.action = "Create"} = audit
      BY <1>1
    <3>2. {j \in Rows : ~Absent(rubrics[j])} = Drafts
      BY <1>2 DEF Absent, Rows
    <3>3. {<<a.row, a.by>> : a \in audit} = {<<i, i>> : i \in Drafts}
      <4>1. ASSUME NEW a \in audit PROVE \E i \in Drafts : a.row = i /\ a.by = i
        BY <1>1
      <4>2. ASSUME NEW i \in Drafts PROVE \E a \in audit : a.row = i /\ a.by = i
        <5>1. [action |-> "Create", row |-> i, by |-> i] \in audit
          BY <1>1
        <5> QED BY <5>1
      <4> QED BY <4>1, <4>2
    <3>4. \A i \in Drafts : rubrics[i].creator = i
      BY <1>2 DEF Rows
    <3> QED BY <3>1, <3>2, <3>3, <3>4
  <2>2. \A x \in audit : x.action = "Create"
    BY <1>1
  <2>3. {j \in Rows : rubrics[j].status = "archived"} = {}
    BY <1>2
  <2> QED BY <1>1, <2>1, <2>2, <2>3 DEF AuditTells
<1>7. AnswersTrue
  <2>1. \A r \in Calls, a \in audit : a.by # r
    BY <1>1, Identifiers
  <2> QED BY <1>1, <2>1 DEF AnswersTrue
<1> QED BY <1>3, <1>4, <1>5, <1>6, <1>7 DEF IInv

Tables == <<rubrics, criteria, bands, audit>>

\* One call moves, the tables stay and the others keep their locks.
LEMMA QuietStep ==
  ASSUME IInv, NEW r \in Calls, pc[r] # "done", UNCHANGED Tables, TypeOK',
         DOMAIN call' = Calls,
         \A q \in Calls \ {r} : /\ pc'[q] = pc[q] /\ call'[q] = call[q]
                                /\ seen'[q] = seen[q] /\ answer'[q] = answer[q],
         \A q \in Calls \ {r}, i \in Rows : rowLock[i] = q => rowLock'[i] = q,
         answer'[r] # "ok",
         CallOK(r)', Reserved(r)'
  PROVE  IInv'
<1>1. ASSUME NEW q \in Calls, q # r PROVE CallOK(q)'
  <2>1. CallOK(q)
    BY DEF IInv, CallInv
  <2>2. /\ pc'[q] = pc[q] /\ call'[q] = call[q] /\ answer'[q] = answer[q]
        /\ rubrics' = rubrics /\ bands' = bands /\ audit' = audit /\ seen'[q] = seen[q]
    BY <1>1 DEF Tables
  <2>3. Typed(call[q], q)' <=> Typed(call[q], q)
    BY <2>2 DEF Typed
  <2>4. Written(q)' = Written(q)
    BY <2>2 DEF Written
  <2>5. Cleared(q)' <=> Cleared(q)
    BY <2>2, <2>4 DEF Cleared, Duplicate, Unreasoned, Overlapping, BandsOf
  <2>6. pc[q] \notin {"idle", "done"} /\ Locked(q) => Locked(q)'
    <3>1. pc[q] \notin {"idle", "done"} => call[q].row \in Rows
      BY <2>1 DEF CallOK, Typed
    <3>2. Refusal(q, rubrics[call[q].row].status)' = Refusal(q, rubrics[call[q].row].status)
      BY <2>2 DEF Refusal, Asked
    <3> QED BY <1>1, <2>2, <3>1, <3>2 DEF Locked
  <2> QED BY <2>1, <2>2, <2>3, <2>5, <2>6 DEF CallOK
<1>2. ASSUME NEW q \in Calls, q # r PROVE Reserved(q)'
  <2>1. ASSUME NEW p \in Calls \ {q},
               pc'[p] = "commit", call'[p].op = "Update",
               pc'[q] = "commit", call'[q].op = "Update"
        PROVE  ~SameKey(Written(p)', Written(q)')
    <3>1. CASE p = r
      <4>1. ~SameKey(Written(q)', Written(p)')
        BY <1>2, <2>1, <3>1 DEF Reserved
      <4> QED BY <4>1, Symmetry
    <3>2. CASE p # r
      <4>1. ~SameKey(Written(p), Written(q))
        BY <1>2, <2>1, <3>2 DEF IInv, CallInv, Reserved
      <4>2. Written(p)' = Written(p) /\ Written(q)' = Written(q)
        BY <1>2, <3>2 DEF Written, Tables
      <4> QED BY <4>1, <4>2
    <3> QED BY <3>1, <3>2
  <2> QED BY <2>1 DEF Reserved
<1>3. CallInv'
  BY <1>1, <1>2 DEF CallInv
<1>4. OneActivePerScope' /\ ArchivedForReason' /\ OneBandPerScore' /\ AuditTells'
  BY DEF IInv, Tables, OneActivePerScope, ArchivedForReason, OneBandPerScore, AuditTells, BandsOf
<1>5. AnswersTrue'
  <2>1. ASSUME NEW q \in Calls, q # r
        PROVE  LET told == \E a \in audit' : a.by = q IN
               /\ answer'[q] = "ok" => told
               /\ answer'[q] \notin {"ok", "error"} => ~told
    BY <2>1 DEF IInv, AnswersTrue, Tables
  <2>2. answer'[r] \notin {"ok", "error"} => ~\E a \in audit' : a.by = r
    <3>1. pc[r] # "done" => \A a \in audit : a.by # r
      BY DEF IInv, CallInv, CallOK
    <3> QED BY <3>1 DEF Tables
  <2> QED BY <2>1, <2>2 DEF AnswersTrue
<1> QED BY <1>3, <1>4, <1>5 DEF IInv

\* The end of a call.
LEMMA FinishFacts ==
  ASSUME IInv, NEW r \in Calls, NEW a \in Answer, Finish(r, a)
  PROVE  /\ pc' \in [Calls -> Step] /\ answer' \in [Calls -> Answer]
         /\ rowLock' \in [Rows -> Calls \cup {Nobody}] /\ seen' \in [Calls -> Row]
         /\ DOMAIN call' = Calls
         /\ pc'[r] = "done" /\ answer'[r] = a
         /\ \A q \in Calls \ {r} : /\ pc'[q] = pc[q] /\ call'[q] = call[q]
                                   /\ seen'[q] = seen[q] /\ answer'[q] = answer[q]
         /\ \A q \in Calls \ {r}, i \in Rows : rowLock[i] = q => rowLock'[i] = q
<1>1. NoRow \in Row
  BY DEF NoRow, Row, Status
<1> QED BY <1>1 DEF Finish, IInv, TypeOK, CallInv, Step

\* A call that ends without a commit.
LEMMA ReturnInv ==
  ASSUME IInv, NEW r \in Calls, pc[r] \notin {"idle", "done"},
         NEW a \in Answer \ {"ok"}, Return(r, a)
  PROVE  IInv'
<1>1. Finish(r, a) /\ UNCHANGED Tables
  BY DEF Return, Tables
<1>2. /\ pc' \in [Calls -> Step] /\ answer' \in [Calls -> Answer]
      /\ rowLock' \in [Rows -> Calls \cup {Nobody}] /\ seen' \in [Calls -> Row]
      /\ DOMAIN call' = Calls
      /\ pc'[r] = "done" /\ answer'[r] = a
      /\ \A q \in Calls \ {r} : /\ pc'[q] = pc[q] /\ call'[q] = call[q]
                                /\ seen'[q] = seen[q] /\ answer'[q] = answer[q]
      /\ \A q \in Calls \ {r}, i \in Rows : rowLock[i] = q => rowLock'[i] = q
  BY <1>1, FinishFacts
<1>3. TypeOK'
  <2>1. ASSUME NEW q \in Calls, pc'[q] \notin {"idle", "done"} PROVE call'[q].row \in Rows
    BY <1>2, <2>1 DEF IInv, TypeOK
  <2> QED BY <1>1, <1>2, <2>1 DEF IInv, TypeOK, Tables
<1>4. CallOK(r)' /\ Reserved(r)'
  BY <1>2 DEF CallOK, Reserved
<1>5. answer'[r] # "ok" /\ pc[r] # "done"
  BY <1>2
<1> QED BY <1>1, <1>2, <1>3, <1>4, <1>5, QuietStep

\* A call that goes on without touching a table or an answer.
LEMMA GotoInv ==
  ASSUME IInv, NEW r \in Calls, pc[r] \notin {"idle", "done"},
         NEW step \in Step \ {"idle", "done"}, Goto(r, step),
         seen' \in [Calls -> Row], \A q \in Calls \ {r} : seen'[q] = seen[q],
         rowLock' \in [Rows -> Calls \cup {Nobody}],
         \A q \in Calls \ {r}, i \in Rows : rowLock[i] = q => rowLock'[i] = q,
         step = "look" => call[r].op \in {"Clone", "Update", "Criterion"},
         step \in {"count", "lock"} => call[r].op \in Edit,
         step \in {"write", "commit"} /\ call[r].op \in Edit => Locked(r)',
         step = "commit" => Cleared(r)' /\ Reserved(r)'
  PROVE  IInv'
<1>1. /\ pc' = [pc EXCEPT ![r] = step] /\ call' = call /\ answer' = answer /\ UNCHANGED Tables
  BY DEF Goto, Tables
<1>2. pc'[r] = step /\ pc' \in [Calls -> Step] /\ \A q \in Calls \ {r} : pc'[q] = pc[q]
  BY <1>1 DEF IInv, TypeOK
<1>3. CallOK(r) /\ DOMAIN call = Calls
  BY DEF IInv, CallInv
<1>4. TypeOK'
  <2>1. ASSUME NEW q \in Calls, pc'[q] \notin {"idle", "done"} PROVE call'[q].row \in Rows
    BY <1>1, <1>2, <2>1 DEF IInv, TypeOK
  <2> QED BY <1>1, <1>2, <2>1 DEF IInv, TypeOK, Tables
<1>5. CallOK(r)'
  <2>1. Typed(call[r], r) /\ Typed(call[r], r)'
    BY <1>1, <1>3 DEF CallOK, Typed
  <2>2. Absent(rubrics'[r]) /\ answer'[r] = "none" /\ \A a \in audit' : a.by # r
    BY <1>1, <1>3 DEF CallOK, Tables
  <2> QED BY <1>1, <1>2, <2>1, <2>2 DEF CallOK
<1>6. Reserved(r)'
  BY <1>2 DEF Reserved
<1>7. answer'[r] # "ok" /\ pc[r] # "done"
  BY <1>1, <1>3 DEF CallOK
<1> QED BY <1>1, <1>2, <1>3, <1>4, <1>5, <1>6, <1>7, QuietStep

LEMMA ArriveInv == ASSUME IInv, NEW r \in Calls, Arrive(r) PROVE IInv'
<1>1. PICK c \in Call :
        /\ call' = [call EXCEPT ![r] = [c EXCEPT !.row = IF c.op = "Create" THEN r ELSE @]]
        /\ pc' = [pc EXCEPT ![r] = FirstStep(c.op)]
  BY DEF Arrive
<1>2. pc[r] = "idle" /\ UNCHANGED Tables /\ UNCHANGED <<rowLock, seen, answer>>
  BY DEF Arrive, Tables
<1>3. /\ c.op \in Edit \cup {"Create", "Clone"}
      /\ call'[r].op = c.op /\ Typed(call'[r], r)
  <2> DEFINE new == [c EXCEPT !.row = IF c.op = "Create" THEN r ELSE @]
  <2>1. call'[r] = new
    BY <1>1 DEF IInv, CallInv
  <2>2. CASE c \in [op : {"Create"} \cap Operations, row : {Nobody}, body : Identity]
    <3>1. c.op = "Create" /\ c.body \in Identity
      BY <2>2
    <3>2. new.op = "Create" /\ new.row = r /\ new.body = c.body
      BY <2>2
    <3> QED BY <2>1, <3>1, <3>2, Identifiers DEF Typed
  <2>3. CASE c \in [op : {"Clone", "Archive"} \cap Operations, row : Rows, body : {""}]
    <3>1. new.op = c.op /\ c.op \in {"Clone", "Archive"} /\ new.row \in Rows
      BY <2>3
    <3> QED BY <2>1, <3>1 DEF Typed, Edit
  <2>4. CASE c \in [op : {"Update"} \cap Operations, row : Rows, body : Change]
    <3>1. new.op = c.op /\ c.op = "Update" /\ new.row \in Rows /\ new.body \in Change
      BY <2>4
    <3> QED BY <2>1, <3>1 DEF Typed, Edit
  <2>5. CASE c \in [op : {"Criterion"} \cap Operations, row : Rows, body : Weights]
    <3>1. new.op = c.op /\ c.op = "Criterion" /\ new.row \in Rows /\ new.body \in Weights
      BY <2>5
    <3> QED BY <2>1, <3>1 DEF Typed, Edit
  <2>6. CASE c \in [op : {"Band"} \cap Operations, row : Rows, body : Interval]
    <3>1. new.op = c.op /\ c.op = "Band" /\ new.row \in Rows /\ new.body \in Interval
      BY <2>6
    <3> QED BY <2>1, <3>1 DEF Typed, Edit
  <2> QED BY <2>2, <2>3, <2>4, <2>5, <2>6 DEF Call
<1>4. /\ pc'[r] = FirstStep(c.op)
      /\ DOMAIN call' = Calls
      /\ \A q \in Calls \ {r} : pc'[q] = pc[q] /\ call'[q] = call[q]
  BY <1>1 DEF IInv, TypeOK, CallInv
<1>5. /\ FirstStep(c.op) \in {"write", "lock", "count", "look"}
      /\ FirstStep(c.op) = "write" => c.op = "Create"
      /\ FirstStep(c.op) = "look" => c.op \in {"Clone", "Update", "Criterion"}
      /\ FirstStep(c.op) \in {"count", "lock"} => c.op \in Edit
  BY <1>3 DEF FirstStep, Edit
<1>6. TypeOK'
  <2>1. pc' \in [Calls -> Step]
    BY <1>1, <1>5 DEF IInv, TypeOK, Step
  <2>2. ASSUME NEW q \in Calls, pc'[q] \notin {"idle", "done"} PROVE call'[q].row \in Rows
    BY <1>3, <1>4, <2>2 DEF IInv, TypeOK, Typed
  <2> QED BY <1>2, <2>1, <2>2 DEF IInv, TypeOK, Tables
<1>7. CallOK(r)'
  <2>1. CallOK(r)
    BY DEF IInv, CallInv
  <2>2. Absent(rubrics'[r]) /\ answer'[r] = "none" /\ \A a \in audit' : a.by # r
    BY <1>2, <2>1 DEF CallOK, Tables
  <2>3. Typed(call[r], r)'
    BY <1>3 DEF Typed
  <2>4. pc'[r] = "write" => call'[r].op \notin Edit
    BY <1>3, <1>4, <1>5 DEF Edit
  <2> QED BY <1>3, <1>4, <1>5, <2>2, <2>3, <2>4 DEF CallOK
<1>8. Reserved(r)'
  BY <1>4, <1>5 DEF Reserved
<1>9. answer'[r] # "ok" /\ pc[r] # "done"
  BY <1>2 DEF IInv, CallInv, CallOK
<1> QED BY <1>2, <1>4, <1>6, <1>7, <1>8, <1>9, QuietStep

LEMMA LookInv == ASSUME IInv, NEW r \in Calls, Look(r) PROVE IInv'
<1> DEFINE row == rubrics[call[r].row]
           step == IF call[r].op = "Clone" THEN "write" ELSE "count"
<1>1. pc[r] = "look" /\ CallOK(r)
  BY DEF Look, IInv, CallInv
<1>2. CASE Return(r, "notfound") \/ Return(r, "archived")
  BY <1>1, <1>2, ReturnInv DEF Answer
<1>3. CASE /\ seen' = [seen EXCEPT ![r] = row]
           /\ Goto(r, step) /\ UNCHANGED rowLock
  <2>1. call[r].op \in {"Clone", "Update", "Criterion"} /\ call[r].row \in Rows
    BY <1>1 DEF CallOK, Typed
  <2>2. seen' \in [Calls -> Row] /\ \A q \in Calls \ {r} : seen'[q] = seen[q]
    BY <1>3, <2>1 DEF IInv, TypeOK
  <2>3. /\ step \in Step \ {"idle", "done"} /\ step # "look" /\ step # "commit"
        /\ step \in {"count", "lock"} => call[r].op \in Edit
        /\ step = "write" => call[r].op \notin Edit
    BY <2>1 DEF Step, Edit
  <2>4. rowLock' \in [Rows -> Calls \cup {Nobody}]
    BY <1>3 DEF IInv, TypeOK
  <2>5. pc[r] \notin {"idle", "done"}
    BY <1>1
  <2>6. \A q \in Calls \ {r}, i \in Rows : rowLock[i] = q => rowLock'[i] = q
    BY <1>3
  <2> HIDE DEF step
  <2> QED BY <1>3, <2>2, <2>3, <2>4, <2>5, <2>6, GotoInv
<1> QED BY <1>2, <1>3 DEF Look

LEMMA CountInv == ASSUME IInv, NEW r \in Calls, Count(r) PROVE IInv'
<1>1. pc[r] = "count" /\ CallOK(r)
  BY DEF Count, IInv, CallInv
<1>2. CASE Objection(r) # "none" /\ Return(r, Objection(r))
  <2>1. Objection(r) \in Answer \ {"ok"}
    BY <1>2 DEF Objection, Answer
  <2> QED BY <1>1, <1>2, <2>1, ReturnInv
<1>3. CASE Goto(r, "lock") /\ UNCHANGED <<rowLock, seen>>
  <2>1. call[r].op \in Edit
    BY <1>1 DEF CallOK
  <2>2. seen' \in [Calls -> Row] /\ rowLock' \in [Rows -> Calls \cup {Nobody}]
    BY <1>3 DEF IInv, TypeOK
  <2>3. "lock" \in Step \ {"idle", "done"}
    BY DEF Step
  <2> QED BY <1>1, <1>3, <2>1, <2>2, <2>3, GotoInv
<1> QED BY <1>2, <1>3 DEF Count

LEMMA LockInv == ASSUME IInv, NEW r \in Calls, Lock(r) PROVE IInv'
<1> DEFINE i == call[r].row
           refusal == Refusal(r, rubrics[i].status)
<1>1. pc[r] = "lock" /\ CallOK(r) /\ rowLock[i] = Nobody /\ i \in Rows
  BY DEF Lock, IInv, CallInv, CallOK, Typed
<1>2. CASE refusal # "none" /\ Return(r, refusal)
  <2>1. refusal \in Answer \ {"ok"}
    BY <1>2 DEF Refusal, Answer
  <2> QED BY <1>1, <1>2, <2>1, ReturnInv
<1>3. CASE /\ refusal = "none"
           /\ rowLock' = [rowLock EXCEPT ![i] = r]
           /\ Goto(r, "write") /\ UNCHANGED seen
  <2>1. seen' \in [Calls -> Row] /\ rowLock' \in [Rows -> Calls \cup {Nobody}] /\ rowLock'[i] = r
    BY <1>1, <1>3 DEF IInv, TypeOK
  <2>2. \A q \in Calls \ {r}, j \in Rows : rowLock[j] = q => rowLock'[j] = q
    BY <1>1, <1>3, Identifiers DEF IInv, TypeOK
  <2>3. Locked(r)'
    <3>1. call' = call /\ rubrics' = rubrics
      BY <1>3 DEF Goto
    <3>2. Refusal(r, rubrics[call[r].row].status)' = refusal
      BY <3>1 DEF Refusal, Asked
    <3> QED BY <1>3, <2>1, <3>1, <3>2 DEF Locked
  <2>4. "write" \in Step \ {"idle", "done"}
    BY DEF Step
  <2> QED BY <1>1, <1>3, <2>1, <2>2, <2>3, <2>4, GotoInv
<1> QED BY <1>2, <1>3 DEF Lock

LEMMA WriteInv == ASSUME IInv, NEW r \in Calls, Write(r) PROVE IInv'
<1>1. pc[r] = "write" /\ CallOK(r)
  BY DEF Write, IInv, CallInv
<1>2. CASE Violated(r) # "none" /\ Return(r, Violated(r))
  <2>1. Violated(r) \in Answer \ {"ok"}
    BY <1>2 DEF Violated, Answer
  <2> QED BY <1>1, <1>2, <2>1, ReturnInv
<1>3. CASE Violated(r) = "none" /\ Goto(r, "commit") /\ UNCHANGED <<rowLock, seen>>
  <2>1. call' = call /\ rubrics' = rubrics /\ bands' = bands /\ seen' = seen /\ rowLock' = rowLock
    BY <1>3 DEF Goto
  <2>2. Written(r)' = Written(r)
    BY <2>1 DEF Written
  <2>3. Cleared(r)'
    <3>1. Cleared(r)
      BY <1>3 DEF Violated, Cleared
    <3> QED BY <2>1, <2>2, <3>1 DEF Cleared, Duplicate, Unreasoned, Overlapping, BandsOf
  <2>4. call[r].op \in Edit => Locked(r)'
    <3>1. Refusal(r, rubrics[call[r].row].status)' = Refusal(r, rubrics[call[r].row].status)
      BY <2>1 DEF Refusal, Asked
    <3> QED BY <1>1, <2>1, <3>1 DEF CallOK, Locked
  <2>5. Reserved(r)'
    <3>1. ASSUME NEW p \in Calls \ {r}, pc'[p] = "commit", call'[p].op = "Update",
                 call'[r].op = "Update"
          PROVE  ~SameKey(Written(p)', Written(r)')
      <4>1. ~KeyInDoubt(r) /\ pc[p] = "commit" /\ call[p].op = "Update"
        BY <1>3, <2>1, <3>1 DEF Write, Goto, IInv, TypeOK
      <4>2. ~SameKey(Written(p), Written(r))
        BY <4>1 DEF KeyInDoubt
      <4>3. Written(p)' = Written(p)
        BY <2>1 DEF Written
      <4> QED BY <2>2, <4>2, <4>3
    <3> QED BY <3>1 DEF Reserved
  <2>6. seen' \in [Calls -> Row] /\ rowLock' \in [Rows -> Calls \cup {Nobody}]
    BY <2>1 DEF IInv, TypeOK
  <2>7. "commit" \in Step \ {"idle", "done"}
    BY DEF Step
  <2> QED BY <1>1, <1>3, <2>1, <2>3, <2>4, <2>5, <2>6, <2>7, GotoInv
<1> QED BY <1>2, <1>3 DEF Write

-----------------------------------------------------------------------------
(* The commit.                                                             *)

\* What a call finds when it commits, and the row it leaves.
LEMMA CommitFacts ==
  ASSUME IInv, NEW r \in Calls, Commit(r)
  PROVE  LET i == Target(r)
             op == call[r].op IN
         /\ pc[r] = "commit" /\ Typed(call[r], r) /\ Cleared(r)
         /\ i \in Rows /\ Written(r) \in Row
         /\ rubrics' = [rubrics EXCEPT ![i] = Written(r)]
         /\ op \notin Edit => i = r /\ Absent(rubrics[r])
         /\ op \in Edit => /\ i = call[r].row /\ Locked(r)
                           /\ rubrics[i].status \in {"draft", "active"}
<1>1. pc[r] = "commit" /\ Typed(call[r], r) /\ Cleared(r) /\ CallOK(r)
  BY DEF Commit, IInv, CallInv, CallOK
<1>2. Written(r) \in Row
  BY <1>1, WrittenFields DEF IInv
<1>3. rubrics' = [rubrics EXCEPT ![Target(r)] = Written(r)]
  BY DEF Commit
<1>4. call[r].op \notin Edit => Target(r) = r /\ Absent(rubrics[r])
  BY <1>1 DEF Typed, Target, CallOK
<1>5. call[r].op \in Edit => Target(r) = call[r].row /\ Locked(r)
  BY <1>1 DEF Target, CallOK, Edit
<1>6. Target(r) \in Rows
  BY <1>1, <1>4, <1>5, Identifiers DEF Typed
<1>7. call[r].op \in Edit => rubrics[Target(r)].status \in {"draft", "active"}
  <2> SUFFICES ASSUME call[r].op \in Edit
               PROVE  rubrics[call[r].row].status \in {"draft", "active"}
    BY <1>5
  <2>1. rubrics[call[r].row].status \in Status \cup {"absent"}
    BY <1>1 DEF IInv, TypeOK, Typed, Row
  <2>2. Refusal(r, rubrics[call[r].row].status) = "none"
    BY <1>5 DEF Locked
  <2> QED BY <1>1, <2>1, <2>2, Unrefused
<1> QED BY <1>1, <1>2, <1>3, <1>4, <1>5, <1>6, <1>7

\* How the call ends.
LEMMA CommitEnds ==
  ASSUME IInv, NEW r \in Calls, Commit(r)
  PROVE  /\ pc' \in [Calls -> Step] /\ answer' \in [Calls -> Answer]
         /\ rowLock' \in [Rows -> Calls \cup {Nobody}] /\ seen' \in [Calls -> Row]
         /\ DOMAIN call' = Calls
         /\ pc'[r] = "done" /\ answer'[r] \in {"ok", "error"}
         /\ \A q \in Calls \ {r} : /\ pc'[q] = pc[q] /\ call'[q] = call[q]
                                   /\ seen'[q] = seen[q] /\ answer'[q] = answer[q]
         /\ \A q \in Calls \ {r}, i \in Rows : rowLock[i] = q => rowLock'[i] = q
<1>1. PICK a \in {"ok", "error"} : Finish(r, a)
  BY DEF Commit
<1>2. a \in Answer
  BY DEF Answer
<1> HIDE DEF IInv
<1> QED BY <1>1, <1>2, FinishFacts

\* The audit row of a commit.
LEMMA RecordedFields ==
  ASSUME NEW r \in Calls, Typed(call[r], r)
  PROVE  /\ Recorded(r).row = Target(r) /\ Recorded(r).by = r
         /\ Recorded(r).action = (IF call[r].op = "Clone" THEN "Create" ELSE call[r].op)
         /\ Recorded(r) \in AuditRow
<1>1. Target(r) \in Rows /\ r \in Rows
  BY Identifiers DEF Target, Typed
<1>2. (IF call[r].op = "Clone" THEN "Create" ELSE call[r].op)
        \in {"Create", "Update", "Archive", "Criterion", "Band"}
  BY DEF Typed, Edit
<1> QED BY <1>1, <1>2 DEF Recorded, AuditRow

LEMMA CommitTypes == ASSUME IInv, NEW r \in Calls, Commit(r) PROVE TypeOK'
<1>1. Typed(call[r], r) /\ rubrics' \in [Rows -> Row]
  BY CommitFacts DEF IInv, TypeOK
<1>2. criteria' \subseteq Criterion
  <2>1. call[r].op = "Criterion" =>
          [id |-> r, rubric |-> call[r].row, weight |-> call[r].body] \in Criterion
    BY <1>1 DEF Typed, Criterion
  <2> QED BY <2>1 DEF Commit, IInv, TypeOK
<1>3. bands' \subseteq Band
  <2>1. call[r].op = "Band" =>
          [id |-> r, rubric |-> call[r].row, range |-> call[r].body] \in Band
    BY <1>1 DEF Typed, Band
  <2> QED BY <2>1 DEF Commit, IInv, TypeOK
<1>4. audit' \subseteq AuditRow
  <2>1. audit' = audit \cup {Recorded(r)}
    BY DEF Commit
  <2> QED BY <1>1, <2>1, RecordedFields DEF IInv, TypeOK
<1>5. ASSUME NEW q \in Calls, pc'[q] \notin {"idle", "done"} PROVE call'[q].row \in Rows
  BY <1>5, CommitEnds DEF IInv, TypeOK
<1>6. /\ pc' \in [Calls -> Step] /\ answer' \in [Calls -> Answer]
      /\ rowLock' \in [Rows -> Calls \cup {Nobody}] /\ seen' \in [Calls -> Row]
  BY CommitEnds
<1> QED BY <1>1, <1>2, <1>3, <1>4, <1>5, <1>6 DEF TypeOK

\* A commit does not touch the row another call has locked.
LEMMA CommitApart ==
  ASSUME IInv, NEW r \in Calls, Commit(r),
         NEW q \in Calls \ {r}, pc[q] \in {"write", "commit"}, call[q].op \in Edit
  PROVE  /\ call[q].row # Target(r) /\ call[q].row \in Rows
         /\ rubrics'[call[q].row] = rubrics[call[q].row]
<1>1. Locked(q) /\ Typed(call[q], q)
  BY DEF IInv, CallInv, CallOK
<1>2. ~Absent(rubrics[call[q].row])
  BY <1>1 DEF Locked, Refusal
<1>3. call[q].row # Target(r)
  <2>1. CASE call[r].op \in Edit
    <3>1. Locked(r) /\ Target(r) = call[r].row
      BY <2>1, CommitFacts
    <3> QED BY <1>1, <3>1 DEF Locked
  <2>2. CASE call[r].op \notin Edit
    <3>1. Target(r) = r /\ Absent(rubrics[r])
      BY <2>2, CommitFacts
    <3> QED BY <1>2, <3>1
  <2> QED BY <2>1, <2>2
<1>4. rubrics' = [rubrics EXCEPT ![Target(r)] = Written(r)]
  BY CommitFacts
<1>5. call[q].row \in Rows /\ rubrics \in [Rows -> Row]
  BY <1>1 DEF Typed, IInv, TypeOK
<1> QED BY <1>3, <1>4, <1>5

\* Only an update makes a rubric active.
LEMMA ActiveByUpdate ==
  ASSUME IInv, NEW r \in Calls, Commit(r), Written(r).status = "active"
  PROVE  \/ call[r].op = "Update"
         \/ call[r].op \in {"Criterion", "Band"} /\ Written(r) = rubrics[Target(r)]
<1>1. Typed(call[r], r) /\ TypeOK
  BY CommitFacts DEF IInv
<1>2. call[r].op \notin {"Create", "Clone", "Archive"}
  BY <1>1, WrittenFields
<1>3. call[r].op \in {"Criterion", "Band"} => Written(r) = rubrics[call[r].row]
  BY <1>1, WrittenFields
<1>4. call[r].op \in Edit => Target(r) = call[r].row
  BY CommitFacts
<1> QED BY <1>1, <1>2, <1>3, <1>4 DEF Typed, Edit

LEMMA CommitCalls == ASSUME IInv, NEW r \in Calls, Commit(r) PROVE CallInv'
<1> DEFINE i == Target(r)
<1>1. /\ pc'[r] = "done" /\ DOMAIN call' = Calls
      /\ \A q \in Calls \ {r} : /\ pc'[q] = pc[q] /\ call'[q] = call[q]
                                /\ seen'[q] = seen[q] /\ answer'[q] = answer[q]
      /\ \A q \in Calls \ {r}, j \in Rows : rowLock[j] = q => rowLock'[j] = q
  BY CommitEnds
<1>2. /\ Typed(call[r], r) /\ i \in Rows /\ rubrics' = [rubrics EXCEPT ![i] = Written(r)]
      /\ rubrics \in [Rows -> Row]
      /\ call[r].op \notin Edit => i = r
      /\ call[r].op \in Edit => rubrics[i].status \in {"draft", "active"}
  BY CommitFacts DEF IInv, TypeOK
<1>3. CallOK(r)' /\ Reserved(r)'
  BY <1>1 DEF CallOK, Reserved
<1>4. ASSUME NEW q \in Calls \ {r}, pc[q] \in {"write", "commit"}, call[q].op \in Edit
      PROVE  Locked(q)' /\ Written(q)' = Written(q) /\ call[q].row \in Rows
  <2>1. /\ call[q].row \in Rows /\ rubrics'[call[q].row] = rubrics[call[q].row]
        /\ call'[q] = call[q] /\ seen'[q] = seen[q]
    BY <1>1, <1>4, CommitApart
  <2>2. Written(q)' = Written(q)
    BY <1>4, <2>1 DEF Written, Edit
  <2>3. Locked(q)
    BY <1>4 DEF IInv, CallInv, CallOK
  <2>4. Refusal(q, rubrics[call[q].row].status)' = Refusal(q, rubrics[call[q].row].status)
    BY <2>1 DEF Refusal, Asked
  <2>5. rowLock'[call[q].row] = q
    BY <1>1, <2>1, <2>3 DEF Locked
  <2>6. Locked(q)'
    BY <2>1, <2>3, <2>4, <2>5 DEF Locked
  <2> QED BY <2>1, <2>2, <2>6
<1>5. ASSUME NEW q \in Calls \ {r}, pc[q] = "commit" PROVE Cleared(q)'
  <2>1. Cleared(q) /\ call'[q] = call[q]
    BY <1>1, <1>5 DEF IInv, CallInv, CallOK
  <2>2. ASSUME call[q].op = "Update" PROVE ~Duplicate(q)' /\ ~Unreasoned(q)'
    <3>1. Written(q)' = Written(q) /\ ~Duplicate(q) /\ ~Unreasoned(q)
      BY <1>4, <1>5, <2>1, <2>2 DEF Cleared, Edit
    <3>2. ASSUME NEW j \in Rows \ {call[q].row} PROVE ~SameKey(rubrics'[j], Written(q))
      <4>1. CASE rubrics'[j] = rubrics[j]
        BY <3>1, <3>2, <4>1 DEF Duplicate
      <4>2. CASE rubrics'[j] # rubrics[j]
        <5>1. j = i /\ rubrics'[j] = Written(r)
          BY <1>2, <4>2
        <5>2. CASE call[r].op = "Update"
          <6>1. ~SameKey(Written(r), Written(q))
            BY <1>5, <2>2, <5>2, CommitFacts DEF IInv, CallInv, Reserved
          <6> QED BY <5>1, <6>1
        <5>3. CASE Written(r).status # "active"
          BY <5>1, <5>3 DEF SameKey
        <5> QED BY <4>2, <5>1, <5>2, <5>3, ActiveByUpdate
      <4> QED BY <4>1, <4>2
    <3> QED BY <2>1, <3>1, <3>2 DEF Duplicate, Unreasoned
  <2>3. ASSUME call[q].op = "Band" PROVE ~Overlapping(q)'
    <3>1. ~Overlapping(q) /\ call[q].row # i
      BY <1>5, <2>1, <2>3, CommitApart DEF Cleared, Edit
    <3>2. ASSUME NEW b \in bands', b.rubric = call[q].row PROVE b \in bands
      <4>1. call[r].op = "Band" => call[r].row = i
        BY CommitFacts DEF Edit
      <4> QED BY <3>1, <3>2, <4>1 DEF Commit
    <3> QED BY <2>1, <3>1, <3>2 DEF Overlapping, BandsOf
  <2> QED BY <2>1, <2>2, <2>3 DEF Cleared
<1>6. ASSUME NEW q \in Calls \ {r} PROVE CallOK(q)'
  <2>1. /\ CallOK(q) /\ pc'[q] = pc[q] /\ call'[q] = call[q] /\ answer'[q] = answer[q]
    BY <1>1 DEF IInv, CallInv
  <2>2. Typed(call[q], q)' <=> Typed(call[q], q)
    BY <2>1 DEF Typed
  <2>3. ASSUME pc[q] # "done" PROVE Absent(rubrics'[q]) /\ \A a \in audit' : a.by # q
    <3>1. Absent(rubrics[q]) /\ \A a \in audit : a.by # q
      BY <2>1, <2>3 DEF CallOK
    <3>2. i # q
      BY <1>2, <3>1 DEF Absent
    <3>3. rubrics'[q] = rubrics[q]
      BY <1>2, <3>2, Identifiers
    <3>4. audit' = audit \cup {Recorded(r)} /\ Recorded(r).by = r
      BY <1>2, RecordedFields DEF Commit
    <3> QED BY <3>1, <3>3, <3>4 DEF Absent
  <2> QED BY <1>4, <1>5, <2>1, <2>2, <2>3 DEF CallOK
<1>7. ASSUME NEW q \in Calls \ {r} PROVE Reserved(q)'
  <2>1. ASSUME NEW p \in Calls \ {q},
               pc'[p] = "commit", call'[p].op = "Update",
               pc'[q] = "commit", call'[q].op = "Update"
        PROVE  ~SameKey(Written(p)', Written(q)')
    <3>1. p # r /\ pc[p] = "commit" /\ pc[q] = "commit"
          /\ call[p].op = "Update" /\ call[q].op = "Update"
      BY <1>1, <2>1
    <3>2. ~SameKey(Written(p), Written(q))
      BY <3>1 DEF IInv, CallInv, Reserved
    <3>3. Written(p)' = Written(p) /\ Written(q)' = Written(q)
      BY <1>4, <3>1 DEF Edit
    <3> QED BY <3>2, <3>3
  <2> QED BY <2>1 DEF Reserved
<1> QED BY <1>1, <1>3, <1>6, <1>7 DEF CallInv

LEMMA CommitOne == ASSUME IInv, NEW r \in Calls, Commit(r) PROVE OneActivePerScope'
<1> DEFINE i == Target(r)
<1>1. /\ i \in Rows /\ rubrics' = [rubrics EXCEPT ![i] = Written(r)] /\ rubrics \in [Rows -> Row]
      /\ Cleared(r)
      /\ call[r].op \in Edit => i = call[r].row
  BY CommitFacts DEF IInv, TypeOK
<1>2. ASSUME NEW j \in Rows \ {i} PROVE ~SameKey(rubrics[j], Written(r))
  <2>1. CASE Written(r).status # "active"
    BY <2>1 DEF SameKey
  <2>2. CASE call[r].op = "Update"
    BY <1>1, <1>2, <2>2 DEF Cleared, Duplicate, Edit
  <2>3. CASE Written(r) = rubrics[i]
    BY <1>1, <1>2, <2>3 DEF IInv, OneActivePerScope
  <2> QED BY <2>1, <2>2, <2>3, ActiveByUpdate
<1>3. ASSUME NEW j \in Rows, NEW k \in Rows, SameKey(rubrics'[j], rubrics'[k]) PROVE j = k
  <2>1. CASE j # i /\ k # i
    BY <1>1, <1>3, <2>1 DEF IInv, OneActivePerScope
  <2>2. CASE j = i /\ k # i
    <3>1. SameKey(rubrics[k], Written(r))
      BY <1>1, <1>3, <2>2, Symmetry
    <3> QED BY <1>2, <2>2, <3>1
  <2>3. CASE k = i /\ j # i
    BY <1>1, <1>2, <1>3, <2>3
  <2> QED BY <2>1, <2>2, <2>3
<1> QED BY <1>3 DEF OneActivePerScope

LEMMA CommitReason == ASSUME IInv, NEW r \in Calls, Commit(r) PROVE ArchivedForReason'
<1> DEFINE i == Target(r)
<1>1. /\ i \in Rows /\ rubrics' = [rubrics EXCEPT ![i] = Written(r)] /\ rubrics \in [Rows -> Row]
      /\ Typed(call[r], r) /\ Cleared(r) /\ TypeOK
  BY CommitFacts DEF IInv, TypeOK
<1>2. Written(r).status = "archived" <=> Written(r).reason # Nobody
  <2>1. CASE call[r].op \notin Edit
    BY <1>1, <2>1, WrittenFields DEF Typed
  <2>2. CASE call[r].op = "Archive"
    BY <1>1, <2>2, WrittenFields, Identifiers
  <2>3. CASE call[r].op \in {"Update", "Criterion", "Band"}
    <3>1. i = call[r].row /\ rubrics[i].status # "archived"
      BY <2>3, CommitFacts DEF Edit
    <3>2. rubrics[i].reason = Nobody
      BY <1>1, <3>1 DEF IInv, ArchivedForReason
    <3>3. Written(r).reason = Nobody
      BY <1>1, <2>3, <3>1, <3>2, WrittenFields
    <3>4. Written(r).status # "archived"
      <4>1. CASE call[r].op = "Update"
        BY <1>1, <3>3, <4>1 DEF Cleared, Unreasoned
      <4>2. CASE call[r].op \in {"Criterion", "Band"}
        BY <1>1, <3>1, <4>2, WrittenFields
      <4> QED BY <2>3, <4>1, <4>2
    <3> QED BY <3>3, <3>4
  <2> QED BY <2>1, <2>2, <2>3 DEF Edit
<1> QED BY <1>1, <1>2 DEF IInv, ArchivedForReason

LEMMA CommitBands == ASSUME IInv, NEW r \in Calls, Commit(r) PROVE OneBandPerScore'
<1>1. CASE call[r].op # "Band"
  BY <1>1 DEF Commit, IInv, OneBandPerScore
<1>2. CASE call[r].op = "Band"
  <2> DEFINE new == [id |-> r, rubric |-> call[r].row, range |-> call[r].body]
  <2>1. bands' = bands \cup {new} /\ bands \subseteq Band
    BY <1>2 DEF Commit, IInv, TypeOK
  <2>2. ~Overlapping(r) /\ call[r].body \in Interval
    BY <1>2, CommitFacts DEF Cleared, Typed
  <2>3. ASSUME NEW b \in bands, b.rubric = new.rubric
        PROVE  ~Overlap(b.range, new.range) /\ ~Overlap(new.range, b.range)
    <3>1. ~Overlap(b.range, call[r].body)
      BY <2>2, <2>3 DEF Overlapping, BandsOf
    <3>2. b.range \in Interval
      BY <2>1 DEF Band
    <3>3. ~Overlap(call[r].body, b.range)
      BY <2>2, <3>1, <3>2, OverlapSymmetry
    <3> QED BY <3>1, <3>3
  <2>4. ASSUME NEW b \in bands', NEW d \in bands', b.rubric = d.rubric, Overlap(b.range, d.range)
        PROVE  b = d
    <3>1. CASE b \in bands /\ d \in bands
      BY <2>4, <3>1 DEF IInv, OneBandPerScore
    <3>2. CASE b = new \/ d = new
      BY <2>1, <2>3, <2>4, <3>2
    <3> QED BY <2>1, <3>1, <3>2
  <2> QED BY <2>4 DEF OneBandPerScore
<1> QED BY <1>1, <1>2

LEMMA CommitAudit == ASSUME IInv, NEW r \in Calls, Commit(r) PROVE AuditTells'
<1> DEFINE i == Target(r)
           told(op) == {<<a.row, a.by>> : a \in {x \in audit : x.action = op}}
           told2(op) == {<<a.row, a.by>> : a \in {x \in audit' : x.action = op}}
           made == {<<j, rubrics[j].creator>> : j \in {k \in Rows : ~Absent(rubrics[k])}}
           shut == {<<j, rubrics[j].reason>> : j \in {k \in Rows : rubrics[k].status = "archived"}}
           act == IF call[r].op = "Clone" THEN "Create" ELSE call[r].op
<1>1. /\ i \in Rows /\ rubrics' = [rubrics EXCEPT ![i] = Written(r)] /\ rubrics \in [Rows -> Row]
      /\ Typed(call[r], r) /\ TypeOK
      /\ call[r].op \notin Edit => i = r /\ Absent(rubrics[r])
      /\ call[r].op \in Edit => i = call[r].row /\ rubrics[i].status \in {"draft", "active"}
  BY CommitFacts DEF IInv, TypeOK
<1>2. audit' = audit \cup {Recorded(r)}
  BY DEF Commit
<1>3. Recorded(r).row = i /\ Recorded(r).by = r /\ Recorded(r).action = act
  BY <1>1, RecordedFields
<1>4. ASSUME NEW op PROVE told2(op) = told(op) \cup (IF act = op THEN {<<i, r>>} ELSE {})
  BY <1>2, <1>3
<1>5. told("Create") = made /\ told("Archive") = shut
  BY DEF IInv, AuditTells
<1>6. told2("Create") = {<<j, rubrics'[j].creator>> : j \in {k \in Rows : ~Absent(rubrics'[k])}}
  <2>1. CASE call[r].op \in {"Create", "Clone"}
    <3>1. /\ ~Absent(Written(r)) /\ Written(r).creator = r /\ act = "Create" /\ i = r
      BY <1>1, <2>1, WrittenFields DEF Absent, Edit
    <3>2. Absent(rubrics[i])
      BY <1>1, <2>1 DEF Edit
    <3> QED BY <1>1, <1>4, <1>5, <3>1, <3>2
  <2>2. CASE call[r].op \in Edit
    <3>1. ~Absent(Written(r)) /\ Written(r).creator = rubrics[i].creator
      <4>1. CASE call[r].op = "Archive"
        BY <1>1, <2>2, <4>1, WrittenFields DEF Absent
      <4>2. CASE call[r].op = "Update"
        <5>1. call[r].body.status \in Status \cup {""}
          BY <1>1, <4>2 DEF Typed, Change
        <5> QED BY <1>1, <2>2, <4>2, <5>1, WrittenFields DEF Absent, Status
      <4>3. CASE call[r].op \in {"Criterion", "Band"}
        BY <1>1, <2>2, <4>3, WrittenFields DEF Absent
      <4> QED BY <2>2, <4>1, <4>2, <4>3 DEF Edit
    <3>2. ~Absent(rubrics[i]) /\ act # "Create"
      BY <1>1, <2>2 DEF Absent, Edit
    <3>3. \A j \in Rows : /\ Absent(rubrics'[j]) <=> Absent(rubrics[j])
                          /\ rubrics'[j].creator = rubrics[j].creator
      BY <1>1, <3>1, <3>2
    <3>4. told2("Create") = made
      BY <1>4, <1>5, <3>2
    <3> QED BY <3>3, <3>4
  <2> QED BY <1>1, <2>1, <2>2 DEF Typed
<1>7. told2("Archive") = {<<j, rubrics'[j].reason>> : j \in {k \in Rows : rubrics'[k].status = "archived"}}
  <2>1. rubrics[i].status # "archived"
    BY <1>1 DEF Absent
  <2>2. CASE call[r].op = "Archive"
    <3>1. Written(r).status = "archived" /\ Written(r).reason = r /\ act = "Archive"
      BY <1>1, <2>2, WrittenFields
    <3> QED BY <1>1, <1>4, <1>5, <2>1, <3>1
  <2>3. CASE call[r].op # "Archive"
    <3>1. Written(r).status # "archived"
      <4>1. ArchivedForReason'
        BY CommitReason
      <4>2. Written(r).reason = Nobody
        <5>1. CASE call[r].op \notin Edit
          BY <1>1, <5>1, WrittenFields DEF Typed
        <5>2. CASE call[r].op \in Edit
          <6>1. rubrics[i].reason = Nobody
            BY <1>1, <2>1 DEF IInv, ArchivedForReason
          <6> QED BY <1>1, <2>3, <5>2, <6>1, WrittenFields DEF Edit
        <5> QED BY <5>1, <5>2
      <4> QED BY <1>1, <4>1, <4>2 DEF ArchivedForReason
    <3>2. act # "Archive"
      BY <2>3
    <3>3. told2("Archive") = shut
      BY <1>4, <1>5, <3>2
    <3>4. \A j \in Rows : /\ rubrics'[j].status = "archived" <=> rubrics[j].status = "archived"
                          /\ rubrics[j].status = "archived" => rubrics'[j].reason = rubrics[j].reason
      BY <1>1, <2>1, <3>1
    <3> QED BY <3>3, <3>4
  <2> QED BY <2>2, <2>3
<1>8. told2("Criterion") = {<<c.rubric, c.id>> : c \in criteria'}
  <2>1. told("Criterion") = {<<c.rubric, c.id>> : c \in criteria}
    BY DEF IInv, AuditTells
  <2>2. CASE call[r].op = "Criterion"
    <3> DEFINE new == [id |-> r, rubric |-> call[r].row, weight |-> call[r].body]
    <3>1. criteria' = criteria \cup {new} /\ i = call[r].row /\ act = "Criterion"
      BY <1>1, <2>2 DEF Commit, Edit
    <3>2. new.rubric = i /\ new.id = r
      BY <3>1
    <3> HIDE DEF new
    <3> QED BY <1>4, <2>1, <3>1, <3>2
  <2>3. CASE call[r].op # "Criterion"
    <3>1. criteria' = criteria /\ act # "Criterion"
      BY <2>3 DEF Commit
    <3> QED BY <1>4, <2>1, <3>1
  <2> QED BY <2>2, <2>3
<1>9. told2("Band") = {<<b.rubric, b.id>> : b \in bands'}
  <2>1. told("Band") = {<<b.rubric, b.id>> : b \in bands}
    BY DEF IInv, AuditTells
  <2>2. CASE call[r].op = "Band"
    <3> DEFINE new == [id |-> r, rubric |-> call[r].row, range |-> call[r].body]
    <3>1. bands' = bands \cup {new} /\ i = call[r].row /\ act = "Band"
      BY <1>1, <2>2 DEF Commit, Edit
    <3>2. new.rubric = i /\ new.id = r
      BY <3>1
    <3> HIDE DEF new
    <3> QED BY <1>4, <2>1, <3>1, <3>2
  <2>3. CASE call[r].op # "Band"
    <3>1. bands' = bands /\ act # "Band"
      BY <2>3 DEF Commit
    <3> QED BY <1>4, <2>1, <3>1
  <2> QED BY <2>2, <2>3
<1> QED BY <1>6, <1>7, <1>8, <1>9 DEF AuditTells

LEMMA CommitAnswers == ASSUME IInv, NEW r \in Calls, Commit(r) PROVE AnswersTrue'
<1>1. /\ audit' = audit \cup {Recorded(r)} /\ Recorded(r).by = r
      /\ answer'[r] \in {"ok", "error"}
      /\ \A q \in Calls \ {r} : answer'[q] = answer[q]
  BY CommitFacts, CommitEnds, RecordedFields DEF Commit
<1>2. ASSUME NEW q \in Calls
      PROVE  LET told == \E a \in audit' : a.by = q IN
             /\ answer'[q] = "ok" => told
             /\ answer'[q] \notin {"ok", "error"} => ~told
  <2>1. CASE q = r
    BY <1>1, <2>1
  <2>2. CASE q # r
    BY <1>1, <2>2 DEF IInv, AnswersTrue
  <2> QED BY <2>1, <2>2
<1> QED BY <1>2 DEF AnswersTrue

-----------------------------------------------------------------------------
LEMMA NextInv ==
  ASSUME IInv, [Next]_vars
  PROVE  IInv'
<1>1. CASE UNCHANGED vars
  <2>1. TypeOK' /\ OneActivePerScope' /\ ArchivedForReason' /\ OneBandPerScore' /\ AnswersTrue'
    BY <1>1 DEF vars, IInv, TypeOK, OneActivePerScope, ArchivedForReason, OneBandPerScore,
                AnswersTrue
  <2>2. AuditTells'
    BY <1>1 DEF vars, IInv, AuditTells
  <2>3. ASSUME NEW q \in Calls PROVE CallOK(q)'
    <3>1. CallOK(q)
      BY DEF IInv, CallInv
    <3>2. Cleared(q)' <=> Cleared(q)
      BY <1>1 DEF vars, Cleared, Duplicate, Unreasoned, Overlapping, BandsOf, Written
    <3>3. Locked(q)' <=> Locked(q)
      BY <1>1 DEF vars, Locked, Refusal, Asked
    <3> QED BY <1>1, <3>1, <3>2, <3>3 DEF vars, CallOK, Typed
  <2>4. ASSUME NEW q \in Calls PROVE Reserved(q)'
    BY <1>1 DEF vars, IInv, CallInv, Reserved, Written
  <2>5. DOMAIN call' = Calls
    BY <1>1 DEF vars, IInv, CallInv
  <2> QED BY <2>1, <2>2, <2>3, <2>4, <2>5 DEF IInv, CallInv
<1>2. ASSUME NEW r \in Calls, Commit(r) PROVE IInv'
  BY <1>2, CommitTypes, CommitCalls, CommitOne, CommitReason, CommitBands, CommitAudit,
     CommitAnswers DEF IInv
<1>3. ASSUME NEW r \in Calls, Abort(r) PROVE IInv'
  BY <1>3, ReturnInv DEF Abort, Answer
<1> QED BY <1>1, <1>2, <1>3, ArriveInv, LookInv, CountInv, LockInv, WriteInv DEF Next

\* The invariant holds always, for any calls, drafts, names and scopes.
THEOREM Invariance == Spec => []IInv
<1>1. IInv /\ [Next]_vars => IInv'
  BY NextInv
<1> QED BY <1>1, InitInv, PTL DEF Spec

\* TypeOK for any constants.
THEOREM TypeCorrect == Spec => []TypeOK
<1>1. IInv => TypeOK
  BY DEF IInv
<1> QED BY <1>1, Invariance, PTL

\* OneActivePerScope for any constants: the index keeps what the handlers' early
\* checks cannot.
THEOREM ActiveOnce == Spec => []OneActivePerScope
<1>1. IInv => OneActivePerScope
  BY DEF IInv
<1> QED BY <1>1, Invariance, PTL

\* ArchivedForReason for any constants.
THEOREM ReasonSound == Spec => []ArchivedForReason
<1>1. IInv => ArchivedForReason
  BY DEF IInv
<1> QED BY <1>1, Invariance, PTL

\* OneBandPerScore for any constants.
THEOREM BandsDisjoint == Spec => []OneBandPerScore
<1>1. IInv => OneBandPerScore
  BY DEF IInv
<1> QED BY <1>1, Invariance, PTL

\* AuditTells for any constants.
THEOREM AuditTrail == Spec => []AuditTells
<1>1. IInv => AuditTells
  BY DEF IInv
<1> QED BY <1>1, Invariance, PTL

\* AnswersTrue for any constants.
THEOREM TruthfulAnswers == Spec => []AnswersTrue
<1>1. IInv => AnswersTrue
  BY DEF IInv
<1> QED BY <1>1, Invariance, PTL

\* What the property says of one step.
Final ==
  \A i \in Rows :
    /\ rubrics[i].status = "active" => rubrics'[i].status # "draft"
    /\ rubrics[i].status = "archived" =>
         /\ rubrics'[i] = rubrics[i]
         /\ {c \in criteria' : c.rubric = i} = {c \in criteria : c.rubric = i}
         /\ {b \in bands' : b.rubric = i} = BandsOf(i)

LEMMA CommitFinal == ASSUME IInv, NEW r \in Calls, Commit(r) PROVE Final
<1> DEFINE t == Target(r)
<1>1. /\ t \in Rows /\ rubrics' = [rubrics EXCEPT ![t] = Written(r)] /\ rubrics \in [Rows -> Row]
      /\ Typed(call[r], r) /\ TypeOK
      /\ call[r].op \notin Edit => t = r /\ Absent(rubrics[r])
      /\ call[r].op \in Edit =>
           t = call[r].row /\ Locked(r) /\ rubrics[t].status \in {"draft", "active"}
  BY CommitFacts DEF IInv, TypeOK
<1>2. rubrics[t].status # "archived"
  BY <1>1 DEF Absent
<1>3. rubrics[t].status = "active" => Written(r).status # "draft"
  <2> SUFFICES ASSUME rubrics[t].status = "active" PROVE Written(r).status # "draft"
    OBVIOUS
  <2>1. call[r].op \in Edit
    BY <1>1 DEF Absent
  <2>2. CASE call[r].op = "Update"
    <3>1. call[r].body.status \in {"", "active", "archived"}
      <4>1. Refusal(r, rubrics[t].status) = "none" /\ "active" \in Status \cup {"absent"}
        BY <1>1, <2>1 DEF Locked, Status
      <4> QED BY <1>1, <2>1, <2>2, <4>1, Unrefused
    <3> QED BY <1>1, <2>1, <2>2, <3>1, WrittenFields
  <2>3. CASE call[r].op # "Update"
    BY <1>1, <2>1, <2>3, WrittenFields DEF Edit
  <2> QED BY <2>2, <2>3
<1>4. ASSUME NEW i \in Rows, rubrics[i].status = "archived"
      PROVE  /\ rubrics'[i] = rubrics[i]
             /\ {c \in criteria' : c.rubric = i} = {c \in criteria : c.rubric = i}
             /\ {b \in bands' : b.rubric = i} = BandsOf(i)
  <2>1. i # t
    BY <1>2, <1>4
  <2>2. call[r].op \in {"Criterion", "Band"} => call[r].row # i
    BY <1>1, <2>1 DEF Edit
  <2>3. {c \in criteria' : c.rubric = i} = {c \in criteria : c.rubric = i}
    BY <2>2 DEF Commit
  <2>4. {b \in bands' : b.rubric = i} = BandsOf(i)
    BY <2>2 DEF Commit, BandsOf
  <2> QED BY <1>1, <2>1, <2>3, <2>4
<1> QED BY <1>1, <1>3, <1>4 DEF Final

\* ArchivedIsFinal for any constants: an archived rubric keeps everything.
THEOREM Finality == Spec => ArchivedIsFinal
<1>1. ASSUME IInv, [Next]_vars PROVE [Final]_vars
  <2>1. ASSUME NEW r \in Calls, Commit(r) PROVE Final
    BY <1>1, <2>1, CommitFinal
  <2>2. ASSUME NEW r \in Calls,
               Arrive(r) \/ Look(r) \/ Count(r) \/ Lock(r) \/ Write(r) \/ Abort(r)
        PROVE  UNCHANGED Tables
    BY <2>2 DEF Arrive, Look, Count, Lock, Write, Abort, Return, Goto, Tables
  <2>3. UNCHANGED Tables => Final
    BY DEF Tables, Final, BandsOf
  <2> QED BY <1>1, <2>1, <2>2, <2>3 DEF Next
<1> QED BY <1>1, Invariance, PTL DEF Spec, ArchivedIsFinal, Final

-----------------------------------------------------------------------------
(* Waiting: a call waits for the row's lock and for a key of the index.    *)

Active(r) == pc[r] \notin {"idle", "done"}

\* A call is not kept waiting.
Ready(r) ==
  \/ pc[r] \in {"look", "count", "commit"}
  \/ pc[r] = "lock" /\ rowLock[call[r].row] = Nobody
  \/ pc[r] = "write" /\ ~(call[r].op = "Update" /\ KeyInDoubt(r))

\* Row before key: who holds a row has only the index left to wait for.
HoldersActive == \A i \in Rows : rowLock[i] # Nobody => pc[rowLock[i]] \in {"write", "commit"}

\* As long as a call is in flight, some call can take its next step.
SomeoneReady == (\E r \in Calls : Active(r)) => \E r \in Calls : Ready(r)

\* How many steps a call is from its answer, at most.
Distance(r) ==
  CASE pc[r] = "idle" -> 6  [] pc[r] = "look" -> 5  [] pc[r] = "count" -> 4
    [] pc[r] = "lock" -> 3  [] pc[r] = "write" -> 2 [] pc[r] = "commit" -> 1
    [] OTHER -> 0

\* No step takes a call further from its answer, and each brings one nearer.
Nearer ==
  /\ \A r \in Calls : Distance(r)' <= Distance(r)
  /\ \E r \in Calls : Distance(r)' < Distance(r)

\* What a step of a call does to the waiting: it ends the call and gives its row
\* back, or takes the row, or goes on.
Ends(r) ==
  /\ Active(r) /\ pc'[r] = "done"
  /\ rowLock' = [i \in Rows |-> IF rowLock[i] = r THEN Nobody ELSE rowLock[i]]

Takes(r) ==
  /\ pc[r] = "lock" /\ pc'[r] = "write"
  /\ rowLock' = [rowLock EXCEPT ![call[r].row] = r]

Goes(r) ==
  /\ \/ pc[r] = "idle" /\ pc'[r] \in {"look", "count", "lock", "write"}
     \/ pc[r] = "look" /\ pc'[r] \in {"count", "write"}
     \/ pc[r] = "count" /\ pc'[r] = "lock"
     \/ pc[r] = "write" /\ pc'[r] = "commit"
  /\ rowLock' = rowLock

\* What a caller may ask for.
LEMMA Operands ==
  ASSUME NEW c \in Call
  PROVE  /\ c.op \in {"Create", "Clone", "Archive", "Update", "Criterion", "Band"}
         /\ \A i : LET new == [c EXCEPT !.row = i] IN
              new.op = c.op /\ new.row = i /\ new.body = c.body
<1>1. \/ c \in [op : {"Create"} \cap Operations, row : {Nobody}, body : Identity]
      \/ c \in [op : {"Clone", "Archive"} \cap Operations, row : Rows, body : {""}]
      \/ c \in [op : {"Update"} \cap Operations, row : Rows, body : Change]
      \/ c \in [op : {"Criterion"} \cap Operations, row : Rows, body : Weights]
      \/ c \in [op : {"Band"} \cap Operations, row : Rows, body : Interval]
  BY DEF Call
<1> QED BY <1>1

LEMMA Steps ==
  ASSUME IInv, Next
  PROVE  \E r \in Calls : /\ \A q \in Calls \ {r} : pc'[q] = pc[q]
                          /\ Ends(r) \/ Takes(r) \/ Goes(r)
<1>1. PICK r \in Calls : \/ Arrive(r) \/ Look(r) \/ Count(r) \/ Lock(r) \/ Write(r)
                         \/ Commit(r) \/ Abort(r)
  BY DEF Next
<1>2. pc \in [Calls -> Step]
  BY DEF IInv, TypeOK
<1>3. ASSUME NEW a, Finish(r, a), Active(r)
      PROVE  (\A q \in Calls \ {r} : pc'[q] = pc[q]) /\ Ends(r)
  BY <1>2, <1>3 DEF Finish, Ends
<1>4. ASSUME NEW step, Goto(r, step)
      PROVE  pc'[r] = step /\ \A q \in Calls \ {r} : pc'[q] = pc[q]
  BY <1>2, <1>4 DEF Goto
<1>5. CASE Arrive(r)
  <2>1. PICK c \in Call : pc' = [pc EXCEPT ![r] = FirstStep(c.op)]
    BY <1>5 DEF Arrive
  <2>2. c.op \in {"Create", "Clone", "Archive", "Update", "Criterion", "Band"}
    BY Operands
  <2>3. FirstStep(c.op) \in {"look", "count", "lock", "write"}
    BY <2>2 DEF FirstStep
  <2> HIDE DEF FirstStep
  <2>4. Goes(r) /\ \A q \in Calls \ {r} : pc'[q] = pc[q]
    BY <1>2, <1>5, <2>1, <2>3 DEF Arrive, Goes
  <2> QED BY <2>4
<1>6. CASE Look(r)
  <2>1. pc[r] = "look" /\ Active(r)
    BY <1>6 DEF Look, Active
  <2>2. CASE Return(r, "notfound") \/ Return(r, "archived")
    BY <1>3, <2>1, <2>2 DEF Return
  <2>3. CASE Goto(r, IF call[r].op = "Clone" THEN "write" ELSE "count") /\ UNCHANGED rowLock
    BY <1>4, <2>1, <2>3 DEF Goes
  <2> QED BY <1>6, <2>2, <2>3 DEF Look
<1>7. CASE Count(r)
  <2>1. pc[r] = "count" /\ Active(r)
    BY <1>7 DEF Count, Active
  <2>2. CASE Return(r, Objection(r))
    BY <1>3, <2>1, <2>2 DEF Return
  <2>3. CASE Goto(r, "lock") /\ UNCHANGED <<rowLock, seen>>
    BY <1>4, <2>1, <2>3 DEF Goes
  <2> QED BY <1>7, <2>2, <2>3 DEF Count
<1>8. CASE Lock(r)
  <2> DEFINE refusal == Refusal(r, rubrics[call[r].row].status)
  <2>1. pc[r] = "lock" /\ Active(r)
    BY <1>8 DEF Lock, Active
  <2>2. CASE Return(r, refusal)
    BY <1>3, <2>1, <2>2 DEF Return
  <2>3. CASE rowLock' = [rowLock EXCEPT ![call[r].row] = r] /\ Goto(r, "write")
    BY <1>4, <2>1, <2>3 DEF Takes
  <2> QED BY <1>8, <2>2, <2>3 DEF Lock
<1>9. CASE Write(r)
  <2>1. pc[r] = "write" /\ Active(r)
    BY <1>9 DEF Write, Active
  <2>2. CASE Return(r, Violated(r))
    BY <1>3, <2>1, <2>2 DEF Return
  <2>3. CASE Goto(r, "commit") /\ UNCHANGED <<rowLock, seen>>
    BY <1>4, <2>1, <2>3 DEF Goes
  <2> QED BY <1>9, <2>2, <2>3 DEF Write
<1>10. CASE Commit(r)
  BY <1>3, <1>10 DEF Commit, Active
<1>11. CASE Abort(r)
  BY <1>3, <1>11 DEF Abort, Return, Active
<1> QED BY <1>1, <1>5, <1>6, <1>7, <1>8, <1>9, <1>10, <1>11

LEMMA HoldersStep == ASSUME IInv, HoldersActive, [Next]_vars PROVE HoldersActive'
<1>1. CASE UNCHANGED vars
  BY <1>1 DEF vars, HoldersActive
<1>2. CASE Next
  <2>1. PICK r \in Calls : /\ \A q \in Calls \ {r} : pc'[q] = pc[q]
                           /\ Ends(r) \/ Takes(r) \/ Goes(r)
    BY <1>2, Steps
  <2>2. rowLock \in [Rows -> Calls \cup {Nobody}]
    BY DEF IInv, TypeOK
  <2>3. CASE Ends(r)
    BY <2>1, <2>2, <2>3 DEF Ends, HoldersActive
  <2>4. CASE Takes(r)
    BY <2>1, <2>2, <2>4 DEF Takes, HoldersActive
  <2>5. CASE Goes(r)
    BY <2>1, <2>2, <2>5 DEF Goes, HoldersActive
  <2> QED BY <2>1, <2>3, <2>4, <2>5
<1> QED BY <1>1, <1>2

\* Walk from a waiting call to the one it waits for: a holder of a row is about to
\* write or to commit, and who keeps a key in doubt is about to commit.
LEMMA HoldersSuffice == ASSUME IInv, HoldersActive PROVE SomeoneReady
<1> SUFFICES ASSUME NEW r \in Calls, Active(r) PROVE \E q \in Calls : Ready(q)
  BY DEF SomeoneReady
<1>1. ASSUME NEW q \in Calls, pc[q] \in {"write", "commit"} PROVE \E p \in Calls : Ready(p)
  <2>1. CASE Ready(q)
    BY <2>1
  <2>2. CASE ~Ready(q)
    <3>1. KeyInDoubt(q)
      BY <1>1, <2>2 DEF Ready
    <3>2. PICK p \in Calls \ {q} : pc[p] = "commit"
      BY <3>1 DEF KeyInDoubt
    <3> QED BY <3>2 DEF Ready
  <2> QED BY <2>1, <2>2
<1>2. CASE pc[r] = "lock"
  <2> DEFINE i == call[r].row
  <2>1. i \in Rows /\ rowLock \in [Rows -> Calls \cup {Nobody}]
    BY DEF IInv, TypeOK, Active
  <2>2. CASE rowLock[i] = Nobody
    BY <1>2, <2>2 DEF Ready
  <2>3. CASE rowLock[i] # Nobody
    <3>1. rowLock[i] \in Calls /\ pc[rowLock[i]] \in {"write", "commit"}
      BY <2>1, <2>3 DEF HoldersActive
    <3> QED BY <1>1, <3>1
  <2> QED BY <2>2, <2>3
<1>3. pc[r] \in {"look", "count", "lock", "write", "commit"}
  BY DEF IInv, TypeOK, Step, Active
<1> QED BY <1>1, <1>2, <1>3 DEF Ready

\* Whatever the calls, the locks of the rows and the unique index never make them
\* all wait: two activations that bring each other's key do not block each other,
\* because a key is in doubt only while its writer has nothing left to wait for.
THEOREM NoDeadlock == Spec => []SomeoneReady
<1>1. Init => HoldersActive
  BY DEF Init, HoldersActive
<1>2. IInv /\ HoldersActive /\ [Next]_vars => HoldersActive'
  BY HoldersStep
<1>3. IInv /\ HoldersActive => SomeoneReady
  BY HoldersSuffice
<1> QED BY <1>1, <1>2, <1>3, Invariance, PTL DEF Spec

\* Each step brings a call nearer to its answer and takes none further from it:
\* no handler retries, so finitely many calls take finitely many steps.
THEOREM EveryStepCounts == Spec => [][Nearer]_vars
<1>1. ASSUME IInv, Next PROVE Nearer
  <2>1. PICK r \in Calls : /\ \A q \in Calls \ {r} : pc'[q] = pc[q]
                           /\ Ends(r) \/ Takes(r) \/ Goes(r)
    BY <1>1, Steps
  <2>2. pc[r] \in Step
    BY <1>1 DEF IInv, TypeOK
  <2>3. Distance(r)' < Distance(r) /\ Distance(r)' <= Distance(r)
    BY <2>1, <2>2 DEF Ends, Takes, Goes, Distance, Step, Active
  <2>4. ASSUME NEW q \in Calls \ {r} PROVE Distance(q)' <= Distance(q)
    BY <2>1 DEF Distance
  <2> QED BY <2>3, <2>4 DEF Nearer
<1>2. IInv /\ [Next]_vars => [Nearer]_vars
  BY <1>1
<1> QED BY <1>2, Invariance, PTL DEF Spec

-----------------------------------------------------------------------------
(* The refinement.                                                         *)

\* What the rest of the invariant leaves open: a call that has not arrived has no
\* body, and a clone has seen a rubric that was not archived.
Looked(q) ==
  /\ pc[q] = "idle" => call[q] = NoCall
  /\ pc[q] \in {"write", "commit"} /\ call[q].op = "Clone" => seen[q].status \in {"draft", "active"}

HInv == IInv /\ \A q \in Calls : Looked(q)

LEMMA LookedStep == ASSUME HInv, [Next]_vars, NEW q \in Calls PROVE Looked(q)'
<1> USE DEF HInv, IInv, TypeOK, CallInv
<1>1. CASE UNCHANGED vars
  BY <1>1 DEF vars, Looked
<1>2. ASSUME NEW r \in Calls \ {q},
             \/ Arrive(r) \/ Look(r) \/ Count(r) \/ Lock(r) \/ Write(r) \/ Commit(r) \/ Abort(r)
      PROVE  pc'[q] = pc[q] /\ call'[q] = call[q] /\ seen'[q] = seen[q]
  BY <1>2 DEF Arrive, Look, Count, Lock, Write, Commit, Abort, Return, Finish, Goto
<1>3. CASE Arrive(q)
  <2>1. PICK c \in Call :
          /\ call' = [call EXCEPT ![q] = [c EXCEPT !.row = IF c.op = "Create" THEN q ELSE @]]
          /\ pc' = [pc EXCEPT ![q] = FirstStep(c.op)]
    BY <1>3 DEF Arrive
  <2>2. c.op = "Clone" => pc'[q] = "look"
    BY <2>1 DEF FirstStep
  <2>3. c.op \in {"Create", "Clone", "Archive", "Update", "Criterion", "Band"}
    BY Operands
  <2>4. pc'[q] # "idle"
    BY <2>1, <2>3 DEF FirstStep
  <2>5. call'[q].op = c.op
    BY <2>1, Operands
  <2> QED BY <2>2, <2>4, <2>5 DEF Looked
<1>4. CASE pc'[q] = "done"
  BY <1>4 DEF Looked
<1>5. CASE Look(q) /\ Goto(q, IF call[q].op = "Clone" THEN "write" ELSE "count")
  <2>1. pc[q] = "look" /\ CallOK(q) /\ call' = call
    BY <1>5 DEF Look, Goto
  <2>2. CASE call[q].op = "Clone"
    <3>1. call[q].row \in Rows
      BY <2>1
    <3>2. seen'[q] = rubrics[call[q].row] /\ seen'[q].status \notin {"absent", "archived"}
      BY <1>5, <2>1, <2>2 DEF Look, Return, Finish, Goto, Absent
    <3>3. rubrics[call[q].row].status \in Status \cup {"absent"}
      BY <3>1 DEF Row
    <3>4. pc'[q] = "write"
      BY <1>5, <2>2 DEF Goto
    <3> QED BY <3>2, <3>3, <3>4 DEF Looked, Status
  <2>3. CASE call[q].op # "Clone"
    <3>1. pc'[q] = "count"
      BY <1>5, <2>3 DEF Goto
    <3> QED BY <3>1 DEF Looked
  <2> QED BY <2>2, <2>3
<1>6. ASSUME Count(q) \/ Lock(q) \/ Write(q), pc'[q] # "done" PROVE Looked(q)'
  <2>1. /\ call' = call /\ seen' = seen /\ CallOK(q)
        /\ pc[q] \in {"count", "lock", "write"} /\ pc'[q] # "idle"
        /\ pc'[q] \in {"write", "commit"} => pc[q] \in {"lock", "write"}
    BY <1>6 DEF Count, Lock, Write, Return, Finish, Goto
  <2>2. pc[q] = "lock" => call[q].op # "Clone"
    BY <2>1 DEF CallOK, Edit
  <2> QED BY <2>1, <2>2 DEF Looked
<1>7. ASSUME Look(q) \/ Commit(q) \/ Abort(q)
      PROVE  \/ pc'[q] = "done"
             \/ Look(q) /\ Goto(q, IF call[q].op = "Clone" THEN "write" ELSE "count")
  BY <1>7 DEF Look, Commit, Abort, Return, Finish
<1> QED BY <1>1, <1>2, <1>3, <1>4, <1>5, <1>6, <1>7 DEF Next, Looked

\* The names of this module for what the abstract one defines.
LEMMA Same ==
  /\ History!Rows = Rows /\ History!Blank = NoRow /\ History!NoQuestion = NoCall
  /\ History!Title = Identity /\ History!Edit = Change /\ History!Interval = Interval
  /\ \A i, title : History!Draft(i, title) = Inserted(i, title)
BY DEF History!Rows, Rows, History!Blank, NoRow, History!NoQuestion, NoCall, History!Title,
       Identity, History!Edit, Change, Status, History!Interval, Interval, History!Draft, Inserted

LEMMA InitMaps == Init => History!Init
BY Same DEF Init, History!Init, History!Event

\* The end of a call is its answer.
LEMMA FinishMaps == ASSUME NEW r \in Calls, NEW a, Finish(r, a) PROVE History!Answer(r, a)
BY Same DEF Finish, History!Answer

LEMMA Underway ==
  ASSUME IInv, NEW r \in Calls, pc[r] \notin {"idle", "done"}
  PROVE  History!Open(r) /\ Typed(call[r], r) /\ answer[r] = "none"
<1>1. CallOK(r)
  BY DEF IInv, CallInv
<1>2. Typed(call[r], r) /\ answer[r] = "none"
  BY <1>1 DEF CallOK
<1>3. call[r].op # NoCall.op
  BY <1>2 DEF Typed, Edit, NoCall
<1>4. call[r] # History!NoQuestion
  BY <1>3, Same
<1> QED BY <1>2, <1>4 DEF History!Open

LEMMA DeclineMaps ==
  ASSUME IInv, NEW r \in Calls, pc[r] \notin {"idle", "done"},
         NEW a \in History!Refusals(r) \cup {"error"}, Return(r, a)
  PROVE  History!Decline(r)
BY Underway, FinishMaps DEF Return, History!Decline

\* The status a call sees in the table.
LEMMA Statuses ==
  ASSUME IInv, NEW r \in Calls, pc[r] \notin {"idle", "done"}
  PROVE  /\ History!Subject(r) = rubrics[call[r].row] /\ call[r].row \in Rows
         /\ rubrics[call[r].row] \in Row
         /\ rubrics[call[r].row].status \in {"absent", "draft", "active", "archived"}
BY DEF IInv, TypeOK, Row, Status, History!Subject

\* A call that was turned down under the lock, or looks up a rubric in vain.
LEMMA RefusalIsTrue ==
  ASSUME IInv, NEW r \in Calls, pc[r] \notin {"idle", "done"}, call[r].op \in Edit,
         Refusal(r, rubrics[call[r].row].status) # "none"
  PROVE  Refusal(r, rubrics[call[r].row].status) \in History!Refusals(r)
<1> DEFINE s == rubrics[call[r].row].status
           a == Refusal(r, s)
<1>1. History!Subject(r).status = s /\ s \in {"absent", "draft", "active", "archived"}
  BY Statuses
<1>2. CASE s = "absent"
  <2>1. a = "notfound" /\ call[r].op # "Create"
    BY <1>2 DEF Refusal, Absent, Edit
  <2> QED BY <1>1, <1>2, <2>1 DEF History!Refusals
<1>3. CASE s = "archived" /\ call[r].op # "Archive"
  <2>1. a = "archived" /\ call[r].op # "Create"
    BY <1>3 DEF Refusal, Absent, Edit
  <2> QED BY <1>1, <1>3, <2>1 DEF History!Refusals
<1>4. CASE s # "absent" /\ ~(s = "archived" /\ call[r].op # "Archive")
  <2>1. PICK next \in Asked(r, s) : <<s, next>> \notin allowedRubricTransitions
    BY <1>4 DEF Refusal, Absent
  <2>2. a = "badstatus"
    BY <1>4, <2>1 DEF Refusal, Absent
  <2>3. CASE call[r].op = "Archive"
    <3>1. s # "active"
      BY <2>1, <2>3 DEF Asked, allowedRubricTransitions
    <3> QED BY <1>1, <2>2, <2>3, <3>1 DEF History!Refusals
  <2>4. CASE call[r].op = "Update"
    <3>1. next = call[r].body.status /\ next \notin {"", s}
      BY <2>1, <2>4 DEF Asked
    <3>2. s # "draft" \/ next # "active"
      BY <2>1 DEF allowedRubricTransitions
    <3> QED BY <1>1, <2>2, <2>4, <3>1, <3>2 DEF History!Refusals
  <2>5. call[r].op \in {"Archive", "Update"}
    BY <2>1 DEF Asked, Edit
  <2> QED BY <2>3, <2>4, <2>5
<1> QED BY <1>2, <1>3, <1>4

\* Neighbours and bands are the same for both modules.
LEMMA SameConstraints ==
  ASSUME IInv, NEW r \in Calls, pc[r] \notin {"idle", "done"}
  PROVE  /\ call[r].op = "Update" =>
              /\ Written(r) = History!Edited(History!Subject(r), call[r].body)
              /\ Duplicate(r) <=> History!HasRival(r)
         /\ Overlapping(r) <=> History!Overlaps(r)
         /\ ActiveIn(call[r].body.scope) <=> History!ScopeTaken(call[r].body.scope)
<1>1. Overlapping(r) <=> History!Overlaps(r)
  BY DEF Overlapping, BandsOf, Overlap, History!Overlaps
<1>2. ActiveIn(call[r].body.scope) <=> History!ScopeTaken(call[r].body.scope)
  BY Same DEF ActiveIn, History!ScopeTaken
<1>3. ASSUME call[r].op = "Update"
      PROVE  Written(r) = History!Edited(History!Subject(r), call[r].body)
  BY <1>3 DEF Written, History!Edited, History!Subject
<1>4. ASSUME call[r].op = "Update" PROVE Duplicate(r) <=> History!HasRival(r)
  BY <1>3, <1>4, Same DEF Duplicate, SameKey, History!HasRival, History!Rivals
<1> QED BY <1>1, <1>2, <1>3, <1>4

LEMMA SameWeight == \A i : WeightOf(i) = History!Load(i)
BY DEF WeightOf, History!Load, MapThenSumSet, History!MapThenSumSet, MapThenFoldSet, History!MapThenFoldSet

\* What the handlers' early checks refuse is true at that moment.
LEMMA ObjectionIsTrue ==
  ASSUME IInv, NEW r \in Calls, pc[r] \notin {"idle", "done"}, Objection(r) # "none"
  PROVE  Objection(r) \in History!Refusals(r)
<1> DEFINE body == call[r].body
<1>1. CASE call[r].op = "Update" /\ body.status = "active" /\ ActiveIn(body.scope)
           /\ Objection(r) = "duplicate"
  BY <1>1, SameConstraints DEF History!Refusals
<1>2. CASE call[r].op = "Criterion" /\ WeightOf(call[r].row) + body > Full
           /\ Objection(r) = "overweight"
  BY <1>2, SameWeight DEF History!Refusals
<1>3. CASE call[r].op = "Band" /\ Overlapping(r) /\ Objection(r) = "overlap"
  BY <1>3, SameConstraints DEF History!Refusals
<1> QED BY <1>1, <1>2, <1>3 DEF Objection, Overlapping

\* A constraint that is violated is violated by the committed tables.
LEMMA ViolatedIsTrue ==
  ASSUME IInv, NEW r \in Calls, pc[r] \notin {"idle", "done"}, Violated(r) # "none"
  PROVE  Violated(r) \in History!Refusals(r) \cup {"error"}
<1>1. CASE call[r].op = "Update" /\ Duplicate(r) /\ Violated(r) = "duplicate"
  BY <1>1, SameConstraints DEF History!Refusals
<1>2. CASE call[r].op = "Band" /\ Overlapping(r) /\ Violated(r) = "overlap"
  BY <1>2, SameConstraints DEF History!Refusals
<1>3. CASE Violated(r) = "error"
  BY <1>3
<1> QED BY <1>1, <1>2, <1>3 DEF Violated

\* A commit is the step its call asks for, on the tables it is made on: the row's
\* lock and the constraints have kept what was checked.
LEMMA CommitMaps == ASSUME HInv, NEW r \in Calls, Commit(r) PROVE History!Next
<1> DEFINE i == call[r].row
           op == call[r].op
           row == rubrics[i]
<1>1. IInv /\ pc[r] = "commit"
  BY DEF HInv, Commit
<1>2. History!Open(r) /\ Typed(call[r], r)
  BY <1>1, Underway
<1>3. History!Subject(r) = row /\ i \in Rows /\ row \in Row
      /\ row.status \in {"absent", "draft", "active", "archived"}
  BY <1>1, Statuses
<1>4. CallOK(r) /\ rubrics \in [Rows -> Row]
  BY <1>1 DEF IInv, CallInv, TypeOK
<1>5. /\ rubrics' = [rubrics EXCEPT ![Target(r)] = Written(r)]
      /\ criteria' = IF op = "Criterion"
                     THEN criteria \cup {[id |-> r, rubric |-> i, weight |-> call[r].body]}
                     ELSE criteria
      /\ bands' = IF op = "Band"
                  THEN bands \cup {[id |-> r, rubric |-> i, range |-> call[r].body]}
                  ELSE bands
      /\ audit' = audit \cup {[action |-> IF op = "Clone" THEN "Create" ELSE op,
                               row |-> Target(r), by |-> r]}
  BY DEF Commit, Recorded
<1>6. History!Effect(r, IF op = "Clone" THEN "Create" ELSE op, Target(r))
  BY <1>5, FinishMaps DEF Commit, History!Effect, History!Event
<1>7. ASSUME op \in Edit
      PROVE  /\ Target(r) = i /\ row.status # "absent"
             /\ row.status = "archived" => op = "Archive"
             /\ \A next \in Asked(r, row.status) : <<row.status, next>> \in allowedRubricTransitions
  <2>1. Refusal(r, row.status) = "none"
    BY <1>1, <1>4, <1>7 DEF CallOK, Locked
  <2> QED BY <1>7, <2>1 DEF Refusal, Absent, Target, Edit
<1>8. CASE op = "Create"
  <2>1. i = r /\ Target(r) = r /\ Written(r) = Inserted(r, call[r].body)
    BY <1>2, <1>8 DEF Typed, Target, Written
  <2>2. rubrics[r].status = "absent"
    BY <1>1, <1>4 DEF CallOK, Absent
  <2>3. History!Create(r)
    BY <1>2, <1>5, <1>6, <1>8, <2>1, <2>2, Same
    DEF History!Create, History!Asks, History!Bears
  <2> QED BY <2>3 DEF History!Next
<1>9. CASE op = "Clone"
  <2>1. Target(r) = r /\ Written(r) = Inserted(r, seen[r])
    BY <1>9 DEF Target, Written
  <2>2. rubrics[r].status = "absent"
    BY <1>1, <1>4 DEF CallOK, Absent
  <2>3. seen[r].status \in {"draft", "active"}
    BY <1>1, <1>9 DEF HInv, Looked
  <2>4. History!Clone(r)
    BY <1>2, <1>5, <1>6, <1>9, <2>1, <2>2, <2>3, Same
    DEF History!Clone, History!Asks, History!Bears, History!Alive
  <2> QED BY <2>4 DEF History!Next
<1>10. CASE op = "Update"
  <2> DEFINE next == History!Edited(row, call[r].body)
             asked == call[r].body.status
  <2>1. /\ Written(r) = next /\ ~History!HasRival(r) /\ ~Unreasoned(r)
        /\ next.status = IF asked = "" THEN row.status ELSE asked
        /\ next.reason = row.reason
    <3>1. ~Duplicate(r) /\ ~Unreasoned(r)
      BY <1>1, <1>4, <1>10 DEF CallOK, Cleared
    <3>2. Written(r) = next /\ ~History!HasRival(r)
      BY <1>1, <1>3, <1>10, <3>1, SameConstraints
    <3>3. next.status = (IF asked = "" THEN row.status ELSE asked) /\ next.reason = row.reason
      BY <1>3 DEF History!Edited, Row
    <3> QED BY <3>1, <3>2, <3>3
  <2>2. /\ Target(r) = i /\ row.status \in {"draft", "active"}
        /\ asked \notin {"", row.status} => <<row.status, asked>> \in allowedRubricTransitions
    BY <1>3, <1>7, <1>10 DEF Edit, Asked
  <2>3. row.reason = Nobody
    BY <1>1, <1>3, <2>2 DEF IInv, ArchivedForReason
  <2>4. next.status # "archived"
    BY <2>1, <2>3 DEF Unreasoned
  <2>5. next.status = row.status \/ (row.status = "draft" /\ next.status = "active")
    BY <2>1, <2>2, <2>4 DEF allowedRubricTransitions
  <2>6. History!Change(r)
    BY <1>2, <1>3, <1>5, <1>6, <1>10, <2>1, <2>2, <2>5
    DEF History!Change, History!Asks, History!Alive
  <2> QED BY <2>6 DEF History!Next
<1>11. CASE op = "Archive"
  <2>1. Target(r) = i /\ Written(r) = [row EXCEPT !.status = "archived", !.reason = r]
    BY <1>11 DEF Target, Written
  <2>2. row.status = "active"
    BY <1>7, <1>11 DEF Edit, Asked, allowedRubricTransitions
  <2>3. History!Archive(r)
    BY <1>2, <1>3, <1>5, <1>6, <1>11, <2>1, <2>2 DEF History!Archive, History!Asks
  <2> QED BY <2>3 DEF History!Next
<1>12. CASE op \in {"Criterion", "Band"}
  <2>1. Target(r) = i /\ row.status \in {"draft", "active"}
    BY <1>3, <1>7, <1>12 DEF Edit
  <2>2. rubrics' = rubrics
    BY <1>3, <1>4, <1>5, <1>12, <2>1 DEF Written
  <2>3. CASE op = "Criterion"
    <3>1. History!AddCriterion(r)
      BY <1>2, <1>3, <1>5, <1>6, <2>1, <2>2, <2>3
      DEF History!AddCriterion, History!Asks, History!Alive
    <3> QED BY <3>1 DEF History!Next
  <2>4. CASE op = "Band"
    <3>1. ~History!Overlaps(r)
      BY <1>1, <1>4, <2>4, SameConstraints DEF CallOK, Cleared
    <3>2. History!AddBand(r)
      BY <1>2, <1>3, <1>5, <1>6, <2>1, <2>2, <2>4, <3>1
      DEF History!AddBand, History!Asks, History!Alive
    <3> QED BY <3>2 DEF History!Next
  <2> QED BY <1>12, <2>3, <2>4
<1> QED BY <1>2, <1>8, <1>9, <1>10, <1>11, <1>12 DEF Typed, Edit

\* Every other step is a question, a look, a refusal that is true, or nothing.
LEMMA ArriveMaps == ASSUME HInv, NEW r \in Calls, Arrive(r) PROVE History!Ask(r)
<1>1. pc[r] = "idle" /\ UNCHANGED <<rubrics, criteria, bands, audit, seen, answer>>
  BY DEF Arrive
<1>2. PICK c \in Call : call' = [call EXCEPT ![r] = [c EXCEPT !.row = IF c.op = "Create" THEN r ELSE @]]
  BY DEF Arrive
<1>3. call[r] = History!NoQuestion /\ answer[r] = "none"
  BY <1>1, Same DEF HInv, IInv, CallInv, CallOK, Looked
<1> DEFINE q == [c EXCEPT !.row = IF c.op = "Create" THEN r ELSE @]
<1>4. q \in History!Question /\ (q.op = "Create" => q.row = r)
  <2>1. CASE c \in [op : {"Create"} \cap Operations, row : {Nobody}, body : Identity]
    <3>1. q \in [op : {"Create"}, row : Calls, body : History!Title] /\ q.row = r
      BY <2>1, Same
    <3> QED BY <3>1 DEF History!Question
  <2>2. CASE c \in [op : {"Clone", "Archive"} \cap Operations, row : Rows, body : {""}]
    <3>1. q \in [op : {"Clone", "Archive"}, row : History!Rows, body : {""}] /\ q.op # "Create"
      BY <2>2, Same
    <3> QED BY <3>1 DEF History!Question
  <2>3. CASE c \in [op : {"Update"} \cap Operations, row : Rows, body : Change]
    <3>1. q \in [op : {"Update"}, row : History!Rows, body : History!Edit] /\ q.op # "Create"
      BY <2>3, Same
    <3> QED BY <3>1 DEF History!Question
  <2>4. CASE c \in [op : {"Criterion"} \cap Operations, row : Rows, body : Weights]
    <3>1. q \in [op : {"Criterion"}, row : History!Rows, body : Weights] /\ q.op # "Create"
      BY <2>4, Same
    <3> QED BY <3>1 DEF History!Question
  <2>5. CASE c \in [op : {"Band"} \cap Operations, row : Rows, body : Interval]
    <3>1. q \in [op : {"Band"}, row : History!Rows, body : History!Interval] /\ q.op # "Create"
      BY <2>5, Same
    <3> QED BY <3>1 DEF History!Question
  <2> QED BY <2>1, <2>2, <2>3, <2>4, <2>5 DEF Call
<1> QED BY <1>1, <1>2, <1>3, <1>4 DEF History!Ask

LEMMA LookMaps == ASSUME HInv, NEW r \in Calls, Look(r) PROVE History!Next
<1> DEFINE row == rubrics[call[r].row]
           op == call[r].op
<1>1. IInv /\ pc[r] = "look" /\ CallOK(r)
  BY DEF HInv, IInv, CallInv, Look
<1>2. op \in {"Clone", "Update", "Criterion"} /\ History!Subject(r) = row
  BY <1>1, Statuses DEF CallOK
<1>3. ASSUME NEW a \in {"notfound", "archived"}, Return(r, a), a \in History!Refusals(r)
      PROVE  History!Next
  BY <1>1, <1>3, DeclineMaps DEF History!Next
<1>4. CASE Return(r, "notfound") /\ (Absent(row) \/ op = "Criterion")
  <2>1. "notfound" \in History!Refusals(r)
    BY <1>2, <1>4 DEF History!Refusals, Absent
  <2> QED BY <1>3, <1>4, <2>1
<1>5. CASE Return(r, "archived") /\ op = "Clone" /\ row.status = "archived"
  <2>1. "archived" \in History!Refusals(r)
    BY <1>2, <1>5 DEF History!Refusals
  <2> QED BY <1>3, <1>5, <2>1
<1>6. CASE seen' = [seen EXCEPT ![r] = row] /\ UNCHANGED <<rubrics, criteria, bands, audit, call, answer>>
  <2>1. History!Look(r)
    BY <1>1, <1>2, <1>6, Underway DEF History!Look
  <2> QED BY <2>1 DEF History!Next
<1> QED BY <1>4, <1>5, <1>6 DEF Look, Goto

LEMMA StepMaps == ASSUME HInv, [Next]_vars PROVE [History!Next]_(History!vars)
<1>1. IInv /\ \A q \in Calls : CallOK(q)
  BY DEF HInv, IInv, CallInv
<1>2. CASE UNCHANGED vars
  BY <1>2 DEF vars, History!vars
<1>3. ASSUME NEW r \in Calls, Arrive(r) PROVE History!Next
  BY <1>3, ArriveMaps DEF History!Next
<1>4. ASSUME NEW r \in Calls, NEW step, Goto(r, step), UNCHANGED seen PROVE UNCHANGED History!vars
  BY <1>4 DEF Goto, History!vars
<1>5. ASSUME NEW r \in Calls, pc[r] \notin {"idle", "done"},
             NEW a \in History!Refusals(r) \cup {"error"}, Return(r, a)
      PROVE  History!Next
  BY <1>1, <1>5, DeclineMaps DEF History!Next
<1>6. ASSUME NEW r \in Calls, Count(r) PROVE [History!Next]_(History!vars)
  <2>1. pc[r] = "count"
    BY <1>6 DEF Count
  <2>2. CASE Objection(r) # "none" /\ Return(r, Objection(r))
    BY <1>1, <1>5, <2>1, <2>2, ObjectionIsTrue
  <2>3. CASE Goto(r, "lock") /\ UNCHANGED <<rowLock, seen>>
    BY <1>4, <2>3
  <2> QED BY <1>6, <2>2, <2>3 DEF Count
<1>7. ASSUME NEW r \in Calls, Lock(r) PROVE [History!Next]_(History!vars)
  <2> DEFINE refusal == Refusal(r, rubrics[call[r].row].status)
  <2>1. pc[r] = "lock" /\ call[r].op \in Edit
    BY <1>1, <1>7 DEF Lock, CallOK
  <2>2. CASE refusal # "none" /\ Return(r, refusal)
    BY <1>1, <1>5, <2>1, <2>2, RefusalIsTrue
  <2>3. CASE Goto(r, "write") /\ UNCHANGED seen
    BY <1>4, <2>3
  <2> QED BY <1>7, <2>2, <2>3 DEF Lock
<1>8. ASSUME NEW r \in Calls, Write(r) PROVE [History!Next]_(History!vars)
  <2>1. pc[r] = "write"
    BY <1>8 DEF Write
  <2>2. CASE Violated(r) # "none" /\ Return(r, Violated(r))
    BY <1>1, <1>5, <2>1, <2>2, ViolatedIsTrue
  <2>3. CASE Goto(r, "commit") /\ UNCHANGED <<rowLock, seen>>
    BY <1>4, <2>3
  <2> QED BY <1>8, <2>2, <2>3 DEF Write
<1>9. ASSUME NEW r \in Calls, Abort(r) PROVE History!Next
  BY <1>5, <1>9 DEF Abort
<1> QED BY <1>2, <1>3, <1>6, <1>7, <1>8, <1>9, LookMaps, CommitMaps DEF Next

\* ImplementsHistory for any constants: the transactions, with their early look-ups,
\* locks, waits and constraints, do to the tables and tell their callers what calls
\* made one after the other would.
THEOREM HistoryRefinement == Spec => ImplementsHistory
<1>1. Init => HInv
  BY InitInv DEF Init, HInv, Looked
<1>2. HInv /\ [Next]_vars => HInv'
  BY NextInv, LookedStep DEF HInv
<1>3. HInv /\ [Next]_vars => [History!Next]_(History!vars)
  BY StepMaps
<1> QED BY <1>1, <1>2, <1>3, InitMaps, PTL DEF Spec, ImplementsHistory, History!Spec
=============================================================================
