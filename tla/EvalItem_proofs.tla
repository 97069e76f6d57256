-------------------------- MODULE EvalItem_proofs ---------------------------
(***************************************************************************)
(* Theorems about EvalItem, for any items, codes and calls.                *)
(*                                                                         *)
(* The argument: what the handlers look up without a lock matters only     *)
(* where it stays true.  A parent that was found stays, because items are  *)
(* never deleted, and the code of an item stays.  That an item has no      *)
(* child does not stay true, and only this can close a cycle.              *)
(***************************************************************************)
EXTENDS EvalItem, Integers, TLAPS

\* What a call on its way has found, as far as it lasts.
Found(c) ==
  /\ pc[c] # "idle" => call[c] \in Call
  /\ pc[c] = "count" => call[c].op = "Update" /\ AsksHierarchy(call[c])
  /\ pc[c] \in {"count", "write", "commit"} /\ call[c].op = "Update" =>
       /\ call[c].item \in Present
       /\ old[c] \in Row /\ old[c].code = table[call[c].item].code
  /\ pc[c] \in {"write", "commit"} /\ call[c].op = "Insert" =>
       call[c].parent \in Present \cup {NoItem}
  /\ pc[c] = "commit" /\ call[c].op = "Update" /\ ParentAsked(call[c]) # Keep =>
       call[c].parent \in Present
  /\ seen[c] = {}

Inserting(c) == pc[c] = "commit" /\ call[c].op = "Insert"

\* The keys of an item about to be inserted are nobody else's.
KeysOwn(c) ==
  Inserting(c) =>
    /\ ~KeyTaken(c)
    /\ \A d \in Calls \ {c} : Inserting(d) =>
         call[d].item # call[c].item /\ call[d].code # call[c].code

\* An audit row is that of a call that has ended, and of an item.
Recorded(e) ==
  /\ pc[e.by] = "done" /\ answer[e.by] \in {"ok", "error"}
  /\ \E i \in Present : table[i].code = e.code

IInv ==
  /\ TypeOK
  /\ \A c \in Calls : Found(c) /\ KeysOwn(c)
  /\ \A e \in audit : Recorded(e)
  /\ ParentsExist /\ CyclesNeedARace /\ CreatedOnce /\ AuditAccounts

-----------------------------------------------------------------------------
\* The fields of a body.
LEMMA Bodies ==
  ASSUME NEW b \in Call
  PROVE  /\ b.item \in Items /\ b.op \in {"Insert", "Update"}
         /\ b.op = "Insert" => b.parent \in Items \cup {NoItem} /\ b.code \in Codes
         /\ b.op = "Update" => /\ b.set \in {"parent", "level", "rest", "nothing"}
                               /\ b.parent \in Items \cup {NoItem, Keep}
                               /\ b.parent # Keep <=> b.set = "parent"
BY DEF Call, Insertion, Change

\* The initial state satisfies the invariant.
LEMMA InitIInv == Init => IInv
<1> SUFFICES ASSUME Init PROVE IInv
  OBVIOUS
<1>1. TypeOK
  <2>1. table \in [Items -> Row \cup {NoItem}]
    BY EvalItemAssumption DEF Init, Row, AnyCode
  <2> QED BY <2>1 DEF Init, TypeOK, Step, Answer
<1>2. \A i \in Seeded : /\ table[i].parent = NoItem /\ table[i].code = i
                          /\ table[i].level = NoItem /\ table[i].rest = NoItem
  BY EvalItemAssumption DEF Init
<1>3. Present \subseteq Seeded
  BY DEF Init, Present
<1>4. \A c \in Calls : Found(c) /\ KeysOwn(c)
  BY DEF Init, Found, KeysOwn, Inserting
<1>5. ParentsExist
  BY <1>2, <1>3 DEF ParentsExist
<1>6. CyclesNeedARace
  BY <1>2, <1>3, EvalItemAssumption DEF CyclesNeedARace, Rootless
<1>7. CreatedOnce
  BY <1>2, <1>3 DEF CreatedOnce
<1>8. AuditAccounts
  BY <1>2, <1>3 DEF AuditAccounts, Init
<1> QED BY <1>1, <1>4, <1>5, <1>6, <1>7, <1>8 DEF IInv, Init

\* What Return does.
LEMMA Returned ==
  ASSUME TypeOK, NEW c \in Calls, NEW a \in Answer, Return(c, a)
  PROVE  /\ pc' = [pc EXCEPT ![c] = "done"] /\ pc' \in [Calls -> Step]
         /\ answer' = [answer EXCEPT ![c] = a] /\ answer' \in [Calls -> Answer]
         /\ rowLock' \in [Items -> Calls \cup {NoItem}]
         /\ UNCHANGED <<call, old, seen>>
BY DEF TypeOK, Return, Goto, Step

\* A step that commits nothing and is a lawful step of one call.
LEMMA QuietStep ==
  ASSUME IInv, NEW c \in Calls, UNCHANGED <<table, audit, raced>>, TypeOK',
         \A d \in Calls \ {c} : /\ pc'[d] = pc[d] /\ call'[d] = call[d] /\ old'[d] = old[d]
                                /\ seen'[d] = seen[d] /\ answer'[d] = answer[d],
         pc[c] # "done", answer'[c] # "ok",
         Found(c)', KeysOwn(c)',
         Inserting(c)' => \A d \in Calls \ {c} : Inserting(d) =>
                            call[d].item # call'[c].item /\ call[d].code # call'[c].code
  PROVE  IInv'
<1>1. Present' = Present
  BY DEF Present
<1>2. ASSUME NEW d \in Calls PROVE Found(d)' /\ KeysOwn(d)'
  <2>1. CASE d # c
    <3>1. /\ pc'[d] = pc[d] /\ call'[d] = call[d] /\ old'[d] = old[d] /\ seen'[d] = seen[d]
          /\ Found(d) /\ KeysOwn(d)
      BY <2>1 DEF IInv
    <3>2. Found(d)'
      BY <3>1, <1>1 DEF Found, AsksHierarchy, ParentAsked
    <3>3. \A e \in Calls \ {c} : Inserting(e)' = Inserting(e)
      BY DEF Inserting
    <3>4. KeyTaken(d)' = KeyTaken(d)
      BY <3>1, <1>1 DEF KeyTaken
    <3>5. KeysOwn(d)'
      BY <2>1, <3>1, <3>3, <3>4 DEF KeysOwn
    <3> QED BY <3>2, <3>5
  <2> QED BY <2>1
<1>3. ASSUME NEW e \in audit PROVE Recorded(e)'
  <2>1. Recorded(e) /\ e.by \in Calls
    BY DEF IInv, TypeOK, Event
  <2>2. e.by # c
    BY <2>1 DEF Recorded
  <2> QED BY <2>1, <2>2, <1>1 DEF Recorded
<1>4. ParentsExist' /\ CyclesNeedARace' /\ CreatedOnce'
  <2>1. ParentsExist'
    BY <1>1 DEF IInv, ParentsExist
  <2>2. \A S \in SUBSET Items : Rootless(S)' = Rootless(S)
    BY <1>1 DEF Rootless
  <2>3. CyclesNeedARace'
    BY <2>2 DEF IInv, CyclesNeedARace
  <2>4. CreatedOnce'
    BY <1>1 DEF IInv, CreatedOnce
  <2> QED BY <2>1, <2>3, <2>4
<1>5. AuditAccounts'
  <2>1. ASSUME NEW d \in Calls
        PROVE  /\ answer'[d] = "ok" => \E e \in audit : e.by = d
               /\ answer'[d] \in {"notfound", "conflict"} => \A e \in audit : e.by # d
    <3>1. CASE d # c
      BY <3>1 DEF IInv, AuditAccounts
    <3>2. CASE d = c
      BY <3>2 DEF IInv, Recorded
    <3> QED BY <3>1, <3>2
  <2> QED BY <2>1, <1>1 DEF IInv, AuditAccounts
<1> QED BY <1>2, <1>3, <1>4, <1>5 DEF IInv

\* A call that is refused or fails.
LEMMA RefuseIInv ==
  ASSUME IInv, NEW c \in Calls, pc[c] \notin {"idle", "done"},
         NEW a \in Answer \ {"ok"}, Refuse(c, a)
  PROVE  IInv'
<1>1. Return(c, a) /\ UNCHANGED <<table, audit, raced>>
  BY DEF Refuse
<1>2. /\ pc' = [pc EXCEPT ![c] = "done"] /\ answer' = [answer EXCEPT ![c] = a]
      /\ UNCHANGED <<call, old, seen>> /\ TypeOK'
  BY <1>1, Returned DEF IInv, TypeOK
<1>3. /\ pc'[c] = "done" /\ answer'[c] = a
      /\ \A d \in Calls \ {c} : pc'[d] = pc[d] /\ answer'[d] = answer[d]
  BY <1>2 DEF IInv, TypeOK
<1>4. Found(c)' /\ KeysOwn(c)'
  BY <1>2, <1>3 DEF IInv, Found, KeysOwn, Inserting
<1> QED BY <1>1, <1>2, <1>3, <1>4, QuietStep DEF Inserting

LEMMA ArriveIInv == ASSUME IInv, NEW c \in Calls, Arrive(c) PROVE IInv'
<1>1. PICK b \in Call : call' = [call EXCEPT ![c] = b]
  BY DEF Arrive
<1>2. /\ pc[c] = "idle" /\ pc' = [pc EXCEPT ![c] = "read"]
      /\ UNCHANGED <<table, audit, rowLock, raced, old, seen, answer>>
  BY DEF Arrive, Goto
<1>3. TypeOK'
  BY <1>1, <1>2 DEF IInv, TypeOK, Step
<1>4. /\ pc'[c] = "read" /\ call'[c] = b
      /\ \A d \in Calls \ {c} : pc'[d] = pc[d] /\ call'[d] = call[d]
  BY <1>1, <1>2 DEF IInv, TypeOK
<1>5. Found(c)' /\ KeysOwn(c)' /\ ~Inserting(c)'
  BY <1>2, <1>4 DEF IInv, Found, KeysOwn, Inserting
<1>6. answer[c] # "ok"
  BY <1>2 DEF IInv, AuditAccounts, Recorded
<1> QED BY <1>2, <1>3, <1>4, <1>5, <1>6, QuietStep

LEMMA FindParentIInv == ASSUME IInv, NEW c \in Calls, FindParent(c) PROVE IInv'
<1>1. pc[c] = "read" /\ call[c].op = "Insert"
  BY DEF FindParent
<1>2. CASE call[c].parent \notin Present \cup {NoItem}
  BY <1>1, <1>2, RefuseIInv DEF FindParent, Answer
<1>3. CASE call[c].parent \in Present \cup {NoItem}
  <2>1. /\ pc' = [pc EXCEPT ![c] = "write"]
        /\ UNCHANGED <<table, audit, rowLock, raced, call, old, seen, answer>>
    BY <1>3 DEF FindParent, Goto
  <2>2. TypeOK'
    BY <2>1 DEF IInv, TypeOK, Step
  <2>3. pc'[c] = "write" /\ \A d \in Calls \ {c} : pc'[d] = pc[d]
    BY <2>1 DEF IInv, TypeOK
  <2>4. Found(c)' /\ KeysOwn(c)' /\ ~Inserting(c)'
    BY <1>1, <1>3, <2>1, <2>3 DEF IInv, Found, KeysOwn, Inserting, Present
  <2>5. answer[c] # "ok"
    BY <1>1 DEF IInv, AuditAccounts, Recorded
  <2> QED BY <1>1, <2>1, <2>2, <2>3, <2>4, <2>5, QuietStep
<1> QED BY <1>2, <1>3

LEMMA FindItemIInv == ASSUME IInv, NEW c \in Calls, FindItem(c) PROVE IInv'
<1>1. pc[c] = "read" /\ call[c].op = "Update" /\ call[c] \in Call
  BY DEF FindItem, IInv, Found
<1>2. CASE call[c].item \notin Present
  BY <1>1, <1>2, RefuseIInv DEF FindItem, Answer
<1>3. CASE call[c].item \in Present
  <2> DEFINE s == IF AsksHierarchy(call[c]) THEN "count"
                  ELSE IF HasColumns(call[c]) THEN "write" ELSE "commit"
  <2>1. /\ old' = [old EXCEPT ![c] = table[call[c].item]] /\ pc' = [pc EXCEPT ![c] = s]
        /\ UNCHANGED <<table, audit, rowLock, raced, call, seen, answer>>
    BY <1>3 DEF FindItem, Goto
  <2>2. table[call[c].item] \in Row
    BY <1>3 DEF IInv, TypeOK, Present
  <2>3. TypeOK'
    BY <2>1, <2>2 DEF IInv, TypeOK, Step
  <2>4. /\ pc'[c] = s /\ old'[c] = table[call[c].item]
        /\ \A d \in Calls \ {c} : pc'[d] = pc[d] /\ old'[d] = old[d]
    BY <2>1 DEF IInv, TypeOK
  <2>5. s = "commit" => ParentAsked(call[c]) = Keep
    BY DEF AsksHierarchy
  <2>6. Found(c)' /\ KeysOwn(c)' /\ ~Inserting(c)'
    BY <1>1, <1>3, <2>1, <2>2, <2>4, <2>5
    DEF IInv, Found, KeysOwn, Inserting, Present, ParentAsked, AsksHierarchy
  <2>7. answer[c] # "ok"
    BY <1>1 DEF IInv, AuditAccounts, Recorded
  <2> QED BY <1>1, <2>1, <2>3, <2>4, <2>6, <2>7, QuietStep
<1> QED BY <1>2, <1>3

LEMMA GuardIInv == ASSUME IInv, NEW c \in Calls, HierarchyMutationGuard(c) PROVE IInv'
<1>1. pc[c] = "count" /\ Found(c) /\ call[c] \in Call
  BY DEF HierarchyMutationGuard, IInv, Found
<1>2. CASE ChildrenOf(call[c].item) # {}
  BY <1>1, <1>2, RefuseIInv DEF HierarchyMutationGuard, Answer
<1>3. CASE ChildrenOf(call[c].item) = {}
  <2>1. /\ seen' = [seen EXCEPT ![c] = {}] /\ pc' = [pc EXCEPT ![c] = "write"]
        /\ UNCHANGED <<table, audit, rowLock, raced, call, old, answer>>
    BY <1>3 DEF HierarchyMutationGuard, Goto
  <2>2. TypeOK'
    BY <2>1 DEF IInv, TypeOK, Step
  <2>3. /\ pc'[c] = "write" /\ seen'[c] = {}
        /\ \A d \in Calls \ {c} : pc'[d] = pc[d] /\ seen'[d] = seen[d]
    BY <2>1 DEF IInv, TypeOK
  <2>4. Found(c)' /\ KeysOwn(c)' /\ ~Inserting(c)'
    BY <1>1, <2>1, <2>3 DEF Found, KeysOwn, Inserting, Present, ParentAsked, AsksHierarchy
  <2>5. answer[c] # "ok"
    BY <1>1 DEF IInv, AuditAccounts, Recorded
  <2> QED BY <1>1, <2>1, <2>2, <2>3, <2>4, <2>5, QuietStep
<1> QED BY <1>2, <1>3

LEMMA InsertIInv == ASSUME IInv, NEW c \in Calls, InsertEvalItem(c) PROVE IInv'
<1>1. pc[c] = "write" /\ call[c].op = "Insert" /\ ~KeyInDoubt(c) /\ Found(c)
  BY DEF InsertEvalItem, IInv
<1>2. CASE KeyTaken(c)
  BY <1>1, <1>2, RefuseIInv DEF InsertEvalItem, Answer
<1>3. CASE ~KeyTaken(c)
  <2>1. /\ pc' = [pc EXCEPT ![c] = "commit"]
        /\ UNCHANGED <<table, audit, rowLock, raced, call, old, seen, answer>>
    BY <1>3 DEF InsertEvalItem, Goto
  <2>2. TypeOK'
    BY <2>1 DEF IInv, TypeOK, Step
  <2>3. pc'[c] = "commit" /\ \A d \in Calls \ {c} : pc'[d] = pc[d]
    BY <2>1 DEF IInv, TypeOK
  <2>4. \A d \in Calls \ {c} : Inserting(d) =>
          call[d].item # call[c].item /\ call[d].code # call[c].code
    BY <1>1 DEF KeyInDoubt, Inserting
  <2>5. Found(c)'
    BY <1>1, <2>1, <2>3 DEF Found, Present
  <2>6. KeysOwn(c)'
    BY <1>3, <2>1, <2>3, <2>4 DEF KeysOwn, Inserting, KeyTaken, Present
  <2>7. answer[c] # "ok"
    BY <1>1 DEF IInv, AuditAccounts, Recorded
  <2> QED BY <1>1, <2>1, <2>2, <2>3, <2>4, <2>5, <2>6, <2>7, QuietStep
<1> QED BY <1>2, <1>3

LEMMA UpdateIInv == ASSUME IInv, NEW c \in Calls, UpdateEvalItem(c) PROVE IInv'
<1>1. pc[c] = "write" /\ call[c].op = "Update" /\ call[c] \in Call /\ Found(c)
  BY DEF UpdateEvalItem, IInv, Found
<1>2. CASE ~ParentRefers(call[c])
  BY <1>1, <1>2, RefuseIInv DEF UpdateEvalItem, Answer
<1>3. CASE ParentRefers(call[c])
  <2>1. /\ pc' = [pc EXCEPT ![c] = "commit"]
        /\ rowLock' = [rowLock EXCEPT ![call[c].item] = c]
        /\ UNCHANGED <<table, audit, raced, call, old, seen, answer>>
    BY <1>3 DEF UpdateEvalItem, Goto
  <2>2. TypeOK'
    BY <2>1 DEF IInv, TypeOK, Step
  <2>3. pc'[c] = "commit" /\ \A d \in Calls \ {c} : pc'[d] = pc[d]
    BY <2>1 DEF IInv, TypeOK
  <2>4. ParentAsked(call[c]) # Keep => call[c].parent \in Present
    BY <1>1, <1>3, Bodies DEF ParentRefers, ParentAsked
  <2>5. Found(c)' /\ KeysOwn(c)' /\ ~Inserting(c)'
    BY <1>1, <2>1, <2>3, <2>4 DEF Found, KeysOwn, Inserting, Present, ParentAsked
  <2>6. answer[c] # "ok"
    BY <1>1 DEF IInv, AuditAccounts, Recorded
  <2> QED BY <1>1, <2>1, <2>2, <2>3, <2>5, <2>6, QuietStep
<1> QED BY <1>2, <1>3

-----------------------------------------------------------------------------
(* The commit.                                                             *)

\* What a commit leaves: one row, which keeps its code or brings its own, and
\* whose parent is a row that was there before.
LEMMA Committed ==
  ASSUME IInv, NEW c \in Calls, Commit(c)
  PROVE  LET i == call[c].item IN
         /\ call[c] \in Call /\ i \in Items /\ pc[c] = "commit"
         /\ RowAfter(c) \in Row
         /\ table' = [table EXCEPT ![i] = RowAfter(c)]
         /\ Present' = Present \cup {i}
         /\ RowAfter(c).parent \in Present \cup {NoItem}
         /\ call[c].op = "Update" => i \in Present /\ RowAfter(c).code = table[i].code
         /\ call[c].op = "Insert" => /\ i \notin Present /\ RowAfter(c).code = call[c].code
                                     /\ \A k \in Present : table[k].code # call[c].code
         /\ EventOf(c) \in Event /\ EventOf(c).by = c /\ EventOf(c).code = RowAfter(c).code
         /\ EventOf(c).action = "EVAL_ITEM_CREATED" <=> call[c].op = "Insert"
<1> DEFINE b == call[c]
           i == b.item
<1>1. /\ pc[c] = "commit" /\ Found(c) /\ KeysOwn(c) /\ b \in Call /\ i \in Items
      /\ b.op \in {"Insert", "Update"}
  BY Bodies DEF IInv, Found, Commit
<1>2. table' = [table EXCEPT ![i] = RowAfter(c)]
  BY DEF Commit
<1>3. CASE b.op = "Insert"
  <2>1. RowAfter(c) = [parent |-> b.parent, code |-> b.code, level |-> c, rest |-> c]
    BY <1>3 DEF RowAfter
  <2>2. EventOf(c) = [action |-> "EVAL_ITEM_CREATED", code |-> b.code, parent |-> b.parent, by |-> c]
    BY <1>3 DEF EventOf
  <2>3. b.parent \in Items \cup {NoItem} /\ b.code \in AnyCode
    BY <1>1, <1>3, Bodies DEF AnyCode
  <2>4. RowAfter(c) \in Row /\ EventOf(c) \in Event
    BY <2>1, <2>2, <2>3 DEF Row, Event
  <2>5. i \notin Present /\ \A k \in Present : table[k].code # b.code
    BY <1>1, <1>3 DEF KeysOwn, Inserting, KeyTaken
  <2>6. b.parent \in Present \cup {NoItem}
    BY <1>1, <1>3 DEF Found
  <2>7. RowAfter(c) # NoItem
    BY <2>4, EvalItemAssumption
  <2>8. Present' = Present \cup {i}
    BY <1>1, <1>2, <2>7 DEF Present, IInv, TypeOK
  <2> QED BY <1>1, <1>2, <1>3, <2>1, <2>2, <2>4, <2>5, <2>6, <2>8
<1>4. CASE b.op = "Update"
  <2>1. i \in Present /\ table[i] \in Row /\ old[c] \in Row /\ old[c].code = table[i].code
    BY <1>1, <1>4 DEF Found, IInv, TypeOK, Present
  <2> DEFINE p == IF ParentAsked(b) = Keep THEN table[i].parent ELSE b.parent
             l == IF b.set = "level" THEN c ELSE table[i].level
             t == IF b.set = "rest" THEN c ELSE table[i].rest
  <2>2. RowAfter(c) = [table[i] EXCEPT !.parent = p, !.level = l, !.rest = t]
    BY <1>4 DEF RowAfter
  <2>3. p \in Present \cup {NoItem}
    BY <1>1, <1>4, <2>1 DEF Found, IInv, ParentsExist
  <2>4. p \in Items \cup {NoItem} /\ l \in Calls \cup {NoItem} /\ t \in Calls \cup {NoItem}
    BY <2>1, <2>3 DEF Row, Present
  <2>5. /\ RowAfter(c) \in Row /\ RowAfter(c).parent = p
        /\ RowAfter(c).code = table[i].code
    <3> HIDE DEF p, l, t
    <3> QED BY <2>1, <2>2, <2>4 DEF Row
  <2>6. EventOf(c) = [action |-> "EVAL_ITEM_UPDATED", code |-> old[c].code,
                      parent |-> old[c].parent, by |-> c]
    BY <1>4 DEF EventOf
  <2>7. EventOf(c) \in Event
    BY <2>1, <2>6 DEF Row, Event
  <2>8. Present' = Present \cup {i}
    BY <1>1, <1>2, <2>1, <2>5, EvalItemAssumption DEF Present, IInv, TypeOK
  <2> QED BY <1>1, <1>2, <1>4, <2>1, <2>3, <2>5, <2>6, <2>7, <2>8
<1> QED BY <1>1, <1>3, <1>4

\* No new cycle: the item that a commit moves has no child, unless it got one
\* after the check, so nothing else leads to a root through it.
LEMMA CommitCycles == ASSUME IInv, NEW c \in Calls, Commit(c) PROVE CyclesNeedARace'
<1> DEFINE b == call[c]
           i == b.item
<1>1. /\ b \in Call /\ i \in Items /\ table' = [table EXCEPT ![i] = RowAfter(c)]
      /\ Present' = Present \cup {i} /\ RowAfter(c).parent \in Present \cup {NoItem}
  BY Committed
<1>2. seen[c] = {} /\ raced \subseteq Items /\ table \in [Items -> Row \cup {NoItem}]
  BY DEF IInv, Found, TypeOK
<1>3. table'[i] = RowAfter(c) /\ \A k \in Items \ {i} : table'[k] = table[k]
  BY <1>1, <1>2
<1>4. \A k \in Items \ {i} : k \in raced' <=> k \in raced
  BY DEF Commit
<1> SUFFICES ASSUME NEW S \in (SUBSET Items) \ {{}}, Rootless(S)',
                    \A k \in S : table'[k].parent # k /\ k \notin raced'
             PROVE  FALSE
  BY DEF CyclesNeedARace
<1>5. \A k \in S : k \in Present \cup {i} /\ table'[k].parent \in S
  BY <1>1 DEF Rootless
<1>6. NoItem \notin S
  BY EvalItemAssumption
\* Sets without the item that was moved, or with its parent unchanged, were
\* rootless before.
<1>7. ASSUME NEW T \in (SUBSET Items) \ {{}}, T \subseteq S, T \subseteq Present,
             \A k \in T : table[k].parent \in T,
             \A k \in T : table[k].parent = table'[k].parent /\ (k \in raced => k \in raced')
      PROVE  FALSE
  <2>1. Rootless(T)
    BY <1>7 DEF Rootless
  <2>2. PICK k \in T : table[k].parent = k \/ k \in raced
    BY <2>1 DEF IInv, CyclesNeedARace
  <2> QED BY <1>7, <2>2
<1>8. CASE i \notin S
  BY <1>3, <1>4, <1>5, <1>7, <1>8
<1>9. CASE i \in S /\ b.op = "Update" /\ ParentAsked(b) = Keep
  <2>1. i \in Present /\ table[i] \in Row
    BY <1>9, Committed, <1>2 DEF Present
  <2>2. RowAfter(c).parent = table[i].parent
    BY <1>9, <2>1 DEF RowAfter, Row
  <2>3. raced' = raced
    BY <1>9 DEF Commit
  <2> QED BY <1>3, <1>5, <1>7, <2>1, <2>2, <2>3
<1>10. CASE i \in S /\ ~(b.op = "Update" /\ ParentAsked(b) = Keep)
  <2>1. \A k \in Present : table[k].parent # i
    <3>1. CASE b.op = "Insert"
      <4>1. i \notin Present /\ i # NoItem
        BY <3>1, Committed, <1>1, EvalItemAssumption
      <4> QED BY <4>1 DEF IInv, ParentsExist
    <3>2. CASE b.op = "Update" /\ ParentAsked(b) # Keep
      <4>1. raced' = IF ChildrenOf(i) \subseteq seen[c] THEN raced \ {i} ELSE raced \cup {i}
        BY <3>2 DEF Commit
      <4>2. ChildrenOf(i) \subseteq {}
        BY <1>2, <1>10, <4>1
      <4> QED BY <4>2 DEF ChildrenOf
    <3> QED BY <1>1, <1>10, <3>1, <3>2, Bodies
  <2>2. table'[i].parent \in S \ {i}
    BY <1>5, <1>10
  <2>3. \A k \in S \ {i} : k \in Present /\ table[k].parent \in S \ {i}
    BY <1>3, <1>5, <2>1
  <2>4. \A k \in S \ {i} : k \in Items \ {i} /\ table[k].parent = table'[k].parent
                           /\ (k \in raced => k \in raced')
    BY <1>3, <1>4
  <2>5. S \ {i} \in (SUBSET Items) \ {{}}
    BY <2>2
  <2> QED BY <1>7, <2>3, <2>4, <2>5
<1> QED BY <1>1, <1>8, <1>9, <1>10, Bodies

\* One EVAL_ITEM_CREATED row for each item.
LEMMA CommitCreated == ASSUME IInv, NEW c \in Calls, Commit(c) PROVE CreatedOnce'
<1> DEFINE b == call[c]
           i == b.item
           e == EventOf(c)
<1>1. /\ b \in Call /\ i \in Items /\ table' = [table EXCEPT ![i] = RowAfter(c)]
      /\ Present' = Present \cup {i} /\ e.code = RowAfter(c).code
      /\ e.action = "EVAL_ITEM_CREATED" <=> b.op = "Insert"
  BY Committed
<1>2. table'[i] = RowAfter(c) /\ \A k \in Items \ {i} : table'[k] = table[k]
  BY <1>1 DEF IInv, TypeOK
<1>3. audit' = audit \cup {e}
  BY DEF Commit
<1>4. CASE b.op = "Insert"
  <2>1. /\ i \notin Present /\ RowAfter(c).code = b.code
        /\ \A k \in Present : table[k].code # b.code
    BY <1>4, Committed
  <2>2. \A f \in audit : f.code # b.code
    BY <2>1 DEF IInv, Recorded
  <2>3. \A k \in Present : k \in Items /\ k # i /\ table'[k] = table[k]
    BY <1>2, <2>1 DEF Present
  <2>4. ASSUME NEW k \in Present', NEW m \in Present', table'[m].code = table'[k].code
        PROVE  m = k
    BY <1>1, <1>2, <2>1, <2>3, <2>4 DEF IInv, CreatedOnce
  <2>5. ASSUME NEW k \in Present', k \notin Seeded
        PROVE  \E g \in audit' : \A f \in audit' :
                 f.action = "EVAL_ITEM_CREATED" /\ f.code = table'[k].code <=> f = g
    <3>1. CASE k = i
      BY <1>1, <1>2, <1>3, <1>4, <2>1, <2>2, <3>1
    <3>2. CASE k # i
      <4>1. k \in Present /\ table'[k] = table[k]
        BY <1>1, <2>3, <3>2
      <4>2. PICK g \in audit : \A f \in audit :
              f.action = "EVAL_ITEM_CREATED" /\ f.code = table[k].code <=> f = g
        BY <2>5, <4>1 DEF IInv, CreatedOnce
      <4>3. e.code # table[k].code /\ e # g
        BY <1>1, <2>1, <2>2, <4>1, <4>2
      <4> QED BY <1>3, <4>1, <4>2, <4>3
    <3> QED BY <3>1, <3>2
  <2> QED BY <2>4, <2>5 DEF CreatedOnce
<1>5. CASE b.op = "Update"
  <2>1. i \in Present /\ RowAfter(c).code = table[i].code
    BY <1>5, Committed
  <2>2. Present' = Present /\ \A k \in Present : table'[k].code = table[k].code
    BY <1>1, <1>2, <2>1 DEF Present
  <2>3. ASSUME NEW k \in Present, k \notin Seeded
        PROVE  \E g \in audit' : \A f \in audit' :
                 f.action = "EVAL_ITEM_CREATED" /\ f.code = table'[k].code <=> f = g
    <3>1. PICK g \in audit : \A f \in audit :
            f.action = "EVAL_ITEM_CREATED" /\ f.code = table[k].code <=> f = g
      BY <2>3 DEF IInv, CreatedOnce
    <3>2. e.action # "EVAL_ITEM_CREATED" /\ e # g
      BY <1>1, <1>5, <3>1
    <3> QED BY <1>3, <2>2, <3>1, <3>2
  <2> QED BY <2>2, <2>3 DEF IInv, CreatedOnce
<1> QED BY <1>1, <1>4, <1>5, Bodies

\* Each value and each answer has its audit row.
LEMMA CommitAudit == ASSUME IInv, NEW c \in Calls, Commit(c) PROVE AuditAccounts'
<1> DEFINE b == call[c]
           i == b.item
           e == EventOf(c)
<1>1. /\ b \in Call /\ i \in Items /\ table' = [table EXCEPT ![i] = RowAfter(c)]
      /\ Present' = Present \cup {i} /\ e.code = RowAfter(c).code /\ e.by = c
      /\ b.op = "Update" => i \in Present /\ RowAfter(c).code = table[i].code
  BY Committed
<1>2. table'[i] = RowAfter(c) /\ \A k \in Items \ {i} : table'[k] = table[k]
  BY <1>1 DEF IInv, TypeOK
<1>3. audit' = audit \cup {e}
  BY DEF Commit
<1>4. PICK a \in {"ok", "error"} : answer' = [answer EXCEPT ![c] = a]
  BY DEF Commit, Return
<1>5. answer'[c] = a /\ \A d \in Calls \ {c} : answer'[d] = answer[d]
  BY <1>4 DEF IInv, TypeOK
<1>6. ASSUME NEW d \in Calls
      PROVE  /\ answer'[d] = "ok" => \E f \in audit' : f.by = d
             /\ answer'[d] \in {"notfound", "conflict"} => \A f \in audit' : f.by # d
  <2>1. CASE d = c
    BY <1>1, <1>3, <1>5, <2>1
  <2>2. CASE d # c
    BY <1>1, <1>3, <1>5, <2>2 DEF IInv, AuditAccounts
  <2> QED BY <2>1, <2>2
<1>7. ASSUME NEW k \in Present', NEW d \in {table'[k].level, table'[k].rest} \ {NoItem}
      PROVE  \E f \in audit' : f.by = d /\ f.code = table'[k].code
  <2>1. CASE k # i
    BY <1>1, <1>2, <1>3, <1>7, <2>1 DEF IInv, AuditAccounts, Present
  <2>2. CASE k = i /\ d = c
    BY <1>1, <1>2, <1>3, <2>2
  <2>3. CASE k = i /\ d # c
    <3>1. b.op = "Update"
      BY <1>1, <1>2, <1>7, <2>3, Bodies DEF RowAfter
    <3>2. table[i] \in Row
      BY <1>1, <3>1 DEF IInv, TypeOK, Present
    <3>3. d \in {table[i].level, table[i].rest} \ {NoItem}
      BY <1>2, <1>7, <2>3, <3>1, <3>2 DEF RowAfter, Row
    <3> QED BY <1>1, <1>2, <1>3, <2>3, <3>1, <3>3 DEF IInv, AuditAccounts
  <2> QED BY <2>1, <2>2, <2>3
<1> QED BY <1>6, <1>7 DEF AuditAccounts

LEMMA CommitIInv == ASSUME IInv, NEW c \in Calls, Commit(c) PROVE IInv'
<1> DEFINE b == call[c]
           i == b.item
           e == EventOf(c)
<1>1. /\ b \in Call /\ i \in Items /\ pc[c] = "commit" /\ RowAfter(c) \in Row
      /\ table' = [table EXCEPT ![i] = RowAfter(c)] /\ Present' = Present \cup {i}
      /\ RowAfter(c).parent \in Present \cup {NoItem}
      /\ b.op = "Update" => i \in Present /\ RowAfter(c).code = table[i].code
      /\ b.op = "Insert" => RowAfter(c).code = b.code
      /\ e \in Event /\ e.by = c /\ e.code = RowAfter(c).code
  BY Committed
<1>2. table'[i] = RowAfter(c) /\ \A k \in Items \ {i} : table'[k] = table[k]
  BY <1>1 DEF IInv, TypeOK
<1>3. PICK a \in {"ok", "error"} : Return(c, a)
  BY DEF Commit
<1>4. /\ pc' = [pc EXCEPT ![c] = "done"] /\ answer' = [answer EXCEPT ![c] = a]
      /\ UNCHANGED <<call, old, seen>> /\ pc' \in [Calls -> Step]
      /\ answer' \in [Calls -> Answer] /\ rowLock' \in [Items -> Calls \cup {NoItem}]
  BY <1>3, Returned DEF IInv, Answer
<1>5. /\ pc'[c] = "done" /\ answer'[c] = a
      /\ \A d \in Calls \ {c} : pc'[d] = pc[d] /\ answer'[d] = answer[d]
  BY <1>4 DEF IInv, TypeOK
<1>6. audit' = audit \cup {e} /\ raced' \subseteq Items
  BY <1>1 DEF Commit, IInv, TypeOK
<1>7. TypeOK'
  BY <1>1, <1>4, <1>6 DEF IInv, TypeOK
<1>8. Present \subseteq Present' /\ \A k \in Present : table'[k].code = table[k].code
  <2>1. CASE b.op = "Update"
    BY <1>1, <1>2, <2>1 DEF Present
  <2>2. CASE b.op = "Insert"
    BY <1>1, <1>2, <2>2, Committed DEF Present
  <2> QED BY <1>1, <2>1, <2>2, Bodies
<1>9. ASSUME NEW d \in Calls PROVE Found(d)'
  <2>1. Found(d) /\ call'[d] = call[d] /\ old'[d] = old[d] /\ seen'[d] = seen[d]
    BY <1>4 DEF IInv
  <2>2. CASE d = c
    BY <1>1, <1>5, <2>1, <2>2 DEF Found
  <2>3. CASE d # c
    <3>1. pc'[d] = pc[d]
      BY <1>5, <2>3
    <3> QED BY <1>8, <2>1, <3>1 DEF Found, AsksHierarchy, ParentAsked
  <2> QED BY <2>2, <2>3
<1>10. ASSUME NEW d \in Calls PROVE KeysOwn(d)'
  <2> SUFFICES ASSUME Inserting(d)' PROVE KeysOwn(d)'
    BY DEF KeysOwn
  <2>1. d # c /\ Inserting(d) /\ call'[d] = call[d]
    BY <1>4, <1>5 DEF Inserting
  <2>2. \A f \in Calls : Inserting(f)' => Inserting(f) /\ call'[f] = call[f]
    BY <1>4, <1>5 DEF Inserting
  <2>3. ~KeyTaken(d)
    BY <2>1 DEF IInv, KeysOwn
  <2>4. b.op = "Insert" => i # call[d].item /\ b.code # call[d].code
    BY <1>1, <2>1 DEF IInv, KeysOwn, Inserting
  <2>5. ~KeyTaken(d)'
    <3>1. CASE b.op = "Insert"
      BY <1>1, <1>2, <1>8, <2>1, <2>3, <2>4, <3>1 DEF KeyTaken
    <3>2. CASE b.op = "Update"
      BY <1>1, <1>2, <1>8, <2>1, <2>3, <3>2 DEF KeyTaken
    <3> QED BY <1>1, <3>1, <3>2, Bodies
  <2> QED BY <2>1, <2>2, <2>5 DEF IInv, KeysOwn
<1>11. ASSUME NEW f \in audit' PROVE Recorded(f)'
  <2>1. CASE f = e
    BY <1>1, <1>2, <1>5, <2>1 DEF Recorded
  <2>2. CASE f \in audit
    <3>1. Recorded(f) /\ f.by \in Calls
      BY <2>2 DEF IInv, TypeOK, Event
    <3>2. f.by # c
      BY <1>1, <3>1 DEF Recorded
    <3> QED BY <1>5, <1>8, <3>1, <3>2 DEF Recorded
  <2> QED BY <1>6, <2>1, <2>2
<1>12. ParentsExist'
  <2>1. ASSUME NEW k \in Present' PROVE table'[k].parent \in Present' \cup {NoItem}
    <3>1. CASE k = i
      BY <1>1, <1>2, <3>1
    <3>2. CASE k # i
      BY <1>1, <1>2, <3>2 DEF IInv, ParentsExist, Present
    <3> QED BY <3>1, <3>2
  <2> QED BY <2>1 DEF ParentsExist
<1> QED BY <1>7, <1>9, <1>10, <1>11, <1>12, CommitCycles, CommitCreated, CommitAudit DEF IInv

-----------------------------------------------------------------------------
LEMMA NextIInv == IInv /\ [Next]_vars => IInv'
<1> SUFFICES ASSUME IInv, [Next]_vars PROVE IInv'
  OBVIOUS
<1>1. ASSUME NEW c \in Calls, Abort(c) PROVE IInv'
  BY <1>1, RefuseIInv DEF Abort, Answer
<1>2. CASE UNCHANGED vars
  <2>1. TypeOK' /\ Present' = Present
    BY <1>2 DEF IInv, TypeOK, vars, Present
  <2>2. \A c \in Calls : Found(c)' /\ KeysOwn(c)'
    BY <1>2, <2>1 DEF IInv, Found, KeysOwn, Inserting, KeyTaken, AsksHierarchy, ParentAsked, vars
  <2>3. \A e \in audit : Recorded(e)'
    BY <1>2, <2>1 DEF IInv, Recorded, vars
  <2>4. ParentsExist' /\ CreatedOnce' /\ AuditAccounts'
    BY <1>2, <2>1 DEF IInv, ParentsExist, CreatedOnce, AuditAccounts, vars
  <2>5. \A S \in SUBSET Items : Rootless(S)' = Rootless(S)
    BY <1>2, <2>1 DEF Rootless, vars
  <2>6. CyclesNeedARace'
    BY <1>2, <2>5 DEF IInv, CyclesNeedARace, vars
  <2> QED BY <1>2, <2>1, <2>2, <2>3, <2>4, <2>6 DEF IInv, vars
<1> QED
  BY <1>1, <1>2, ArriveIInv, FindParentIInv, FindItemIInv, GuardIInv, InsertIInv, UpdateIInv,
     CommitIInv DEF Next

LEMMA Invariance == Spec => []IInv
BY InitIInv, NextIInv, PTL DEF Spec

\* TypeOK for any items, codes and calls.
THEOREM TypeCorrect == Spec => []TypeOK
<1>1. IInv => TypeOK
  BY DEF IInv
<1> QED BY <1>1, Invariance, PTL

\* ParentsExist for any items and calls: a parent that was found, or that the
\* foreign key accepted, is never deleted.
THEOREM NoOrphans == Spec => []ParentsExist
<1>1. IInv => ParentsExist
  BY DEF IInv
<1> QED BY <1>1, Invariance, PTL

\* CyclesNeedARace for any items and calls: an item without children is on no
\* cycle, wherever it is moved, if it is not put under itself.
THEOREM TreeButForRaces == Spec => []CyclesNeedARace
<1>1. IInv => CyclesNeedARace
  BY DEF IInv
<1> QED BY <1>1, Invariance, PTL

\* CreatedOnce for any items, codes and calls: the two unique keys.
THEOREM OneCreation == Spec => []CreatedOnce
<1>1. IInv => CreatedOnce
  BY DEF IInv
<1> QED BY <1>1, Invariance, PTL

\* AuditAccounts for any items, codes and calls.
THEOREM AuditTrail == Spec => []AuditAccounts
<1>1. IInv => AuditAccounts
  BY DEF IInv
<1> QED BY <1>1, Invariance, PTL

-----------------------------------------------------------------------------
(* Waiting: an insertion waits for a key, an update for a row.             *)

Active(c) == pc[c] \notin {"idle", "done"}

\* A call is not kept waiting.
Ready(c) ==
  \/ pc[c] \in {"read", "count", "commit"}
  \/ pc[c] = "write" /\ call[c].op = "Insert" /\ ~KeyInDoubt(c)
  \/ pc[c] = "write" /\ call[c].op = "Update" /\ rowLock[call[c].item] = NoItem

\* Whoever has updated a row has only its commit left.
HoldersCommit == \A i \in Items : rowLock[i] # NoItem => pc[rowLock[i]] = "commit"

\* As long as a call is in flight, some call can take its next step.
SomeoneReady == (\E c \in Calls : Active(c)) => \E c \in Calls : Ready(c)

\* How many steps a call is from its answer, at most.
Distance(c) ==
  CASE pc[c] = "idle" -> 5 [] pc[c] = "read" -> 4 [] pc[c] = "count" -> 3
    [] pc[c] = "write" -> 2 [] pc[c] = "commit" -> 1 [] OTHER -> 0

\* No step takes a call further from its answer, and each brings one nearer.
Nearer ==
  /\ \A c \in Calls : Distance(c)' <= Distance(c)
  /\ \E c \in Calls : Distance(c)' < Distance(c)

\* What a step of a call does to the waiting: it ends the call and gives its row
\* back, or takes the row, or goes on.
Ends(c) ==
  /\ Active(c) /\ pc'[c] = "done"
  /\ rowLock' = [i \in Items |-> IF rowLock[i] = c THEN NoItem ELSE rowLock[i]]

Takes(c) ==
  /\ pc[c] = "write" /\ pc'[c] = "commit"
  /\ rowLock' = [rowLock EXCEPT ![call[c].item] = c]

Goes(c) ==
  /\ \/ pc[c] = "idle" /\ pc'[c] = "read"
     \/ pc[c] = "read" /\ pc'[c] \in {"count", "write", "commit"}
     \/ pc[c] = "count" /\ pc'[c] = "write"
     \/ pc[c] = "write" /\ pc'[c] = "commit"
  /\ rowLock' = rowLock

LEMMA Steps ==
  ASSUME IInv, Next
  PROVE  \E c \in Calls : /\ \A d \in Calls \ {c} : pc'[d] = pc[d]
                          /\ Ends(c) \/ Takes(c) \/ Goes(c)
<1>1. PICK c \in Calls :
        \/ Arrive(c) \/ FindParent(c) \/ FindItem(c) \/ HierarchyMutationGuard(c)
        \/ InsertEvalItem(c) \/ UpdateEvalItem(c) \/ Commit(c) \/ Abort(c)
  BY DEF Next
<1>2. pc \in [Calls -> Step]
  BY DEF IInv, TypeOK
<1>3. ASSUME NEW a, Return(c, a), Active(c)
      PROVE  (\A d \in Calls \ {c} : pc'[d] = pc[d]) /\ Ends(c)
  BY <1>2, <1>3 DEF Return, Goto, Ends
<1>4. ASSUME NEW step, Goto(c, step)
      PROVE  pc'[c] = step /\ \A d \in Calls \ {c} : pc'[d] = pc[d]
  BY <1>2, <1>4 DEF Goto
<1>5. CASE Arrive(c)
  BY <1>4, <1>5 DEF Arrive, Goes
<1>6. CASE FindParent(c) \/ InsertEvalItem(c)
  <2>1. pc[c] \in {"read", "write"} /\ Active(c)
    BY <1>6 DEF FindParent, InsertEvalItem, Active
  <2>2. CASE Refuse(c, "notfound") \/ Refuse(c, "error")
    BY <1>3, <2>1, <2>2 DEF Refuse
  <2>3. CASE /\ rowLock' = rowLock
             /\ \/ pc[c] = "read" /\ Goto(c, "write")
                \/ pc[c] = "write" /\ Goto(c, "commit")
    BY <1>4, <2>3 DEF Goes
  <2> QED BY <1>6, <2>2, <2>3 DEF FindParent, InsertEvalItem
<1>7. CASE FindItem(c)
  <2>1. pc[c] = "read" /\ Active(c)
    BY <1>7 DEF FindItem, Active
  <2>2. CASE Refuse(c, "notfound")
    BY <1>3, <2>1, <2>2 DEF Refuse
  <2>3. CASE /\ rowLock' = rowLock
             /\ Goto(c, "count") \/ Goto(c, "write") \/ Goto(c, "commit")
    BY <1>4, <2>1, <2>3 DEF Goes
  <2> QED BY <1>7, <2>2, <2>3 DEF FindItem
<1>8. CASE HierarchyMutationGuard(c)
  <2>1. pc[c] = "count" /\ Active(c)
    BY <1>8 DEF HierarchyMutationGuard, Active
  <2>2. CASE Refuse(c, "conflict")
    BY <1>3, <2>1, <2>2 DEF Refuse
  <2>3. CASE rowLock' = rowLock /\ Goto(c, "write")
    BY <1>4, <2>1, <2>3 DEF Goes
  <2> QED BY <1>8, <2>2, <2>3 DEF HierarchyMutationGuard
<1>9. CASE UpdateEvalItem(c)
  <2>1. pc[c] = "write" /\ Active(c)
    BY <1>9 DEF UpdateEvalItem, Active
  <2>2. CASE Refuse(c, "error")
    BY <1>3, <2>1, <2>2 DEF Refuse
  <2>3. CASE rowLock' = [rowLock EXCEPT ![call[c].item] = c] /\ Goto(c, "commit")
    BY <1>4, <2>1, <2>3 DEF Takes
  <2> QED BY <1>9, <2>2, <2>3 DEF UpdateEvalItem
<1>10. CASE Commit(c)
  BY <1>3, <1>10 DEF Commit, Active
<1>11. CASE Abort(c)
  BY <1>3, <1>11 DEF Abort, Refuse, Active
<1> QED BY <1>1, <1>5, <1>6, <1>7, <1>8, <1>9, <1>10, <1>11

LEMMA HoldersStep == ASSUME IInv, HoldersCommit, [Next]_vars PROVE HoldersCommit'
<1>1. CASE UNCHANGED vars
  BY <1>1 DEF vars, HoldersCommit
<1>2. CASE Next
  <2>1. PICK c \in Calls : /\ \A d \in Calls \ {c} : pc'[d] = pc[d]
                           /\ Ends(c) \/ Takes(c) \/ Goes(c)
    BY <1>2, Steps
  <2>2. rowLock \in [Items -> Calls \cup {NoItem}]
    BY DEF IInv, TypeOK
  <2>3. CASE Ends(c)
    BY <2>1, <2>2, <2>3 DEF Ends, HoldersCommit
  <2>4. CASE Takes(c)
    BY <2>1, <2>2, <2>4 DEF Takes, HoldersCommit
  <2>5. CASE Goes(c)
    BY <2>1, <2>2, <2>5 DEF Goes, HoldersCommit
  <2> QED BY <2>1, <2>3, <2>4, <2>5
<1> QED BY <1>1, <1>2

\* Who is waited for, the writer of a key or the holder of a row, is about to
\* commit.
LEMMA HoldersSuffice == ASSUME IInv, HoldersCommit PROVE SomeoneReady
<1> SUFFICES ASSUME NEW c \in Calls, Active(c) PROVE \E d \in Calls : Ready(d)
  BY DEF SomeoneReady
<1>1. pc[c] \in {"read", "count", "write", "commit"} /\ call[c] \in Call
  BY DEF IInv, TypeOK, Found, Step, Active
<1>2. CASE pc[c] = "write" /\ call[c].op = "Insert" /\ KeyInDoubt(c)
  <2>1. PICK d \in Calls \ {c} : pc[d] = "commit"
    BY <1>2 DEF KeyInDoubt
  <2> QED BY <2>1 DEF Ready
<1>3. CASE pc[c] = "write" /\ call[c].op = "Update" /\ rowLock[call[c].item] # NoItem
  <2>1. call[c].item \in Items
    BY <1>1, Bodies
  <2>2. rowLock[call[c].item] \in Calls /\ pc[rowLock[call[c].item]] = "commit"
    BY <1>3, <2>1 DEF IInv, TypeOK, HoldersCommit
  <2> QED BY <2>2 DEF Ready
<1>4. call[c].op \in {"Insert", "Update"}
  BY <1>1, Bodies
<1> QED BY <1>1, <1>2, <1>3, <1>4 DEF Ready

\* Whatever is inserted and moved at the same time, the two unique keys and the
\* rows never make all calls wait: a transaction locks the one row it writes last.
THEOREM NoDeadlock == Spec => []SomeoneReady
<1>1. Init => HoldersCommit
  BY DEF Init, HoldersCommit
<1>2. IInv /\ HoldersCommit /\ [Next]_vars => HoldersCommit'
  BY HoldersStep
<1>3. IInv /\ HoldersCommit => SomeoneReady
  BY HoldersSuffice
<1> QED BY <1>1, <1>2, <1>3, Invariance, PTL DEF Spec

\* Each step brings a call nearer to its answer and takes none further from it:
\* no handler retries, so finitely many calls take finitely many steps.
THEOREM EveryStepCounts == Spec => [][Nearer]_vars
<1>1. ASSUME IInv, Next PROVE Nearer
  <2>1. PICK c \in Calls : /\ \A d \in Calls \ {c} : pc'[d] = pc[d]
                           /\ Ends(c) \/ Takes(c) \/ Goes(c)
    BY <1>1, Steps
  <2>2. pc[c] \in Step
    BY <1>1 DEF IInv, TypeOK
  <2>3. Distance(c)' < Distance(c) /\ Distance(c)' <= Distance(c)
    BY <2>1, <2>2 DEF Ends, Takes, Goes, Distance, Step, Active
  <2>4. ASSUME NEW d \in Calls \ {c} PROVE Distance(d)' <= Distance(d)
    BY <2>1 DEF Distance
  <2> QED BY <2>3, <2>4 DEF Nearer
<1>2. IInv /\ [Next]_vars => [Nearer]_vars
  BY <1>1
<1> QED BY <1>2, Invariance, PTL DEF Spec

-----------------------------------------------------------------------------
(* The refinement.                                                         *)

\* A call that has not arrived has no body, and one under way no answer.
Unanswered(c) == /\ pc[c] = "idle" => call[c] = NoItem
                 /\ pc[c] # "done" => answer[c] = "none"

TInv == IInv /\ \A c \in Calls : Unanswered(c)

LEMMA UnansweredStep == ASSUME TInv, [Next]_vars, NEW c \in Calls PROVE Unanswered(c)'
<1> USE DEF TInv, IInv, TypeOK, Unanswered
<1>1. CASE UNCHANGED vars
  BY <1>1 DEF vars
<1>2. ASSUME NEW d \in Calls,
             \/ Arrive(d) \/ FindParent(d) \/ FindItem(d) \/ HierarchyMutationGuard(d)
             \/ InsertEvalItem(d) \/ UpdateEvalItem(d) \/ Commit(d) \/ Abort(d)
      PROVE  /\ d # c => pc'[c] = pc[c] /\ call'[c] = call[c] /\ answer'[c] = answer[c]
             /\ pc'[d] # "idle" /\ pc[d] # "done"
             /\ pc'[d] # "done" => answer'[d] = answer[d]
  BY <1>2 DEF Arrive, FindParent, FindItem, HierarchyMutationGuard, InsertEvalItem,
              UpdateEvalItem, Commit, Abort, Refuse, Return, Goto
<1> QED BY <1>1, <1>2 DEF Next

\* The names of this module for what the abstract one defines.
LEMMA Same ==
  /\ Tree!Present = Present
  /\ \A i : Tree!Leaf(i) <=> ChildrenOf(i) = {}
  /\ Tree!Question = Call
  /\ \A b : Tree!Moves(b) <=> ParentAsked(b) # Keep
BY EvalItemAssumption
DEF Tree!Present, Present, Tree!Leaf, ChildrenOf, Tree!Question, Call, Insertion, Change,
    Tree!Moves, ParentAsked

LEMMA InitMaps == Init => Tree!Init
<1>1. ASSUME Init PROVE Unblocked = {}
  BY <1>1 DEF Init, Unblocked
<1> QED BY <1>1 DEF Init, Tree!Init, Tree!Entry

\* Whose guard has found no child changes for the call that moves only.
LEMMA UnblockedMoves ==
  ASSUME NEW c \in Calls, \A d \in Calls \ {c} : pc'[d] = pc[d] /\ call'[d] = call[d]
  PROVE  /\ (c \in Unblocked' <=> c \in Unblocked) => Unblocked' = Unblocked
         /\ c \notin Unblocked' => Unblocked' = Unblocked \ {c}
         /\ c \in Unblocked' => Unblocked' = Unblocked \cup {c}
BY DEF Unblocked

\* The end of a call is its answer.
LEMMA ReturnMaps ==
  ASSUME TInv, NEW c \in Calls, NEW a, Return(c, a) PROVE Tree!Answer(c, a)
<1>1. /\ pc'[c] = "done" /\ \A d \in Calls \ {c} : pc'[d] = pc[d]
      /\ UNCHANGED <<call, old>> /\ answer' = [answer EXCEPT ![c] = a]
  BY DEF Return, Goto, TInv, IInv, TypeOK
<1>2. c \notin Unblocked'
  BY <1>1 DEF Unblocked
<1> QED BY <1>1, <1>2, UnblockedMoves DEF Tree!Answer

LEMMA Underway ==
  ASSUME TInv, NEW c \in Calls, pc[c] \notin {"idle", "done"}
  PROVE  /\ call[c] \in Call /\ Tree!Asks(c, call[c].op) /\ Found(c)
         /\ call[c].op \in {"Insert", "Update"}
<1>1. Found(c) /\ call[c] \in Call /\ answer[c] = "none"
  BY DEF TInv, IInv, Found, Unanswered
<1> QED BY <1>1, Bodies, EvalItemAssumption DEF Tree!Asks

LEMMA DeclineMaps ==
  ASSUME TInv, NEW c \in Calls, pc[c] \notin {"idle", "done"},
         NEW a \in Tree!Refusals(c) \cup {"error"}, Refuse(c, a)
  PROVE  Tree!Next
<1>1. Tree!Answer(c, a) /\ UNCHANGED <<table, audit>>
  BY ReturnMaps DEF Refuse
<1>2. Tree!Asks(c, "Insert") \/ Tree!Asks(c, "Update")
  BY Underway
<1>3. Tree!Decline(c)
  BY <1>1, <1>2 DEF Tree!Decline
<1> QED BY <1>3 DEF Tree!Next

\* A step that shows in the pc alone.
LEMMA GotoMaps ==
  ASSUME TInv, NEW c \in Calls, NEW step, Goto(c, step),
         UNCHANGED <<table, audit, call, old, answer>>,
         c \in Unblocked' <=> c \in Unblocked
  PROVE  UNCHANGED Tree!vars
<1>1. \A d \in Calls \ {c} : pc'[d] = pc[d] /\ call'[d] = call[d]
  BY DEF Goto, TInv, IInv, TypeOK
<1> QED BY <1>1, UnblockedMoves DEF Tree!vars

LEMMA ArriveMaps == ASSUME TInv, NEW c \in Calls, Arrive(c) PROVE Tree!Next
<1>1. /\ pc[c] = "idle" /\ pc'[c] = "read" /\ \A d \in Calls \ {c} : pc'[d] = pc[d]
      /\ UNCHANGED <<table, audit, old, answer>>
  BY DEF Arrive, Goto, TInv, IInv, TypeOK
<1>2. PICK b \in Call : call' = [call EXCEPT ![c] = b]
  BY DEF Arrive
<1>3. call[c] = NoItem /\ \A d \in Calls \ {c} : call'[d] = call[d]
  BY <1>1, <1>2 DEF TInv, IInv, TypeOK, Unanswered
<1>4. c \notin Unblocked' /\ c \notin Unblocked
  BY <1>1 DEF Unblocked
<1>5. Tree!Ask(c)
  BY <1>1, <1>2, <1>3, <1>4, UnblockedMoves, Same DEF Tree!Ask
<1> QED BY <1>5 DEF Tree!Next

LEMMA FindParentMaps == ASSUME TInv, NEW c \in Calls, FindParent(c) PROVE [Tree!Next]_(Tree!vars)
<1>1. pc[c] = "read" /\ call[c].op = "Insert"
  BY DEF FindParent
<1>2. CASE call[c].parent \in Present \cup {NoItem}
  <2>1. Goto(c, "write") /\ UNCHANGED <<table, audit, call, old, answer>>
    BY <1>2 DEF FindParent
  <2>2. c \notin Unblocked' /\ c \notin Unblocked
    BY <1>1, <2>1 DEF Unblocked
  <2> QED BY <2>1, <2>2, GotoMaps
<1>3. CASE call[c].parent \notin Present \cup {NoItem}
  <2>1. "notfound" \in Tree!Refusals(c)
    BY <1>1, <1>3, Same DEF Tree!Refusals
  <2>2. Refuse(c, "notfound")
    BY <1>3 DEF FindParent
  <2> QED BY <1>1, <2>1, <2>2, DeclineMaps
<1> QED BY <1>2, <1>3

LEMMA FindItemMaps == ASSUME TInv, NEW c \in Calls, FindItem(c) PROVE Tree!Next
<1>1. pc[c] = "read" /\ call[c].op = "Update"
  BY DEF FindItem
<1>2. CASE call[c].item \in Present
  <2>1. /\ old' = [old EXCEPT ![c] = table[call[c].item]]
        /\ Goto(c, IF AsksHierarchy(call[c]) THEN "count"
                   ELSE IF HasColumns(call[c]) THEN "write" ELSE "commit")
        /\ UNCHANGED <<table, audit, call, answer>>
    BY <1>2 DEF FindItem
  <2>2. /\ AsksHierarchy(call[c]) => pc'[c] = "count"
        /\ \A d \in Calls \ {c} : pc'[d] = pc[d]
    BY <2>1 DEF Goto, TInv, IInv, TypeOK
  <2>3. c \notin Unblocked' /\ c \notin Unblocked
    BY <1>1, <2>1, <2>2 DEF Unblocked
  <2>4. Tree!Look(c)
    BY <1>1, <1>2, <2>1, <2>2, <2>3, UnblockedMoves, Underway, Same DEF Tree!Look
  <2> QED BY <2>4 DEF Tree!Next
<1>3. CASE call[c].item \notin Present
  <2>1. "notfound" \in Tree!Refusals(c)
    BY <1>1, <1>3, Same DEF Tree!Refusals
  <2>2. Refuse(c, "notfound")
    BY <1>3 DEF FindItem
  <2> QED BY <1>1, <2>1, <2>2, DeclineMaps
<1> QED BY <1>2, <1>3

LEMMA GuardMaps == ASSUME TInv, NEW c \in Calls, HierarchyMutationGuard(c) PROVE Tree!Next
<1>1. pc[c] = "count" /\ call[c].op = "Update" /\ AsksHierarchy(call[c])
  BY Underway DEF HierarchyMutationGuard, Found
<1>2. Tree!Asks(c, "Update")
  BY <1>1, Underway
<1>3. CASE ChildrenOf(call[c].item) = {}
  <2>1. Goto(c, "write") /\ UNCHANGED <<table, audit, call, old, answer>>
    BY <1>3 DEF HierarchyMutationGuard
  <2>2. pc'[c] = "write" /\ \A d \in Calls \ {c} : pc'[d] = pc[d]
    BY <2>1 DEF Goto, TInv, IInv, TypeOK
  <2>3. c \in Unblocked'
    BY <1>1, <2>1, <2>2 DEF Unblocked
  <2>4. Tree!LookBelow(c)
    BY <1>2, <1>3, <2>1, <2>2, <2>3, UnblockedMoves, Same DEF Tree!LookBelow
  <2> QED BY <2>4 DEF Tree!Next
<1>4. CASE ChildrenOf(call[c].item) # {}
  <2>1. "conflict" \in Tree!Refusals(c)
    BY <1>1, <1>4, Same DEF Tree!Refusals, AsksHierarchy
  <2>2. Refuse(c, "conflict")
    BY <1>4 DEF HierarchyMutationGuard
  <2> QED BY <1>1, <2>1, <2>2, DeclineMaps
<1> QED BY <1>3, <1>4

\* The statements show in nothing but a failure.
LEMMA WriteMaps ==
  ASSUME TInv, NEW c \in Calls, InsertEvalItem(c) \/ UpdateEvalItem(c)
  PROVE  [Tree!Next]_(Tree!vars)
<1>1. pc[c] = "write"
  BY DEF InsertEvalItem, UpdateEvalItem
<1>2. CASE Refuse(c, "error")
  BY <1>1, <1>2, DeclineMaps
<1>3. CASE Goto(c, "commit") /\ UNCHANGED <<table, audit, call, old, answer>>
  <2>1. pc'[c] = "commit"
    BY <1>3 DEF Goto, TInv, IInv, TypeOK
  <2>2. c \in Unblocked' <=> c \in Unblocked
    BY <1>1, <1>3, <2>1 DEF Unblocked
  <2> QED BY <1>3, <2>2, GotoMaps
<1> QED BY <1>2, <1>3 DEF InsertEvalItem, UpdateEvalItem

\* A commit finds what its call has looked up: parents stay, and keys are kept.
LEMMA CommitMaps == ASSUME TInv, NEW c \in Calls, Commit(c) PROVE Tree!Next
<1> DEFINE b == call[c]
<1>1. /\ pc[c] = "commit" /\ Found(c) /\ KeysOwn(c) /\ b \in Call /\ Tree!Asks(c, b.op)
      /\ b.op \in {"Insert", "Update"}
  BY Underway DEF Commit, TInv, IInv
<1>2. /\ table' = [table EXCEPT ![b.item] = RowAfter(c)]
      /\ audit' = audit \cup {EventOf(c)}
  BY DEF Commit
<1>3. Tree!Answer(c, "ok") \/ Tree!Answer(c, "error")
  BY ReturnMaps DEF Commit
<1>4. CASE b.op = "Insert"
  <2>1. b.parent \in Present \cup {NoItem} /\ ~KeyTaken(c)
    BY <1>1, <1>4 DEF Found, KeysOwn, Inserting
  <2>2. /\ RowAfter(c) = Tree!Entry(b.parent, b.code, c)
        /\ EventOf(c) = Tree!Event("EVAL_ITEM_CREATED", b.code, b.parent, c)
    BY <1>4 DEF RowAfter, EventOf, Tree!Entry, Tree!Event
  <2>3. b.item \notin Present /\ \A i \in Present : table[i].code # b.code
    BY <2>1 DEF KeyTaken
  <2>4. Tree!Insert(c)
    BY <1>1, <1>2, <1>3, <1>4, <2>1, <2>2, <2>3, Same DEF Tree!Insert, Tree!Effect
  <2> QED BY <2>4 DEF Tree!Next
<1>5. CASE b.op = "Update"
  <2>1. /\ b.item \in Present /\ old[c] \in Row /\ old[c].code = table[b.item].code
        /\ ParentAsked(b) # Keep => b.parent \in Present
    BY <1>1, <1>5 DEF Found
  <2>2. /\ RowAfter(c) = [table[b.item] EXCEPT
                            !.parent = IF Tree!Moves(b) THEN b.parent ELSE @,
                            !.level = IF b.set = "level" THEN c ELSE @,
                            !.rest = IF b.set = "rest" THEN c ELSE @]
        /\ EventOf(c) = Tree!Event("EVAL_ITEM_UPDATED", table[b.item].code, old[c].parent, c)
    <3>1. Tree!Moves(b) <=> ~(ParentAsked(b) = Keep)
      BY Same
    <3> QED BY <1>5, <2>1, <3>1 DEF RowAfter, EventOf, Tree!Event
  <2>3. Tree!Moves(b) \/ b.set = "level" => c \in Unblocked
    BY <1>1, <1>5, Same DEF Unblocked, AsksHierarchy
  <2>4. old[c] # NoItem
    BY <2>1, EvalItemAssumption
  <2>5. Tree!Update(c)
    BY <1>1, <1>2, <1>3, <1>5, <2>1, <2>2, <2>3, <2>4, Same DEF Tree!Update, Tree!Effect
  <2> QED BY <2>5 DEF Tree!Next
<1> QED BY <1>1, <1>4, <1>5

LEMMA StepMaps == ASSUME TInv, [Next]_vars PROVE [Tree!Next]_(Tree!vars)
<1>1. CASE UNCHANGED vars
  BY <1>1 DEF vars, Tree!vars, Unblocked
<1>2. ASSUME NEW c \in Calls, Abort(c) PROVE Tree!Next
  BY <1>2, DeclineMaps DEF Abort
<1> QED BY <1>1, <1>2, ArriveMaps, FindParentMaps, FindItemMaps, GuardMaps, WriteMaps, CommitMaps
        DEF Next

\* ImplementsTree for any items, codes and calls: what the calls do to the tree and
\* tell their callers is what calls made one after the other would, but for the two
\* looks that are not repeated.
THEOREM TreeRefinement == Spec => ImplementsTree
<1>1. Init => TInv
  BY InitIInv DEF Init, TInv, Unanswered
<1>2. TInv /\ [Next]_vars => TInv'
  BY NextIInv, UnansweredStep DEF TInv
<1>3. TInv /\ [Next]_vars => [Tree!Next]_(Tree!vars)
  BY StepMaps
<1> QED BY <1>1, <1>2, <1>3, InitMaps, PTL DEF Spec, ImplementsTree, Tree!Spec
=============================================================================
