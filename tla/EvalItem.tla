------------------------------ MODULE EvalItem ------------------------------
(***************************************************************************)
(* The tree of evaluation items: internal/store/eval_item.go, the handlers *)
(* of cmd/server/eval_item_handlers.go and the table of migration 0003.    *)
(*                                                                         *)
(* An item is inserted under a parent or as a root and may be moved later. *)
(* The store looks whether the parent exists, and whether an item that is  *)
(* to be moved has children, with plain SELECTs: nothing is locked until   *)
(* the INSERT or the UPDATE.  Items are never deleted.  What the database  *)
(* adds: the id and hierarchy_code are unique (a second writer of a key    *)
(* waits for the first one's outcome), parent_id refers to a row (the      *)
(* check shares the parent with its own update), and the updates of a row  *)
(* wait for each other.                                                    *)
(*                                                                         *)
(* Abstraction: the columns other than parent_id, hierarchy_code and level *)
(* are one, and its value stands for the call that wrote it; an update     *)
(* names one column at most.  Checks of a body alone are left out.         *)
(***************************************************************************)
CONSTANTS Items,   \* ids
          Seeded,  \* those that are roots from the start, each with its own code
          Codes,   \* hierarchy codes that insertions bring
          Calls,   \* requests that write; each is made once
          NoItem,  \* the parent of a root, and null in a body
          Keep     \* a field that the body does not have

VARIABLES
  table,    \* [Items -> Row \cup {NoItem}]: the committed rows
  audit,    \* the committed audit rows
  rowLock,  \* [Items -> Calls \cup {NoItem}]: who has updated a row and not ended
  raced,    \* items that got a child between their move's check and its commit
  pc,       \* [Calls -> Step]
  call,     \* [Calls -> Call \cup {NoItem}]
  old,      \* [Calls -> Row \cup {NoItem}]: the row handleUpdate reads first
  seen,     \* [Calls -> SUBSET Items]: the children the guard counts
  answer    \* [Calls -> Answer]

vars == <<table, audit, rowLock, raced, pc, call, old, seen, answer>>

AnyCode == Codes \cup Seeded

Row == [parent: Items \cup {NoItem}, code: AnyCode,
        level: Calls \cup {NoItem}, rest: Calls \cup {NoItem}]

Insertion == [op: {"Insert"}, item: Items, parent: Items \cup {NoItem}, code: Codes]

\* The body of a PUT: one field, or none.
Change == [op: {"Update"}, item: Items, set: {"parent", "level", "rest", "nothing"},
           parent: Items \cup {NoItem, Keep}]

Call == Insertion \cup {b \in Change : (b.parent # Keep) <=> (b.set = "parent")}

ASSUME EvalItemAssumption ==
  /\ Seeded \subseteq Items
  /\ NoItem \notin Items \cup Codes \cup Calls \cup Row \cup Call
  /\ Keep \notin Items \cup {NoItem}
  /\ Items \cap Codes = {}

Event == [action: {"EVAL_ITEM_CREATED", "EVAL_ITEM_UPDATED"}, code: AnyCode,
          parent: Items \cup {NoItem}, by: Calls]

Step == {"idle", "read", "count", "write", "commit", "done"}

Answer == {"none", "ok", "notfound", "conflict", "error"}

Init ==
  /\ table = [i \in Items |->
                IF i \in Seeded THEN [parent |-> NoItem, code |-> i, level |-> NoItem, rest |-> NoItem]
                                ELSE NoItem]
  /\ audit = {}
  /\ rowLock = [i \in Items |-> NoItem]
  /\ raced = {}
  /\ pc = [c \in Calls |-> "idle"]
  /\ call = [c \in Calls |-> NoItem]
  /\ old = [c \in Calls |-> NoItem]
  /\ seen = [c \in Calls |-> {}]
  /\ answer = [c \in Calls |-> "none"]

Present == {i \in Items : table[i] # NoItem}

ChildrenOf(i) == {k \in Present : table[k].parent = i}

-----------------------------------------------------------------------------
\* encoding/json stores null in the *json.RawMessage of the body as a nil
\* pointer, as if the field were absent.
ParentAsked(b) == IF b.parent = NoItem THEN Keep ELSE b.parent

\* The guard looks at requests for a new parent or level only.
AsksHierarchy(b) == ParentAsked(b) # Keep \/ b.set = "level"

\* Requests that leave something to be written.
HasColumns(b) == AsksHierarchy(b) \/ b.set = "rest"

-----------------------------------------------------------------------------
Goto(c, step) == pc' = [pc EXCEPT ![c] = step]

\* The end of a request: Commit or the deferred Rollback.
Return(c, ans) ==
  /\ Goto(c, "done")
  /\ answer' = [answer EXCEPT ![c] = ans]
  /\ rowLock' = [i \in Items |-> IF rowLock[i] = c THEN NoItem ELSE rowLock[i]]
  /\ UNCHANGED <<call, old, seen>>

\* mapEvalItemStoreErr, before anything was written.
Refuse(c, ans) == Return(c, ans) /\ UNCHANGED <<table, audit, raced>>

Arrive(c) ==
  /\ pc[c] = "idle"
  /\ \E b \in Call : call' = [call EXCEPT ![c] = b]
  /\ Goto(c, "read")
  /\ UNCHANGED <<table, audit, rowLock, raced, old, seen, answer>>

\* InsertEvalItem looks for the parent.
FindParent(c) ==
  /\ pc[c] = "read" /\ call[c].op = "Insert"
  /\ IF call[c].parent \in Present \cup {NoItem}
       THEN /\ Goto(c, "write")
            /\ UNCHANGED <<table, audit, rowLock, raced, call, old, seen, answer>>
       ELSE Refuse(c, "notfound")

\* Mutant: a body without columns is answered at once.
FindItem_NoOp(c) ==
  /\ pc[c] = "read" /\ call[c].op = "Update"
  /\ IF call[c].item \in Present /\ HasColumns(call[c])
       THEN /\ old' = [old EXCEPT ![c] = table[call[c].item]]
            /\ Goto(c, IF AsksHierarchy(call[c]) THEN "count" ELSE "write")
            /\ UNCHANGED <<table, audit, rowLock, raced, call, seen, answer>>
       ELSE Refuse(c, IF call[c].item \in Present THEN "ok" ELSE "notfound")

\* handleUpdate reads the item (and UpdateEvalItem once more: rows stay).
FindItem(c) ==
  /\ pc[c] = "read" /\ call[c].op = "Update"
  /\ IF call[c].item \in Present
       THEN /\ old' = [old EXCEPT ![c] = table[call[c].item]]
            /\ Goto(c, IF AsksHierarchy(call[c]) THEN "count"
                       ELSE IF HasColumns(call[c]) THEN "write" ELSE "commit")
            /\ UNCHANGED <<table, audit, rowLock, raced, call, seen, answer>>
       ELSE Refuse(c, "notfound")

\* Mutant: the children are counted, but the move is not refused.
HierarchyMutationGuard_Lax(c) ==
  /\ pc[c] = "count"
  /\ seen' = [seen EXCEPT ![c] = ChildrenOf(call[c].item)]
  /\ Goto(c, "write")
  /\ UNCHANGED <<table, audit, rowLock, raced, call, old, answer>>

\* checkHierarchyMutationGuard.
HierarchyMutationGuard(c) ==
  /\ pc[c] = "count"
  /\ IF ChildrenOf(call[c].item) = {}
       THEN /\ seen' = [seen EXCEPT ![c] = {}]
            /\ Goto(c, "write")
            /\ UNCHANGED <<table, audit, rowLock, raced, call, old, answer>>
       ELSE Refuse(c, "conflict")

\* Somebody else has inserted one of the keys and has not ended.
KeyInDoubt(c) ==
  \E d \in Calls \ {c} :
    /\ pc[d] = "commit" /\ call[d].op = "Insert"
    /\ call[d].item = call[c].item \/ call[d].code = call[c].code

\* Mutant: hierarchy_code is not unique.
KeyTaken_Id(c) == call[c].item \in Present

KeyTaken(c) ==
  \/ call[c].item \in Present
  \/ \E i \in Present : table[i].code = call[c].code

\* The INSERT and RecordEvalItemCreated.
InsertEvalItem(c) ==
  /\ pc[c] = "write" /\ call[c].op = "Insert"
  /\ ~KeyInDoubt(c)
  /\ IF KeyTaken(c)
       THEN Refuse(c, "error")
       ELSE /\ Goto(c, "commit")
            /\ UNCHANGED <<table, audit, rowLock, raced, call, old, seen, answer>>

\* Mutant: parent_id has no foreign key.
ParentRefers_Nowhere(b) == TRUE

\* The foreign key: UpdateEvalItem does not look for the new parent.
ParentRefers(b) == b.set = "parent" => b.parent \in Present

\* The UPDATE and RecordEvalItemUpdated.
UpdateEvalItem(c) ==
  /\ pc[c] = "write" /\ call[c].op = "Update"
  /\ rowLock[call[c].item] = NoItem
  /\ IF ParentRefers(call[c])
       THEN /\ rowLock' = [rowLock EXCEPT ![call[c].item] = c]
            /\ Goto(c, "commit")
            /\ UNCHANGED <<table, audit, raced, call, old, seen, answer>>
       ELSE Refuse(c, "error")

\* Mutant: the parent is written as the body has it.
RowAfter_Raw(c) ==
  LET b == call[c] IN
  IF b.op = "Insert"
  THEN [parent |-> b.parent, code |-> b.code, level |-> c, rest |-> c]
  ELSE [table[b.item] EXCEPT !.parent = b.parent,
                             !.level = IF b.set = "level" THEN c ELSE @,
                             !.rest = IF b.set = "rest" THEN c ELSE @]

\* The row a call leaves behind.
RowAfter(c) ==
  LET b == call[c] IN
  IF b.op = "Insert"
  THEN [parent |-> b.parent, code |-> b.code, level |-> c, rest |-> c]
  ELSE [table[b.item] EXCEPT !.parent = IF ParentAsked(b) = Keep THEN @ ELSE b.parent,
                             !.level = IF b.set = "level" THEN c ELSE @,
                             !.rest = IF b.set = "rest" THEN c ELSE @]

\* The audit row; an update records the code and the parent it read at first.
EventOf(c) ==
  LET b == call[c] IN
  IF b.op = "Insert"
  THEN [action |-> "EVAL_ITEM_CREATED", code |-> b.code, parent |-> b.parent, by |-> c]
  ELSE [action |-> "EVAL_ITEM_UPDATED", code |-> old[c].code, parent |-> old[c].parent, by |-> c]

\* The transaction commits; the acknowledgement may be lost.  A body without
\* columns changes no row and is audited all the same.
Commit(c) ==
  /\ pc[c] = "commit"
  /\ table' = [table EXCEPT ![call[c].item] = RowAfter(c)]
  /\ audit' = audit \cup {EventOf(c)}
  /\ raced' = IF call[c].op = "Update" /\ ParentAsked(call[c]) # Keep
              THEN IF ChildrenOf(call[c].item) \subseteq seen[c]
                   THEN raced \ {call[c].item} ELSE raced \cup {call[c].item}
              ELSE raced
  /\ Return(c, "ok") \/ Return(c, "error")

\* A statement fails, the client leaves or the process dies.
Abort(c) == pc[c] \notin {"idle", "done"} /\ Refuse(c, "error")

Next ==
  \E c \in Calls :
    \/ Arrive(c) \/ FindParent(c) \/ FindItem(c) \/ HierarchyMutationGuard(c)
    \/ InsertEvalItem(c) \/ UpdateEvalItem(c) \/ Commit(c) \/ Abort(c)

Spec == Init /\ [][Next]_vars

-----------------------------------------------------------------------------
(* Properties.                                                             *)

TypeOK ==
  /\ table \in [Items -> Row \cup {NoItem}]
  /\ audit \subseteq Event
  /\ rowLock \in [Items -> Calls \cup {NoItem}]
  /\ raced \subseteq Items
  /\ pc \in [Calls -> Step]
  /\ call \in [Calls -> Call \cup {NoItem}]
  /\ old \in [Calls -> Row \cup {NoItem}]
  /\ seen \in [Calls -> SUBSET Items]
  /\ answer \in [Calls -> Answer]

\* No orphans: whatever is inserted and moved at the same time, a parent is
\* always a row.
ParentsExist == \A i \in Present : table[i].parent \in Present \cup {NoItem}

\* A set of items none of which leads to a root.
Rootless(S) == \A i \in S : i \in Present /\ table[i].parent \in S

\* The guard keeps the tree a tree but for two cases: an item that is made its
\* own parent, and an item that gets a child between the guard's count and the
\* commit of its move.  Every cycle has one of the two in it.
CyclesNeedARace ==
  \A S \in (SUBSET Items) \ {{}} :
    Rootless(S) => \E i \in S : table[i].parent = i \/ i \in raced

\* The audit rows of an item are found under its code, which no other item has:
\* each item but the seeded has one EVAL_ITEM_CREATED row there.
CreatedOnce ==
  \A i \in Present :
    /\ \A k \in Present : table[k].code = table[i].code => k = i
    /\ i \in Seeded \/ \E e \in audit : \A f \in audit :
         f.action = "EVAL_ITEM_CREATED" /\ f.code = table[i].code <=> f = e

\* Who was told of success, and nobody who was refused, has an audit row, and
\* every value of a row is by a call that has one under the row's code.
AuditAccounts ==
  /\ \A c \in Calls : /\ answer[c] = "ok" => \E e \in audit : e.by = c
                      /\ answer[c] \in {"notfound", "conflict"} => \A e \in audit : e.by # c
  /\ \A i \in Present : \A c \in {table[i].level, table[i].rest} \ {NoItem} :
       \E e \in audit : e.by = c /\ e.code = table[i].code

\* The updates for which the guard has found no child.
Unblocked ==
  {c \in Calls : /\ pc[c] \in {"write", "commit"}
                 /\ call[c].op = "Update" /\ AsksHierarchy(call[c])}

\* Calls act on the table one at a time: the parents and the keys they have looked up
\* without a lock are there, and free, when they take effect, and every refusal is true
\* when it is given, as ItemTree says.
Tree == INSTANCE ItemTree
  WITH Items <- Items, Seeded <- Seeded, Codes <- Codes, Calls <- Calls, NoItem <- NoItem,
       Keep <- Keep, table <- table, log <- audit, asked <- call, seen <- old,
       free <- Unblocked, answer <- answer

ImplementsTree == Tree!Spec
=============================================================================
