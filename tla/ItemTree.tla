------------------------------ MODULE ItemTree ------------------------------
(***************************************************************************)
(* What the tree of evaluation items promises, with each call one atomic   *)
(* step on the table and its audit: a parent is there and a key is free in *)
(* the step that relies on it, and a refusal is true when it is given.     *)
(* The module EvalItem, where a call looks things up without a lock, waits *)
(* for keys and rows, writes and commits in steps of their own that        *)
(* interleave with those of other calls and fail, is shown to implement    *)
(* this specification.  Two looks are not repeated, and may be out of date *)
(* when the call takes effect: that an item to be moved has no children,   *)
(* and the row that the audit of an update is written from.                *)
(***************************************************************************)
CONSTANTS Items, Seeded, Codes,
          Calls,   \* the calls; each is made once
          NoItem,  \* the parent of a root, and null in a body
          Keep     \* a field that the body does not have

VARIABLES table,   \* [Items -> Row \cup {NoItem}]
          log,     \* who did what, by code and parent
          asked,   \* [Calls -> Question \cup {NoItem}]: the calls that were made
          seen,    \* [Calls -> Row \cup {NoItem}]: the row an update has looked at
          free,    \* the updates that have found their item without children
          answer   \* [Calls -> STRING]

vars == <<table, log, asked, seen, free, answer>>

Question ==
  [op : {"Insert"}, item : Items, parent : Items \cup {NoItem}, code : Codes]
  \cup {q \in [op : {"Update"}, item : Items, set : {"parent", "level", "rest", "nothing"},
               parent : Items \cup {NoItem, Keep}] : q.parent # Keep <=> q.set = "parent"}

Entry(parent, code, by) == [parent |-> parent, code |-> code, level |-> by, rest |-> by]

Event(action, code, parent, r) == [action |-> action, code |-> code, parent |-> parent, by |-> r]

Init ==
  /\ table = [i \in Items |-> IF i \in Seeded THEN Entry(NoItem, i, NoItem) ELSE NoItem]
  /\ log = {}
  /\ asked = [r \in Calls |-> NoItem]
  /\ seen = [r \in Calls |-> NoItem]
  /\ free = {}
  /\ answer = [r \in Calls |-> "none"]

Present == {i \in Items : table[i] # NoItem}

Leaf(i) == \A k \in Present : table[k].parent # i

-----------------------------------------------------------------------------
Ask(r) ==
  /\ asked[r] = NoItem
  /\ \E q \in Question : asked' = [asked EXCEPT ![r] = q]
  /\ UNCHANGED <<table, log, seen, free, answer>>

Asks(r, op) == asked[r] # NoItem /\ asked[r].op = op /\ answer[r] = "none"

\* An update looks at its item, and whether it has children.
Look(r) ==
  /\ Asks(r, "Update") /\ asked[r].item \in Present
  /\ seen' = [seen EXCEPT ![r] = table[asked[r].item]]
  /\ UNCHANGED <<table, log, asked, free, answer>>

LookBelow(r) ==
  /\ Asks(r, "Update") /\ Leaf(asked[r].item)
  /\ free' = free \cup {r}
  /\ UNCHANGED <<table, log, asked, seen, answer>>

Answer(r, a) ==
  /\ answer' = [answer EXCEPT ![r] = a]
  /\ free' = free \ {r}
  /\ UNCHANGED <<asked, seen>>

\* The caller of a change that takes effect may not hear of it.
Effect(r, event) ==
  /\ log' = log \cup {event}
  /\ Answer(r, "ok") \/ Answer(r, "error")

Insert(r) ==
  LET q == asked[r] IN
  /\ Asks(r, "Insert")
  /\ q.parent \in Present \cup {NoItem}
  /\ q.item \notin Present /\ \A i \in Present : table[i].code # q.code
  /\ table' = [table EXCEPT ![q.item] = Entry(q.parent, q.code, r)]
  /\ Effect(r, Event("EVAL_ITEM_CREATED", q.code, q.parent, r))

\* The body names a parent; null is as good as no field.
Moves(q) == q.parent \notin {NoItem, Keep}

\* Only an item that was seen without children is moved or changes its level.
Update(r) ==
  LET q == asked[r] IN
  /\ Asks(r, "Update") /\ q.item \in Present /\ seen[r] # NoItem
  /\ Moves(q) => q.parent \in Present
  /\ Moves(q) \/ q.set = "level" => r \in free
  /\ table' = [table EXCEPT ![q.item] =
                 [table[q.item] EXCEPT !.parent = IF Moves(q) THEN q.parent ELSE @,
                                       !.level = IF q.set = "level" THEN r ELSE @,
                                       !.rest = IF q.set = "rest" THEN r ELSE @]]
  /\ Effect(r, Event("EVAL_ITEM_UPDATED", table[q.item].code, seen[r].parent, r))

\* Why a call may be turned down: each reason is true when it is given.
Refusals(r) ==
  LET q == asked[r] IN
  {a \in {"notfound", "conflict"} :
     \/ a = "notfound" /\ q.op = "Insert" /\ q.parent \notin Present \cup {NoItem}
     \/ a = "notfound" /\ q.op = "Update" /\ q.item \notin Present
     \/ a = "conflict" /\ q.op = "Update" /\ ~Leaf(q.item) /\ (Moves(q) \/ q.set = "level")}

Decline(r) ==
  /\ Asks(r, "Insert") \/ Asks(r, "Update")
  /\ \E a \in Refusals(r) \cup {"error"} : Answer(r, a)
  /\ UNCHANGED <<table, log>>

Next ==
  \E r \in Calls : Ask(r) \/ Look(r) \/ LookBelow(r) \/ Insert(r) \/ Update(r) \/ Decline(r)

Spec == Init /\ [][Next]_vars
=============================================================================
