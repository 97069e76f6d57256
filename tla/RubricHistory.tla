--------------------------- MODULE RubricHistory ---------------------------
(***************************************************************************)
(* What the rubrics promise, with each call one atomic step on the tables  *)
(* and their audit: a change is judged by the rubric, the bands and the    *)
(* other rubrics as they are in the step that makes it, and a refusal is   *)
(* true when it is given.  The module Rubric, where a call looks things up *)
(* without a lock, locks the row, writes and commits in steps of their own *)
(* that interleave with those of other calls and fail, is shown to         *)
(* implement this specification.  Two traces of the early look-ups remain: *)
(* a clone copies what its source was called when the call looked, and the *)
(* weights are weighed only to refuse, never when a criterion is added.    *)
(***************************************************************************)
EXTENDS Integers, FiniteSetsExt

CONSTANTS Calls,    \* the calls; each is made once
          Drafts,   \* rubrics that are drafts at the start
          Nobody, Names, Scopes, NoScope, Weights, Full, Points

VARIABLES rubrics,   \* [Rows -> Rubric]
          criteria,  \* the criteria of all rubrics, with their makers
          bands,     \* and the bands
          log,       \* who did what to which rubric
          asked,     \* [Calls -> Question \cup {NoQuestion}]: the calls under way
          seen,      \* [Calls -> Rubric]: what a call has looked at
          answer     \* [Calls -> STRING]

vars == <<rubrics, criteria, bands, log, asked, seen, answer>>

Rows == Calls \cup Drafts

Blank ==
  [status |-> "absent", name |-> Nobody, scope |-> NoScope, reason |-> Nobody, creator |-> Nobody]

Draft(i, title) == [Blank EXCEPT !.status = "draft", !.name = title.name, !.scope = title.scope,
                                 !.creator = i]

Title == [name : Names, scope : Scopes \cup {NoScope}]

Edit == [name : Names, scope : Scopes \cup {NoScope}, status : {"", "draft", "active", "archived"}]

Interval == {i \in [min : Points, max : Points] : i.min < i.max}

Question ==
  UNION {[op : {"Create"}, row : Calls, body : Title],
         [op : {"Clone", "Archive"}, row : Rows, body : {""}],
         [op : {"Update"}, row : Rows, body : Edit],
         [op : {"Criterion"}, row : Rows, body : Weights],
         [op : {"Band"}, row : Rows, body : Interval]}

NoQuestion == [op |-> "none", row |-> Nobody, body |-> ""]

Event(action, i, r) == [action |-> action, row |-> i, by |-> r]

Init ==
  /\ \E title \in [Drafts -> Title] :
       rubrics = [i \in Rows |-> IF i \in Drafts THEN Draft(i, title[i]) ELSE Blank]
  /\ criteria = {} /\ bands = {}
  /\ log = {Event("Create", i, i) : i \in Drafts}
  /\ asked = [r \in Calls |-> NoQuestion]
  /\ seen = [r \in Calls |-> Blank]
  /\ answer = [r \in Calls |-> "none"]

-----------------------------------------------------------------------------
\* A call is made: a creation is of the caller's own rubric.
Ask(r) ==
  /\ asked[r] = NoQuestion /\ answer[r] = "none"
  /\ \E q \in Question : /\ q.op = "Create" => q.row = r
                         /\ asked' = [asked EXCEPT ![r] = q]
  /\ UNCHANGED <<rubrics, criteria, bands, log, seen, answer>>

Open(r) == asked[r] # NoQuestion

Asks(r, op) == Open(r) /\ asked[r].op = op

\* The rubric a call is about.
Subject(r) == rubrics[asked[r].row]

Alive(rubric) == rubric.status \in {"draft", "active"}

Look(r) ==
  /\ Open(r)
  /\ seen' = [seen EXCEPT ![r] = Subject(r)]
  /\ UNCHANGED <<rubrics, criteria, bands, log, asked, answer>>

\* A call that is answered is over.
Answer(r, a) ==
  /\ answer' = [answer EXCEPT ![r] = a]
  /\ asked' = [asked EXCEPT ![r] = NoQuestion]
  /\ seen' = [seen EXCEPT ![r] = Blank]

\* A change takes effect and is recorded; its caller may not hear of it.
Effect(r, action, i) ==
  /\ log' = log \cup {Event(action, i, r)}
  /\ Answer(r, "ok") \/ Answer(r, "error")

Bears(r, title) == rubrics' = [rubrics EXCEPT ![r] = Draft(r, title)]

Create(r) ==
  /\ Asks(r, "Create") /\ rubrics[r].status = "absent"
  /\ Bears(r, asked[r].body)
  /\ Effect(r, "Create", r)
  /\ UNCHANGED <<criteria, bands>>

\* Another draft is made of what the call has seen.
Clone(r) ==
  /\ Asks(r, "Clone") /\ Alive(seen[r]) /\ rubrics[r].status = "absent"
  /\ Bears(r, seen[r])
  /\ Effect(r, "Create", r)
  /\ UNCHANGED <<criteria, bands>>

\* Two active rubrics of one name and one scope, which is not left open.
Rivals(a, b) ==
  /\ a.status = "active" /\ b.status = "active"
  /\ a.name = b.name /\ a.scope = b.scope /\ a.scope # NoScope

Edited(rubric, body) ==
  [rubric EXCEPT !.status = IF body.status = "" THEN @ ELSE body.status,
                 !.name = body.name, !.scope = body.scope]

HasRival(r) ==
  \E i \in Rows \ {asked[r].row} : Rivals(rubrics[i], Edited(Subject(r), asked[r].body))

\* A draft may become active; an edit never archives.
Change(r) ==
  LET next == Edited(Subject(r), asked[r].body) IN
  /\ Asks(r, "Update") /\ Alive(Subject(r)) /\ ~HasRival(r)
  /\ next.status = Subject(r).status \/ (Subject(r).status = "draft" /\ next.status = "active")
  /\ rubrics' = [rubrics EXCEPT ![asked[r].row] = next]
  /\ Effect(r, "Update", asked[r].row)
  /\ UNCHANGED <<criteria, bands>>

Archive(r) ==
  /\ Asks(r, "Archive") /\ Subject(r).status = "active"
  /\ rubrics' = [rubrics EXCEPT ![asked[r].row] =
                   [Subject(r) EXCEPT !.status = "archived", !.reason = r]]
  /\ Effect(r, "Archive", asked[r].row)
  /\ UNCHANGED <<criteria, bands>>

AddCriterion(r) ==
  /\ Asks(r, "Criterion") /\ Alive(Subject(r))
  /\ criteria' = criteria \cup {[id |-> r, rubric |-> asked[r].row, weight |-> asked[r].body]}
  /\ Effect(r, "Criterion", asked[r].row)
  /\ UNCHANGED <<rubrics, bands>>

\* Some band of the rubric has a score in common with the one asked for.
Overlaps(r) ==
  \E b \in bands : /\ b.rubric = asked[r].row
                   /\ b.range.min <= asked[r].body.max /\ b.range.max >= asked[r].body.min

AddBand(r) ==
  /\ Asks(r, "Band") /\ Alive(Subject(r)) /\ ~Overlaps(r)
  /\ bands' = bands \cup {[id |-> r, rubric |-> asked[r].row, range |-> asked[r].body]}
  /\ Effect(r, "Band", asked[r].row)
  /\ UNCHANGED <<rubrics, criteria>>

\* A rubric of that scope, or any without one, is active.
ScopeTaken(scope) ==
  \E i \in Rows : rubrics[i].status = "active" /\ (scope = NoScope \/ rubrics[i].scope = scope)

Load(i) == MapThenSumSet(LAMBDA c : c.weight, {c \in criteria : c.rubric = i})

\* Why a call may be turned down: each reason is true when it is given.
Refusals(r) ==
  LET q == asked[r]
      s == Subject(r).status IN
  {a \in {"notfound", "archived", "badstatus", "duplicate", "overweight", "overlap"} :
     \/ a = "notfound" /\ q.op # "Create" /\ (s = "absent" \/ q.op = "Criterion")
     \/ a = "archived" /\ q.op \notin {"Create", "Archive"} /\ s = "archived"
     \/ a = "badstatus" /\ q.op = "Archive" /\ s # "active"
     \/ /\ a = "badstatus" /\ q.op = "Update" /\ q.body.status \notin {"", s}
        /\ s # "draft" \/ q.body.status # "active"
     \/ /\ a = "duplicate" /\ q.op = "Update"
        /\ HasRival(r) \/ (q.body.status = "active" /\ ScopeTaken(q.body.scope))
     \/ a = "overweight" /\ q.op = "Criterion" /\ Load(q.row) + q.body > Full
     \/ a = "overlap" /\ q.op = "Band" /\ Overlaps(r)}

\* The call is turned down, or fails.
Decline(r) ==
  /\ Open(r)
  /\ \E a \in Refusals(r) \cup {"error"} : Answer(r, a)
  /\ UNCHANGED <<rubrics, criteria, bands, log>>

Next == \E r \in Calls : \/ Ask(r) \/ Look(r) \/ Create(r) \/ Clone(r) \/ Change(r) \/ Archive(r)
                         \/ AddCriterion(r) \/ AddBand(r) \/ Decline(r)

Spec == Init /\ [][Next]_vars
=============================================================================
