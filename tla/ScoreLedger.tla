---------------------------- MODULE ScoreLedger ----------------------------
(***************************************************************************)
(* What the scores promise, with each call one atomic step on the table    *)
(* and its audit: a revision or a correction is judged by the row it       *)
(* changes, in the step that changes it, and a refusal is true when it is  *)
(* given.  The module Score, where a call reads the row without a lock,    *)
(* changes it in a second statement and commits both later, is shown to    *)
(* implement this specification as long as nobody passes the status        *)
(* CONFIRMED.  The unlocked read leaves one trace: a row may be withdrawn  *)
(* that is withdrawn already.                                              *)
(***************************************************************************)
CONSTANTS Requests,   \* the calls; each is made once
          Drafts,     \* rows that are drafts at the start
          Confirmed,  \* rows that are in force at the start
          StatusOps,  \* the statuses a revision may carry
          NoReq

VARIABLES scores,  \* [Rows -> [status, value, meta]]
          log,     \* \subseteq Event: who did what to which row
          asked,   \* [Requests -> Question \cup {NoQuestion}]: the calls that were made
          answer   \* [Requests -> STRING]

vars == <<scores, log, asked, answer>>

Rows == Requests \cup Drafts \cup Confirmed

Question == [op : {"Create", "Update", "Supersede"}, row : Rows,
             fields : BOOLEAN, meta : BOOLEAN, status : StatusOps \cup {"none"}]

NoQuestion == [op |-> "none", row |-> NoReq, fields |-> FALSE, meta |-> FALSE, status |-> "none"]

Entry(i, status) == [status |-> status, value |-> i, meta |-> i]

Blank == [status |-> "ABSENT", value |-> NoReq, meta |-> NoReq]

Event(action, i, r) == [action |-> action, row |-> i, by |-> r]

Init ==
  /\ scores = [i \in Rows |-> IF i \in Drafts THEN Entry(i, "DRAFT")
                              ELSE IF i \in Confirmed THEN Entry(i, "CONFIRMED") ELSE Blank]
  /\ log = {Event("SCORE_CREATED", i, i) : i \in Drafts \cup Confirmed}
  /\ asked = [r \in Requests |-> NoQuestion]
  /\ answer = [r \in Requests |-> "none"]

\* A call is made: a creation for its own new row, and only a revision has columns.
Ask(r) ==
  /\ asked[r] = NoQuestion
  /\ \E q \in Question :
       /\ q.op = "Create" <=> q.row = r
       /\ q.op # "Update" => ~q.fields /\ ~q.meta /\ q.status = "none"
       /\ asked' = [asked EXCEPT ![r] = q]
  /\ UNCHANGED <<scores, log, answer>>

Status(r) == scores[asked[r].row].status

Open(r) == asked[r] # NoQuestion /\ answer[r] = "none"

Answer(r, a) == answer' = [answer EXCEPT ![r] = a] /\ UNCHANGED asked

\* The caller of a change that takes effect may not hear of it.
Effect(r) == Answer(r, "ok") \/ Answer(r, "error")

Create(r) ==
  /\ asked[r].op = "Create" /\ Status(r) = "ABSENT"
  /\ scores' = [scores EXCEPT ![r] = Entry(r, "DRAFT")]
  /\ log' = log \cup {Event("SCORE_CREATED", r, r)}
  /\ Effect(r)

\* A draft is confirmed or withdrawn, a row in force is withdrawn; either again.
MayBecome(s, t) == t = "SUPERSEDED" \/ (s = "DRAFT" /\ t = "CONFIRMED")

\* The score fields of a row in force are not touched.
Revise(r) ==
  LET q == asked[r] IN
  /\ q.op = "Update" /\ Status(r) # "ABSENT"
  /\ q.fields => Status(r) # "CONFIRMED"
  /\ q.status # "none" => MayBecome(Status(r), q.status)
  /\ scores' = [scores EXCEPT ![q.row] =
                  [status |-> IF q.status # "none" THEN q.status ELSE @.status,
                   value  |-> IF q.fields THEN r ELSE @.value,
                   meta   |-> IF q.meta THEN r ELSE @.meta]]
  /\ log' = log \cup {Event("SCORE_UPDATED", q.row, r)}
  /\ Effect(r)

\* A row in force is replaced by a new one.
Correct(r) ==
  LET i == asked[r].row IN
  /\ asked[r].op = "Supersede" /\ Status(r) = "CONFIRMED" /\ scores[r].status = "ABSENT"
  /\ scores' = [scores EXCEPT ![i].status = "SUPERSEDED", ![r] = Entry(r, "CONFIRMED")]
  /\ log' = log \cup {Event("SCORE_CREATED", r, r), Event("SCORE_UPDATED", i, r)}
  /\ Effect(r)

\* Why a call may be turned down: each reason is true when it is given.
Refusals(r) ==
  LET q == asked[r] IN
  {a \in {"notfound", "notconfirmed", "immutable", "badstatus"} :
     \/ a = "notfound" /\ q.op # "Create" /\ Status(r) = "ABSENT"
     \/ a = "notconfirmed" /\ q.op = "Supersede" /\ Status(r) # "CONFIRMED"
     \/ a = "immutable" /\ q.op = "Update" /\ q.fields /\ Status(r) = "CONFIRMED"
     \/ /\ a = "badstatus" /\ q.op = "Update" /\ q.status # "none"
        /\ Status(r) = q.status \/ ~MayBecome(Status(r), q.status)}

\* A call that has nothing to do.
Idle(r) == /\ asked[r].op = "Update" /\ Status(r) # "ABSENT"
           /\ ~asked[r].fields /\ ~asked[r].meta /\ asked[r].status = "none"

\* The call is turned down, has nothing to do, or fails.
Decline(r) ==
  /\ \/ \E a \in Refusals(r) \cup {"error"} : Answer(r, a)
     \/ Idle(r) /\ Answer(r, "ok")
  /\ UNCHANGED <<scores, log>>

Next == \E r \in Requests :
          Ask(r) \/ (Open(r) /\ (Create(r) \/ Revise(r) \/ Correct(r) \/ Decline(r)))

Spec == Init /\ [][Next]_vars
=============================================================================
