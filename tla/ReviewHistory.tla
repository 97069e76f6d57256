--------------------------- MODULE ReviewHistory ---------------------------
(***************************************************************************)
(* What the review tables promise, with each call one atomic step.  A      *)
(* request is what has been done to it, as the log of events tells; a call *)
(* is answered by what the log says of its request at one moment between   *)
(* its arrival and its answer.  The module Review, where a call is several *)
(* statements in one or two transactions, which interleave with those of   *)
(* other calls and fail, is shown to implement this specification.         *)
(***************************************************************************)
CONSTANTS Calls,      \* the calls; each is made once
          Submitted,  \* requests that are submitted at the start
          Nobody

VARIABLES log,    \* \subseteq Event
          asked,  \* [Calls -> Question \cup {NoQuestion}]: the calls that were made
          answer  \* [Calls -> STRING]

vars == <<log, asked, answer>>

Rows == Calls \cup Submitted

Operation == {"Submit", "Assign", "Approve", "Reject"}

Event == [action : Operation, row : Rows, by : Rows]

Question == [op : Operation, row : Rows]

NoQuestion == [op |-> "none", row |-> Nobody]

Init ==
  /\ log = {[action |-> "Submit", row |-> i, by |-> i] : i \in Submitted}
  /\ asked = [r \in Calls |-> NoQuestion]
  /\ answer = [r \in Calls |-> "none"]

\* What has been done to a request.
Done(i) == {e.action : e \in {d \in log : d.row = i}}

\* What must have been done to it, and nothing else, before an operation.
Before(op) == CASE op = "Submit"               -> {}
                [] op = "Assign"               -> {"Submit"}
                [] op \in {"Approve", "Reject"} -> {"Submit", "Assign"}

Reason(op, done) == IF done = {} THEN "notfound"
                    ELSE IF op = "Assign" THEN "notsubmitted" ELSE "notunderreview"

\* A call is made; a submission is about a request of its own.
Ask(r) ==
  /\ asked[r] = NoQuestion
  /\ \E q \in Question : /\ q.op = "Submit" <=> q.row = r
                         /\ asked' = [asked EXCEPT ![r] = q]
  /\ UNCHANGED <<log, answer>>

Open(r) == asked[r] # NoQuestion /\ answer[r] = "none"

Answer(r, a) == answer' = [answer EXCEPT ![r] = a] /\ UNCHANGED asked

\* The call does what it asks for; its caller may not hear of it.
Perform(r) ==
  LET q == asked[r] IN
  /\ Done(q.row) = Before(q.op)
  /\ log' = log \cup {[action |-> q.op, row |-> q.row, by |-> r]}
  /\ Answer(r, "ok") \/ Answer(r, "error")

\* It is turned down, for a reason that is true; a submission because its score does
\* not exist.
Refuse(r) ==
  LET q == asked[r] IN
  /\ \/ q.op = "Submit" /\ Answer(r, "notfound")
     \/ Done(q.row) # Before(q.op) /\ Answer(r, Reason(q.op, Done(q.row)))
  /\ UNCHANGED log

Fail(r) == Answer(r, "error") /\ UNCHANGED log

Next == \E r \in Calls : Ask(r) \/ (Open(r) /\ (Perform(r) \/ Refuse(r) \/ Fail(r)))

Spec == Init /\ [][Next]_vars
=============================================================================
