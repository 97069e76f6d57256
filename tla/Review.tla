------------------------------- MODULE Review -------------------------------
(***************************************************************************)
(* Review requests: internal/store/score_review_request.go and the         *)
(* handlers of cmd/server/review_handlers.go that submit, assign, approve  *)
(* and reject them.                                                        *)
(*                                                                         *)
(* A submission reads the score in a transaction of its own and inserts    *)
(* the request in a second one.  The other calls lock the request's row    *)
(* with SELECT ... FOR UPDATE, check its status, update it, read it back   *)
(* for the answer and commit.                                              *)
(*                                                                         *)
(* Abstraction: a request is named by the call that submitted it; a user,  *)
(* a reviewer, a reason and a comment by the call that brought it.  The    *)
(* guards and the parsing of ids and bodies, which answer 403 and 400      *)
(* before a transaction begins, are left out, and so is the metadata.      *)
(***************************************************************************)
EXTENDS FiniteSets

CONSTANTS Calls,        \* the calls; each is made once
          Submitted,    \* requests that are SUBMITTED at the start
          Nobody

ASSUME DistinctNames == Calls \cap Submitted = {} /\ Nobody \notin Calls \cup Submitted

Rows == Calls \cup Submitted

VARIABLES
  reviews,  \* [Rows -> Row]: the committed table
  audit,    \* the committed audit rows
  rowLock,  \* [Rows -> Calls \cup {Nobody}]
  call,     \* [Calls -> Call \cup {NoCall}]
  pc,       \* [Calls -> Step]
  shown,    \* [Calls -> Row]: the row read back for the answer
  answer    \* [Calls -> Answer]

vars == <<reviews, audit, rowLock, call, pc, shown, answer>>

Status == {"SUBMITTED", "UNDER_REVIEW", "APPROVED", "REJECTED"}

allowedReviewTransitions == {<<"SUBMITTED", "UNDER_REVIEW">>, <<"UNDER_REVIEW", "APPROVED">>,
                             <<"UNDER_REVIEW", "REJECTED">>}

Row == [status   : Status \cup {"ABSENT"},
        reviewer : Calls \cup {Nobody},     \* assigned_reviewer_id
        reason   : Calls \cup {Nobody},     \* rejection_reason
        comment  : Calls \cup {Nobody},
        creator  : Rows \cup {Nobody},      \* created_by
        updater  : Rows \cup {Nobody}]      \* updated_by

NoRow == [status |-> "ABSENT", reviewer |-> Nobody, reason |-> Nobody, comment |-> Nobody,
          creator |-> Nobody, updater |-> Nobody]

Operation == {"Submit", "Assign", "Approve", "Reject"}

Call == [op : Operation, row : Rows, comment : BOOLEAN]

NoCall == [op |-> "none", row |-> Nobody, comment |-> FALSE]

\* SCORE_REVIEW_REQUEST_CREATED, _REVIEWER_ASSIGNED, _APPROVED, _REJECTED.
AuditRow == [action : Operation, row : Rows, by : Rows]

Step == {"idle", "score", "lock", "write", "commit", "done"}

Answer == {"none", "ok", "notfound", "notsubmitted", "notunderreview", "error"}

Inserted(i, comment) == [NoRow EXCEPT !.status = "SUBMITTED", !.comment = comment,
                                      !.creator = i, !.updater = i]

Init ==
  /\ reviews = [i \in Rows |-> IF i \in Submitted THEN Inserted(i, Nobody) ELSE NoRow]
  /\ audit = {[action |-> "Submit", row |-> i, by |-> i] : i \in Submitted}
  /\ rowLock = [i \in Rows |-> Nobody]
  /\ call = [r \in Calls |-> NoCall]
  /\ pc = [r \in Calls |-> "idle"]
  /\ shown = [r \in Calls |-> NoRow]
  /\ answer = [r \in Calls |-> "none"]

-----------------------------------------------------------------------------
\* The end of a transaction gives the row's lock back.
Finish(r, ans) ==
  /\ pc' = [pc EXCEPT ![r] = "done"]
  /\ answer' = [answer EXCEPT ![r] = ans]
  /\ rowLock' = [i \in Rows |-> IF rowLock[i] = r THEN Nobody ELSE rowLock[i]]
  /\ UNCHANGED call

Return(r, ans) == Finish(r, ans) /\ UNCHANGED <<reviews, audit, shown>>

\* A submission is about its own new row; an assignment has no comment.
Arrive(r) ==
  /\ pc[r] = "idle"
  /\ \E c \in Call :
       /\ c.op = "Submit" <=> c.row = r
       /\ c.op = "Assign" => ~c.comment
       /\ call' = [call EXCEPT ![r] = c]
       /\ pc' = [pc EXCEPT ![r] = IF c.op = "Submit" THEN "score" ELSE "lock"]
  /\ UNCHANGED <<reviews, audit, rowLock, shown, answer>>

\* The first transaction of handleCreateReview: the score is there or not.
FindScore(r) ==
  /\ pc[r] = "score"
  /\ \/ Return(r, "notfound")
     \/ /\ pc' = [pc EXCEPT ![r] = "write"]
        /\ UNCHANGED <<reviews, audit, rowLock, call, shown, answer>>

\* The status a call leads to.
Target(op) == CASE op = "Submit"  -> "SUBMITTED"
                [] op = "Assign"  -> "UNDER_REVIEW"
                [] op = "Approve" -> "APPROVED"
                [] op = "Reject"  -> "REJECTED"

\* Mutant: whatever is not decided yet may be decided.
Refusal_NotDecided(op, s) ==
  CASE s = "ABSENT"                        -> "notfound"
    [] s \in {"APPROVED", "REJECTED"}      -> "notunderreview"
    [] OTHER                               -> "none"

\* Why a call on a request in status s is turned down; "none" if it is not.
Refusal(op, s) ==
  CASE s = "ABSENT"                                      -> "notfound"
    [] <<s, Target(op)>> \in allowedReviewTransitions   -> "none"
    [] OTHER                                             ->
         IF op = "Assign" THEN "notsubmitted" ELSE "notunderreview"

\* Mutant: the status is read without FOR UPDATE.
Lock_Unlocked(r) ==
  /\ pc[r] = "lock"
  /\ LET i == call[r].row
         refusal == Refusal(call[r].op, reviews[i].status) IN
     \/ refusal # "none" /\ Return(r, refusal)
     \/ /\ refusal = "none"
        /\ pc' = [pc EXCEPT ![r] = "write"]
        /\ UNCHANGED <<reviews, audit, rowLock, call, shown, answer>>

\* lockAndCheckStatus and the checks of the status it returns.
Lock(r) ==
  /\ pc[r] = "lock"
  /\ LET i == call[r].row
         refusal == Refusal(call[r].op, reviews[i].status) IN
     /\ rowLock[i] = Nobody
     /\ \/ refusal # "none" /\ Return(r, refusal)
        \/ /\ refusal = "none"
           /\ rowLock' = [rowLock EXCEPT ![i] = r]
           /\ pc' = [pc EXCEPT ![r] = "write"]
           /\ UNCHANGED <<reviews, audit, call, shown, answer>>

\* The columns the three UPDATE statements set.
Updated(row, r) ==
  LET op == call[r].op IN
  [row EXCEPT !.status   = Target(op),
              !.reviewer = IF op = "Assign" THEN r ELSE @,
              !.reason   = IF op = "Reject" THEN r ELSE @,
              !.comment  = IF call[r].comment THEN r ELSE @,
              !.updater  = r]

\* The row after the INSERT or the UPDATE of a call.
Written(row, r) ==
  IF call[r].op = "Submit" THEN Inserted(r, IF call[r].comment THEN r ELSE Nobody)
                           ELSE Updated(row, r)

\* Mutant: the actor is not handed to the recorder.
Recorded_Anonymous(r) == [action |-> call[r].op, row |-> call[r].row, by |-> Nobody]

\* The audit row of a call.
Recorded(r) == [action |-> call[r].op, row |-> call[r].row, by |-> r]

\* The statements of a call, unseen until the commit; the row is read back.
Write(r) ==
  /\ pc[r] = "write"
  /\ shown' = [shown EXCEPT ![r] = Written(reviews[call[r].row], r)]
  /\ pc' = [pc EXCEPT ![r] = "commit"]
  /\ UNCHANGED <<reviews, audit, rowLock, call, answer>>

\* A commit may take effect without its acknowledgement.
Commit(r) ==
  LET i == call[r].row IN
  /\ pc[r] = "commit"
  /\ reviews' = [reviews EXCEPT ![i] = Written(@, r)]
  /\ audit' = audit \cup {Recorded(r)}
  /\ Finish(r, "ok") \/ Finish(r, "error")
  /\ UNCHANGED shown

\* A statement fails, the client or the process goes away: rollback.
Abort(r) == pc[r] \in {"score", "lock", "write", "commit"} /\ Return(r, "error")

Next == \E r \in Calls : \/ Arrive(r) \/ FindScore(r) \/ Lock(r) \/ Write(r)
                         \/ Commit(r) \/ Abort(r)

Spec == Init /\ [][Next]_vars

-----------------------------------------------------------------------------
(* Properties.                                                             *)

TypeOK ==
  /\ reviews \in [Rows -> Row]
  /\ audit \subseteq AuditRow
  /\ rowLock \in [Rows -> Calls \cup {Nobody}]
  /\ call \in [Calls -> Call \cup {NoCall}]
  /\ pc \in [Calls -> Step]
  /\ shown \in [Calls -> Row]
  /\ answer \in [Calls -> Answer]

Decision == {"Approve", "Reject"}

\* A caller who is told that he decided a request did decide it, and no other
\* caller's decision ever replaces his (approvals and rejections that race).
DecidedOnce ==
  \A r \in Calls :
    answer[r] = "ok" /\ call[r].op \in Decision =>
      /\ reviews[call[r].row].status = Target(call[r].op)
      /\ reviews[call[r].row].updater = r

\* What a request's audit rows must be, by its columns: one row for each step it
\* has taken, by the call that took it.
Trail(i) ==
  LET row == reviews[i]
      By(op, u) == [action |-> op, row |-> i, by |-> u] IN
  CASE row.status = "ABSENT"       -> {}
    [] row.status = "SUBMITTED"    -> {By("Submit", row.creator)}
    [] row.status = "UNDER_REVIEW" -> {By("Submit", row.creator), By("Assign", row.reviewer)}
    [] row.status = "APPROVED"     -> {By("Submit", row.creator), By("Assign", row.reviewer),
                                       By("Approve", row.updater)}
    [] row.status = "REJECTED"     -> {By("Submit", row.creator), By("Assign", row.reviewer),
                                       By("Reject", row.updater)}

\* The audit rows of a request tell its columns: who submitted, assigned and
\* decided it, each exactly once.
AuditTellsRow == \A i \in Rows : {a \in audit : a.row = i} = Trail(i)

\* A reason exists for rejections only and is the one the rejecting call brought
\* (the CHECK of migration 0005 demands one direction).
ReasonOfRejection ==
  \A i \in Rows : reviews[i].reason = IF reviews[i].status = "REJECTED" THEN reviews[i].updater
                                                                      ELSE Nobody

\* The row a caller is shown is the row his transaction commits.
AnswerShowsRow ==
  [][\A r \in Calls : pc[r] = "commit" /\ reviews'[call[r].row] # reviews[call[r].row]
                        /\ pc'[r] = "done" =>
       shown[r] = reviews'[call[r].row]]_vars

\* What a call asks for; its comment is not part of the history.
Asked == [r \in Calls |-> [op |-> call[r].op, row |-> call[r].row]]

\* The audit is the history of the requests, and calls act on it one at a time: each
\* takes effect, or is turned down, at one moment between its arrival and its answer
\* (lockAndCheckStatus and the transaction it begins), as ReviewHistory says.
History == INSTANCE ReviewHistory
  WITH Calls <- Calls, Submitted <- Submitted, Nobody <- Nobody,
       log <- audit, asked <- Asked, answer <- answer

ImplementsHistory == History!Spec
=============================================================================
