------------------------------- MODULE Score -------------------------------
(***************************************************************************)
(* Scores (internal/store/score.go) and the handlers that create, update   *)
(* and correct them (cmd/server/score_handlers.go).                        *)
(*                                                                         *)
(* UpdateScore and SupersedeAndReplaceScore first read the row without a   *)
(* lock and check its status, then update it in a second statement of the  *)
(* same READ COMMITTED transaction.  That statement waits for the row's    *)
(* lock and works on the version committed meanwhile: PostgreSQL evaluates *)
(* its WHERE clause again, which names the status only when superseding.   *)
(*                                                                         *)
(* Abstraction: a row is named by the call that inserted it, the content   *)
(* of its score fields (score_value, weight, grade) and of its metadata by *)
(* the call that wrote them last.  The validation of bodies and ids, which *)
(* answers 400 before a transaction begins, is left out.                   *)
(***************************************************************************)
EXTENDS FiniteSets

CONSTANTS Requests,     \* the calls; each is made once
          Drafts,       \* rows that are DRAFT at the start
          Confirmed,    \* rows that are CONFIRMED at the start
          StatusOps,    \* the statuses callers pass to UpdateScore
          NoReq         \* nobody

RowStatus == {"DRAFT", "CONFIRMED", "SUPERSEDED"}

Absent == "ABSENT"      \* no committed row with this id

Rows == Requests \cup Drafts \cup Confirmed

\* The handler of PUT passes no status at all; other callers of the store may.
ASSUME StatusOpsAssumption == StatusOps \subseteq RowStatus

ASSUME DistinctRows == /\ Drafts \cap Confirmed = {}
                       /\ Requests \cap (Drafts \cup Confirmed) = {}
                       /\ NoReq \notin Rows

\* An operation; the row it is about; for an update, whether it carries score
\* fields, metadata and which status ("none": no status).
Call == [op : {"Create", "Update", "Supersede"}, row : Rows,
         fields : BOOLEAN, meta : BOOLEAN, status : StatusOps \cup {"none"}]

NoCall == [op |-> "none", row |-> NoReq, fields |-> FALSE, meta |-> FALSE,
           status |-> "none"]

Row == [status : RowStatus \cup {Absent}, value : Rows \cup {NoReq},
        meta : Rows \cup {NoReq}]

NoRow == [status |-> Absent, value |-> NoReq, meta |-> NoReq]

AuditRow == [action : {"SCORE_CREATED", "SCORE_UPDATED"}, row : Rows, by : Rows]

VARIABLES
  scores,   \* [Rows -> Row]: the committed table
  audit,    \* the committed audit rows, with the call that wrote them
  rowLock,  \* [Rows -> Requests \cup {NoReq}]
  call,     \* [Requests -> Call \cup {NoCall}]
  pc,       \* [Requests -> Step]
  answer    \* [Requests -> Answer]

vars == <<scores, audit, rowLock, call, pc, answer>>

Step == {"idle", "read", "update", "commit", "done"}

Answer == {"none", "ok", "notfound", "immutable", "badstatus", "notconfirmed", "error"}

Inserted(i, status) == [status |-> status, value |-> i, meta |-> i]

Created(i) == [action |-> "SCORE_CREATED", row |-> i, by |-> i]

Updated(i, r) == [action |-> "SCORE_UPDATED", row |-> i, by |-> r]

Init ==
  /\ scores = [i \in Rows |-> CASE i \in Drafts    -> Inserted(i, "DRAFT")
                                [] i \in Confirmed -> Inserted(i, "CONFIRMED")
                                [] OTHER           -> NoRow]
  /\ audit = {Created(i) : i \in Drafts \cup Confirmed}
  /\ rowLock = [i \in Rows |-> NoReq]
  /\ call = [r \in Requests |-> NoCall]
  /\ pc = [r \in Requests |-> "idle"]
  /\ answer = [r \in Requests |-> "none"]

-----------------------------------------------------------------------------
\* The deferred Rollback and the end of a transaction give the lock back.
Finish(r, ans) ==
  /\ pc' = [pc EXCEPT ![r] = "done"]
  /\ answer' = [answer EXCEPT ![r] = ans]
  /\ rowLock' = [i \in Rows |-> IF rowLock[i] = r THEN NoReq ELSE rowLock[i]]
  /\ UNCHANGED call

Return(r, ans) == Finish(r, ans) /\ UNCHANGED <<scores, audit>>

\* A creation is about its own new row; only an update has columns to set.
WellFormed(c, r) ==
  /\ c.op = "Create" <=> c.row = r
  /\ c.op # "Update" => ~c.fields /\ ~c.meta /\ c.status = "none"

\* A request arrives: a creation has nothing to read.
Arrive(r) ==
  /\ pc[r] = "idle"
  /\ \E c \in Call :
       /\ WellFormed(c, r)
       /\ call' = [call EXCEPT ![r] = c]
       /\ pc' = [pc EXCEPT ![r] = IF c.op = "Create" THEN "commit" ELSE "read"]
  /\ UNCHANGED <<scores, audit, rowLock, answer>>

ValidTransition(from, to) ==
  \/ from = "DRAFT" /\ to \in {"CONFIRMED", "SUPERSEDED"}
  \/ from = "CONFIRMED" /\ to = "SUPERSEDED"

\* Why an update or a correction of a row in status s is turned down, in the
\* order of the checks; "none" if it is not.
Refusal(r, s) ==
  LET c == call[r] IN
  CASE s = Absent                                                -> "notfound"
    [] c.op = "Supersede" /\ s \notin {"CONFIRMED", Absent}      -> "notconfirmed"
    [] c.op = "Update" /\ s = "CONFIRMED" /\ c.fields            -> "immutable"
    [] /\ c.op = "Update" /\ s # Absent
       /\ ~(s = "CONFIRMED" /\ c.fields)
       /\ c.status # "none" /\ ~ValidTransition(s, c.status)     -> "badstatus"
    [] OTHER                                                     -> "none"

\* An update without a column to set changes nothing and is not audited.
IsNoop(c) == c.op = "Update" /\ ~c.fields /\ ~c.meta /\ c.status = "none"

\* GetScoreByID, a plain SELECT of the latest committed version, and the checks.
Read(r) ==
  /\ pc[r] = "read"
  /\ LET s == scores[call[r].row].status IN
     \/ Refusal(r, s) # "none" /\ Return(r, Refusal(r, s))
     \/ Refusal(r, s) = "none" /\ IsNoop(call[r]) /\ Return(r, "ok")
     \/ /\ Refusal(r, s) = "none" /\ ~IsNoop(call[r])
        /\ pc' = [pc EXCEPT ![r] = "update"]
        /\ UNCHANGED <<scores, audit, rowLock, call, answer>>

\* Mutant: the correction's UPDATE names the id only.
Matches_AnyStatus(r) == TRUE

\* Whether the WHERE clause of the UPDATE holds of the version found once the
\* row's lock is granted.
Matches(r) == call[r].op = "Supersede" => scores[call[r].row].status = "CONFIRMED"

\* The UPDATE takes the row's lock; no row matched means the correction lost a
\* race (rows are never deleted, so an update always finds its row).
Update(r) ==
  LET i == call[r].row IN
  /\ pc[r] = "update"
  /\ rowLock[i] = NoReq
  /\ \/ /\ Matches(r)
        /\ rowLock' = [rowLock EXCEPT ![i] = r]
        /\ pc' = [pc EXCEPT ![r] = "commit"]
        /\ UNCHANGED <<scores, audit, call, answer>>
     \/ ~Matches(r) /\ Return(r, "notconfirmed")

\* Mutant: every column is set, the status the caller left out with it.
Rewritten_AllColumns(row, c, r) == [status |-> c.status, value |-> r, meta |-> r]

\* The columns an update sets, over the version it locked.
Rewritten(row, c, r) ==
  [status |-> IF c.status = "none" THEN row.status ELSE c.status,
   value  |-> IF c.fields THEN r ELSE row.value,
   meta   |-> IF c.meta THEN r ELSE row.meta]

\* Mutant: the row that is superseded is not audited.
Publish_AuditsNewRowOnly(r) ==
  LET c == call[r] IN
  /\ scores' = [scores EXCEPT
       ![c.row] = CASE c.op = "Create"    -> Inserted(r, "DRAFT")
                    [] c.op = "Update"    -> Rewritten(@, c, r)
                    [] c.op = "Supersede" -> [@ EXCEPT !.status = "SUPERSEDED"],
       ![r] = IF c.op = "Supersede" THEN Inserted(r, "CONFIRMED") ELSE @]
  /\ audit' = audit \cup {IF c.op = "Update" THEN Updated(c.row, r) ELSE Created(r)}

\* What the transaction makes visible: the inserted and updated rows and an
\* audit row for each.
Publish(r) ==
  LET c == call[r] IN
  \/ /\ c.op = "Create"
     /\ scores' = [scores EXCEPT ![r] = Inserted(r, "DRAFT")]
     /\ audit' = audit \cup {Created(r)}
  \/ /\ c.op = "Update"
     /\ scores' = [scores EXCEPT ![c.row] = Rewritten(@, c, r)]
     /\ audit' = audit \cup {Updated(c.row, r)}
  \/ /\ c.op = "Supersede"
     /\ scores' = [scores EXCEPT ![c.row].status = "SUPERSEDED",
                                 ![r] = Inserted(r, "CONFIRMED")]
     /\ audit' = audit \cup {Created(r), Updated(c.row, r)}

\* A commit may take effect without its acknowledgement.
Commit(r) ==
  /\ pc[r] = "commit"
  /\ Publish(r)
  /\ Finish(r, "ok") \/ Finish(r, "error")

\* A statement fails, the client or the process goes away: rollback.
Abort(r) == pc[r] \in {"read", "update", "commit"} /\ Return(r, "error")

Next == \E r \in Requests : Arrive(r) \/ Read(r) \/ Update(r) \/ Commit(r) \/ Abort(r)

Spec == Init /\ [][Next]_vars

-----------------------------------------------------------------------------
(* Properties.                                                             *)

TypeOK ==
  /\ scores \in [Rows -> Row]
  /\ audit \subseteq AuditRow
  /\ rowLock \in [Rows -> Requests \cup {NoReq}]
  /\ call \in [Requests -> Call \cup {NoCall}]
  /\ pc \in [Requests -> Step]
  /\ answer \in [Requests -> Answer]

Present(i) == scores[i].status # Absent

\* The rows that took the place of row i.
Replacements(i) ==
  {q \in Requests : call[q].op = "Supersede" /\ call[q].row = i /\ Present(q)}

\* A score is corrected at most once, and a row still in force has not been
\* replaced, whichever corrections race for it.
ReplacedOnce ==
  \A i \in Rows :
    /\ \A q, p \in Replacements(i) : q = p
    /\ scores[i].status # "SUPERSEDED" => Replacements(i) = {}

\* The status a row was inserted with.
Born(i) == IF i \in Drafts \/ (i \in Requests /\ call[i].op = "Create")
           THEN "DRAFT" ELSE "CONFIRMED"

\* Nothing a committed row holds is unaccounted for: it has one SCORE_CREATED
\* row, each value it took from a later call has that call's SCORE_UPDATED row,
\* so has its replacement, and no audit row is about a row that does not exist.
AuditComplete ==
  /\ \A a \in audit : Present(a.row)
  /\ \A i \in Rows : Present(i) =>
       /\ {a \in audit : a.row = i /\ a.action = "SCORE_CREATED"} = {Created(i)}
       /\ scores[i].value # i => Updated(i, scores[i].value) \in audit
       /\ scores[i].meta # i => Updated(i, scores[i].meta) \in audit
       /\ \A q \in Replacements(i) : Updated(i, q) \in audit
       /\ scores[i].status # Born(i) => \E q \in Requests : Updated(i, q) \in audit

\* A correction is one step: the new CONFIRMED row appears exactly when the row
\* it corrects leaves CONFIRMED for SUPERSEDED, and that row keeps its content.
CorrectionIsAtomic ==
  [][\A q \in Requests :
       call[q].op = "Supersede" /\ ~Present(q) /\ Present(q)' =>
         LET i == call[q].row IN
         /\ scores'[q].status = "CONFIRMED"
         /\ scores[i].status = "CONFIRMED"
         /\ scores'[i] = [scores[i] EXCEPT !.status = "SUPERSEDED"]]_vars

\* The score fields of a CONFIRMED row never change (score.go:4, D4).  So the code says;
\* a row confirmed between the read and the UPDATE of another call does change.
ConfirmedImmutable ==
  [][\A i \in Rows :
       scores[i].status = "CONFIRMED" => scores'[i].value = scores[i].value]_vars

\* The calls that have passed the check of row i and are going to set its score fields.
Overwriters(i) ==
  {r \in Requests : /\ pc[r] \in {"update", "commit"}
                    /\ call[r].op = "Update" /\ call[r].row = i /\ call[r].fields}

\* The calls on record as having confirmed row i.
Confirmers(i) ==
  {q \in Requests : /\ call[q].op = "Update" /\ call[q].row = i
                    /\ call[q].status = "CONFIRMED" /\ Updated(i, q) \in audit}

\* What is left of that whatever callers pass: nobody sets out to overwrite a row that
\* is CONFIRMED, and a value is overwritten only in a row that began as a DRAFT and that
\* some other call, on record, confirmed while its overwriter was under way.  Rows that
\* were inserted CONFIRMED, corrections among them, keep their value while in force.
OverwritesNeedARace ==
  [][\A i \in Rows : scores[i].status = "CONFIRMED" =>
       /\ scores'[i].status = "CONFIRMED" => Overwriters(i)' \subseteq Overwriters(i)
       /\ scores'[i].value # scores[i].value =>
            /\ Born(i) = "DRAFT"
            /\ scores'[i].value \in Overwriters(i)
            /\ \E q \in Confirmers(i) : q # scores'[i].value]_vars

\* Calls act on the table one at a time: the status a change was checked against, in a
\* read without a lock, stands for the one it overwrites, as ScoreLedger says.
Ledger == INSTANCE ScoreLedger
  WITH Requests <- Requests, Drafts <- Drafts, Confirmed <- Confirmed,
       StatusOps <- StatusOps, NoReq <- NoReq,
       scores <- scores, log <- audit, asked <- call, answer <- answer

ImplementsLedger == Ledger!Spec
=============================================================================
