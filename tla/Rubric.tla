------------------------------- MODULE Rubric -------------------------------
(***************************************************************************)
(* Rubrics: internal/store/rubric.go, cmd/server/rubric_handlers.go and    *)
(* the constraints of migration 0006.                                      *)
(*                                                                         *)
(* A rubric is draft, active or archived and has criteria with weights and *)
(* bands of scores.  Every handler but the one that creates a rubric first *)
(* looks something up without a lock (whether another rubric is active,    *)
(* the sum of the weights, the bands) and then, but for a clone, locks the *)
(* rubric's row, checks its status and writes.  Behind these checks stand  *)
(* a unique index on (name, scope) of active rubrics, an exclusion of      *)
(* overlapping bands and a CHECK that archived rubrics have a reason.      *)
(*                                                                         *)
(* Abstraction: rubrics, criteria and bands are named by the calls that    *)
(* made them, users and reasons by the calls that brought them.  Weights   *)
(* and scores are small integers, Full is the weight 1.0; rounding is left *)
(* out.  So are the guards and the checks of a body on its own, which turn *)
(* a call away before it reads a table, the letters, the metadata and the  *)
(* operations that only read.                                              *)
(***************************************************************************)
EXTENDS Integers, FiniteSets, FiniteSetsExt

CONSTANTS Calls,       \* the calls; each is made once
          Drafts,      \* rubrics that are drafts at the start
          Nobody,
          Names,
          Scopes,
          NoScope,     \* the scope column is NULL
          Weights,     \* of criteria
          Full,        \* the largest sum of weights
          Points,      \* scores, the ends of bands
          Operations   \* what callers do

ASSUME RubricAssumption ==
  /\ Calls \cap Drafts = {} /\ Nobody \notin Calls \cup Drafts
  /\ NoScope \notin Scopes
  /\ Weights \subseteq 0..Full /\ Full \in Nat
  /\ Points \subseteq Int
  /\ Operations \subseteq {"Create", "Clone", "Update", "Archive", "Criterion", "Band"}

Rows == Calls \cup Drafts

VARIABLES
  rubrics,   \* [Rows -> Row]: the committed table
  criteria,  \* \subseteq Criterion
  bands,     \* \subseteq Band
  audit,     \* the committed audit rows
  rowLock,   \* [Rows -> Calls \cup {Nobody}]
  call,      \* [Calls -> Call \cup {NoCall}]
  seen,      \* [Calls -> Row]: the rubric a call has read without a lock
  pc,        \* [Calls -> Step]
  answer     \* [Calls -> Answer]

vars == <<rubrics, criteria, bands, audit, rowLock, call, seen, pc, answer>>

Status == {"draft", "active", "archived"}

allowedRubricTransitions == {<<"draft", "active">>, <<"active", "archived">>}

Row == [status  : Status \cup {"absent"},
        name    : Names \cup {Nobody},
        scope   : Scopes \cup {NoScope},
        reason  : Calls \cup {Nobody},   \* archive_reason
        creator : Rows \cup {Nobody}]    \* created_by

NoRow ==
  [status |-> "absent", name |-> Nobody, scope |-> NoScope, reason |-> Nobody, creator |-> Nobody]

Criterion == [id : Calls, rubric : Rows, weight : Weights]

Interval == {i \in [min : Points, max : Points] : i.min < i.max}

Band == [id : Calls, rubric : Rows, range : Interval]

\* What the body of a call may hold; a status of "" leaves it alone.
Identity == [name : Names, scope : Scopes \cup {NoScope}]

Change == [name : Names, scope : Scopes \cup {NoScope}, status : Status \cup {""}]

Call ==
  UNION {[op : {"Create"} \cap Operations, row : {Nobody}, body : Identity],
         [op : {"Clone", "Archive"} \cap Operations, row : Rows, body : {""}],
         [op : {"Update"} \cap Operations, row : Rows, body : Change],
         [op : {"Criterion"} \cap Operations, row : Rows, body : Weights],
         [op : {"Band"} \cap Operations, row : Rows, body : Interval]}

NoCall == [op |-> "none", row |-> Nobody, body |-> ""]

\* RUBRIC_CREATED, _UPDATED, _ARCHIVED, _CRITERION_ADDED, _BAND_ADDED.
AuditRow == [action : {"Create", "Update", "Archive", "Criterion", "Band"},
             row    : Rows,
             by     : Rows]

Step == {"idle", "look", "count", "lock", "write", "commit", "done"}

Answer == {"none", "ok", "notfound", "archived", "badstatus", "duplicate", "overweight",
           "overlap", "error"}

Absent(row) == row.status = "absent"

\* A new draft.
Inserted(i, identity) ==
  [NoRow EXCEPT !.status = "draft", !.name = identity.name, !.scope = identity.scope,
                !.creator = i]

Init ==
  \E identity \in [Drafts -> Identity] :
    /\ rubrics = [i \in Rows |-> IF i \in Drafts THEN Inserted(i, identity[i]) ELSE NoRow]
    /\ criteria = {} /\ bands = {}
    /\ audit = {[action |-> "Create", row |-> i, by |-> i] : i \in Drafts}
    /\ rowLock = [i \in Rows |-> Nobody]
    /\ call = [r \in Calls |-> NoCall]
    /\ seen = [r \in Calls |-> NoRow]
    /\ pc = [r \in Calls |-> "idle"]
    /\ answer = [r \in Calls |-> "none"]

-----------------------------------------------------------------------------
\* The end of a call: the row's lock is given back, the body and what was read are
\* forgotten.
Finish(r, ans) ==
  /\ pc' = [pc EXCEPT ![r] = "done"]
  /\ answer' = [answer EXCEPT ![r] = ans]
  /\ rowLock' = [i \in Rows |-> IF rowLock[i] = r THEN Nobody ELSE rowLock[i]]
  /\ seen' = [seen EXCEPT ![r] = NoRow]
  /\ call' = [call EXCEPT ![r] = NoCall]

Return(r, ans) == Finish(r, ans) /\ UNCHANGED <<rubrics, criteria, bands, audit>>

Goto(r, step) ==
  /\ pc' = [pc EXCEPT ![r] = step]
  /\ UNCHANGED <<rubrics, criteria, bands, audit, call, answer>>

FirstStep(op) == CASE op = "Create"                           -> "write"
                   [] op = "Archive"                          -> "lock"
                   [] op = "Band"                             -> "count"
                   [] op \in {"Clone", "Update", "Criterion"} -> "look"

\* A rubric is created under the name of the call.
Arrive(r) ==
  /\ pc[r] = "idle"
  /\ \E c \in Call :
       /\ call' = [call EXCEPT ![r] = [c EXCEPT !.row = IF c.op = "Create" THEN r ELSE @]]
       /\ pc' = [pc EXCEPT ![r] = FirstStep(c.op)]
  /\ UNCHANGED <<rubrics, criteria, bands, audit, rowLock, seen, answer>>

\* GetRubricByID of handleCloneNewVersion and handleUpdateRubric; for a criterion,
\* the transaction that looks for the evaluation item, which is there or not.
Look(r) ==
  LET row == rubrics[call[r].row] IN
  /\ pc[r] = "look"
  /\ \/ call[r].op # "Criterion" /\ Absent(row) /\ Return(r, "notfound")
     \/ call[r].op = "Clone" /\ row.status = "archived" /\ Return(r, "archived")
     \/ call[r].op = "Criterion" /\ Return(r, "notfound")
     \/ /\ call[r].op = "Criterion" \/ ~Absent(row)
        /\ call[r].op = "Clone" => row.status # "archived"
        /\ seen' = [seen EXCEPT ![r] = row]
        /\ Goto(r, IF call[r].op = "Clone" THEN "write" ELSE "count")
        /\ UNCHANGED rowLock

\* Is there an active rubric in the scope?  Without a scope, CountRubrics counts all.
ActiveIn(scope) ==
  \E i \in Rows : rubrics[i].status = "active" /\ (scope = NoScope \/ rubrics[i].scope = scope)

\* The sum of the weights of a rubric's criteria.
WeightOf(i) == MapThenSumSet(LAMBDA c : c.weight, {c \in criteria : c.rubric = i})

\* Both ends belong to a band.
Overlap(a, b) == a.min <= b.max /\ a.max >= b.min

BandsOf(i) == {b \in bands : b.rubric = i}

\* What the handlers' own checks, made before the row is locked, refuse.
Objection(r) ==
  LET body == call[r].body IN
  CASE /\ call[r].op = "Update" /\ seen[r].status = "draft" /\ body.status = "active"
       /\ ActiveIn(body.scope)                                             -> "duplicate"
    [] call[r].op = "Criterion" /\ WeightOf(call[r].row) + body > Full     -> "overweight"
    [] /\ call[r].op = "Band"
       /\ \E b \in BandsOf(call[r].row) : Overlap(b.range, body)           -> "overlap"
    [] OTHER                                                              -> "none"

Count(r) ==
  /\ pc[r] = "count"
  /\ \/ Objection(r) # "none" /\ Return(r, Objection(r))
     \/ Objection(r) = "none" /\ Goto(r, "lock") /\ UNCHANGED <<rowLock, seen>>

\* The status a call asks for, if it asks for another one than s.
Asked(r, s) ==
  CASE call[r].op = "Archive" -> {"archived"}
    [] call[r].op = "Update"  -> {call[r].body.status} \ {"", s}
    [] OTHER                  -> {}

\* Mutant: nobody looks the transition up.
Refusal_AnyTransition(r, s) ==
  IF Absent(rubrics[call[r].row]) THEN "notfound"
  ELSE IF s = "archived" /\ call[r].op # "Archive" THEN "archived"
  ELSE "none"

\* Why a call on a rubric in status s is turned down; "none" if it is not.
Refusal(r, s) ==
  IF Absent(rubrics[call[r].row]) THEN "notfound"
  ELSE IF s = "archived" /\ call[r].op # "Archive" THEN "archived"
  ELSE IF \E next \in Asked(r, s) : <<s, next>> \notin allowedRubricTransitions THEN "badstatus"
  ELSE "none"

\* lockAndCheckRubricStatus and the checks of the status it returns.
Lock(r) ==
  LET refusal == Refusal(r, rubrics[call[r].row].status) IN
  /\ pc[r] = "lock"
  /\ rowLock[call[r].row] = Nobody
  /\ \/ refusal # "none" /\ Return(r, refusal)
     \/ /\ refusal = "none"
        /\ rowLock' = [rowLock EXCEPT ![call[r].row] = r]
        /\ Goto(r, "write")
        /\ UNCHANGED seen

\* The row after the INSERT or the UPDATE of a call.
Written(r) ==
  LET row == rubrics[call[r].row]
      body == call[r].body IN
  CASE call[r].op = "Create"  -> Inserted(r, body)
    [] call[r].op = "Clone"   -> Inserted(r, seen[r])
    [] call[r].op = "Archive" -> [row EXCEPT !.status = "archived", !.reason = r]
    [] call[r].op = "Update"  ->
         [row EXCEPT !.status = IF body.status = "" THEN @ ELSE body.status,
                     !.name = body.name, !.scope = body.scope]
    [] OTHER                  -> row

\* The row a call writes: a new one, or the one it is about.
Target(r) == IF call[r].op = "Clone" THEN r ELSE call[r].row

\* rubrics_active_unique_idx; rows without a scope are all different.
SameKey(a, b) ==
  /\ a.status = "active" /\ b.status = "active"
  /\ a.name = b.name /\ a.scope = b.scope /\ a.scope # NoScope

Duplicate(r) == \E i \in Rows \ {call[r].row} : SameKey(rubrics[i], Written(r))

Unreasoned(r) == Written(r).status = "archived" /\ Written(r).reason = Nobody

Overlapping(r) == \E b \in BandsOf(call[r].row) : Overlap(b.range, call[r].body)

\* Mutant: there is no unique index.
Violated_NoIndex(r) ==
  CASE call[r].op = "Update" /\ Unreasoned(r) -> "error"
    [] call[r].op = "Band" /\ Overlapping(r)  -> "overlap"
    [] OTHER                                  -> "none"

\* Mutant: bands may overlap as far as the database is concerned.
Violated_NoExclusion(r) ==
  CASE call[r].op = "Update" /\ Duplicate(r)                     -> "duplicate"
    [] call[r].op = "Update" /\ Unreasoned(r) /\ ~Duplicate(r) -> "error"
    [] OTHER                                                     -> "none"

\* The constraint a call's statement violates: the unique index, the CHECK of the
\* reason (which no handler maps to an answer of its own) or the exclusion.
Violated(r) ==
  CASE call[r].op = "Update" /\ Duplicate(r)                     -> "duplicate"
    [] call[r].op = "Update" /\ Unreasoned(r) /\ ~Duplicate(r) -> "error"
    [] call[r].op = "Band" /\ Overlapping(r)                     -> "overlap"
    [] OTHER                                                     -> "none"

\* The index makes a writer wait while another transaction is about to give up or
\* take the key.
KeyInDoubt(r) ==
  \E q \in Calls \ {r} : /\ pc[q] = "commit" /\ call[q].op \in {"Update", "Archive"}
                         /\ \/ SameKey(Written(q), Written(r))
                            \/ SameKey(rubrics[call[q].row], Written(r))

\* The statements of a call, unseen until the commit.
Write(r) ==
  /\ pc[r] = "write"
  /\ ~(call[r].op = "Update" /\ KeyInDoubt(r))
  /\ \/ Violated(r) # "none" /\ Return(r, Violated(r))
     \/ Violated(r) = "none" /\ Goto(r, "commit") /\ UNCHANGED <<rowLock, seen>>

\* Mutant: nobody is named.
Recorded_Anonymous(r) ==
  [action |-> IF call[r].op = "Clone" THEN "Create" ELSE call[r].op,
   row |-> Target(r), by |-> Nobody]

\* Mutant: the audit names the rubric's creator.
Recorded_Creator(r) ==
  [action |-> IF call[r].op = "Clone" THEN "Create" ELSE call[r].op,
   row |-> Target(r), by |-> Written(r).creator]

\* The audit row of a call; a clone is recorded as a creation.
Recorded(r) ==
  [action |-> IF call[r].op = "Clone" THEN "Create" ELSE call[r].op, row |-> Target(r), by |-> r]

\* A commit may take effect without its acknowledgement.
Commit(r) ==
  LET c == call[r] IN
  /\ pc[r] = "commit"
  /\ rubrics' = [rubrics EXCEPT ![Target(r)] = Written(r)]
  /\ criteria' = IF c.op = "Criterion"
                 THEN criteria \cup {[id |-> r, rubric |-> c.row, weight |-> c.body]}
                 ELSE criteria
  /\ bands' = IF c.op = "Band"
              THEN bands \cup {[id |-> r, rubric |-> c.row, range |-> c.body]}
              ELSE bands
  /\ audit' = audit \cup {Recorded(r)}
  /\ Finish(r, "ok") \/ Finish(r, "error")

\* A statement fails, the client or the process goes away: rollback.
Abort(r) == pc[r] \notin {"idle", "done"} /\ Return(r, "error")

Next == \E r \in Calls : \/ Arrive(r) \/ Look(r) \/ Count(r) \/ Lock(r) \/ Write(r)
                         \/ Commit(r) \/ Abort(r)

Spec == Init /\ [][Next]_vars

-----------------------------------------------------------------------------
(* Properties.                                                             *)

TypeOK ==
  /\ rubrics \in [Rows -> Row]
  /\ criteria \subseteq Criterion
  /\ bands \subseteq Band
  /\ audit \subseteq AuditRow
  /\ rowLock \in [Rows -> Calls \cup {Nobody}]
  /\ \A r \in Calls : pc[r] \notin {"idle", "done"} => call[r].row \in Rows
  /\ seen \in [Calls -> Row]
  /\ pc \in [Calls -> Step]
  /\ answer \in [Calls -> Answer]

\* Activations and edits that race, or follow each other, never make two rubrics of
\* one name and scope active (the unique index of migration 0006).
OneActivePerScope == \A i, j \in Rows : SameKey(rubrics[i], rubrics[j]) => i = j

\* A rubric never goes back, and an archived one keeps its columns, its criteria
\* and its bands, whatever else is under way (archived is terminal).
ArchivedIsFinal ==
  [][\A i \in Rows :
       /\ rubrics[i].status = "active" => rubrics'[i].status # "draft"
       /\ rubrics[i].status = "archived" =>
            /\ rubrics'[i] = rubrics[i]
            /\ {c \in criteria' : c.rubric = i} = {c \in criteria : c.rubric = i}
            /\ {b \in bands' : b.rubric = i} = BandsOf(i)]_vars

\* A rubric has a reason exactly when it is archived, through whichever handler.
ArchivedForReason == \A i \in Rows : rubrics[i].status = "archived" <=> rubrics[i].reason # Nobody

\* A score lies in one band of a rubric at most, so ApplyRubric's scan does not
\* depend on the order of the bands.
OneBandPerScore ==
  \A b, d \in bands : b.rubric = d.rubric /\ Overlap(b.range, d.range) => b = d

\* The audit tells who made every rubric, criterion and band and who archived a
\* rubric, and tells of nothing that is not there.
AuditTells ==
  /\ {<<a.row, a.by>> : a \in {x \in audit : x.action = "Create"}}
       = {<<i, rubrics[i].creator>> : i \in {j \in Rows : ~Absent(rubrics[j])}}
  /\ {<<a.row, a.by>> : a \in {x \in audit : x.action = "Archive"}}
       = {<<i, rubrics[i].reason>> : i \in {j \in Rows : rubrics[j].status = "archived"}}
  /\ {<<a.row, a.by>> : a \in {x \in audit : x.action = "Criterion"}}
       = {<<c.rubric, c.id>> : c \in criteria}
  /\ {<<a.row, a.by>> : a \in {x \in audit : x.action = "Band"}}
       = {<<b.rubric, b.id>> : b \in bands}

\* A caller who is told that his change was made finds it in the audit, and nobody
\* who was refused does.
AnswersTrue ==
  \A r \in Calls : LET told == \E a \in audit : a.by = r IN
    /\ answer[r] = "ok" => told
    /\ answer[r] \notin {"ok", "error"} => ~told

\* The weights of a rubric's criteria never exceed 1.0 (the check of
\* handleAddCriterion).
WeightsBounded == \A i \in Rows : WeightOf(i) <= Full

\* Calls act on the tables one at a time: the status and the constraints a change is held
\* to are those of the tables it is committed to, whatever was looked up early, and every
\* refusal is true when it is given, as RubricHistory says.
History == INSTANCE RubricHistory
  WITH Calls <- Calls, Drafts <- Drafts, Nobody <- Nobody, Names <- Names, Scopes <- Scopes,
       NoScope <- NoScope, Weights <- Weights, Full <- Full, Points <- Points,
       rubrics <- rubrics, criteria <- criteria, bands <- bands, log <- audit,
       asked <- call, seen <- seen, answer <- answer

ImplementsHistory == History!Spec
=============================================================================
