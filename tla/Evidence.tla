----------------------------- MODULE Evidence ------------------------------
(***************************************************************************)
(* Versioned evidence files: internal/store/evidence.go and the upload     *)
(* handler of cmd/server/evidence_handlers.go.                             *)
(*                                                                         *)
(* An upload finds the latest version of its evaluation item with SELECT   *)
(* ... ORDER BY version DESC LIMIT 1 FOR UPDATE, inserts its successor and *)
(* marks it SUPERSEDED.  PostgreSQL picks the row from the statement's     *)
(* snapshot, waits for its lock, and returns that same row as it is then:  *)
(* a version inserted meanwhile is not seen.  With no row to lock there is *)
(* nothing to wait for.                                                    *)
(*                                                                         *)
(* Abstraction: a row is named by the upload that inserted it, its file by *)
(* the call that wrote it last.  The multipart parsing, the digest, the    *)
(* location of the blob and the duplicate signal, which decide nothing     *)
(* about versions, are left out.                                           *)
(***************************************************************************)
EXTENDS Naturals, FiniteSets

CONSTANTS Items,        \* evaluation items
          Seeded,       \* those that have a first version at the start
          Requests,     \* the calls; each is made once
          Edits,        \* whether callers use UpdateEvidenceBodyColumn
          None          \* no row, nobody

ASSUME DistinctNames == /\ Seeded \subseteq Items
                        /\ Requests \cap Items = {}
                        /\ None \notin Requests \cup Items

ASSUME EditsAssumption == Edits \in BOOLEAN

\* The first version of a seeded item bears the item's name.
Rows == Requests \cup Seeded

VARIABLES
  evidences,  \* [Rows -> Row]: the committed table
  audit,      \* the committed audit rows
  rowLock,    \* [Rows -> Requests \cup {None}]
  call,       \* [Requests -> Call \cup {NoCall}]
  pc,         \* [Requests -> Step]
  target,     \* [Requests -> Rows \cup {None}]: the row the handler found
  answer      \* [Requests -> Answer]

vars == <<evidences, audit, rowLock, call, pc, target, answer>>

Row == [status : {"ABSENT", "ACTIVE", "SUPERSEDED"}, item : Items \cup {None},
        version : Nat, prev : Rows \cup {None}, body : Rows \cup {None}]

NoRow == [status |-> "ABSENT", item |-> None, version |-> 0, prev |-> None, body |-> None]

\* An upload for an item, or a change of the file of a row.
Call == [op : {"Upload"}, item : Items, row : {None}]
          \cup [op : {"Edit"}, item : {None}, row : Rows]

NoCall == [op |-> "none", item |-> None, row |-> None]

AuditRow == [action : {"EVIDENCE_CREATED", "EVIDENCE_VERSIONED"}, row : Rows]

Step == {"idle", "find", "lock", "write", "commit", "done"}

Answer == {"none", "ok", "notfound", "raced", "immutable", "error"}

First(i, item) == [status |-> "ACTIVE", item |-> item, version |-> 1, prev |-> None,
                   body |-> i]

Init ==
  /\ evidences = [i \in Rows |-> IF i \in Seeded THEN First(i, i) ELSE NoRow]
  /\ audit = {[action |-> "EVIDENCE_CREATED", row |-> i] : i \in Seeded}
  /\ rowLock = [i \in Rows |-> None]
  /\ call = [r \in Requests |-> NoCall]
  /\ pc = [r \in Requests |-> "idle"]
  /\ target = [r \in Requests |-> None]
  /\ answer = [r \in Requests |-> "none"]

-----------------------------------------------------------------------------
Present(i) == evidences[i].status # "ABSENT"

\* The committed versions of an item.
VersionsOf(item) == {i \in Rows : Present(i) /\ evidences[i].item = item}

\* What ORDER BY version DESC LIMIT 1 may return: any row of the top version.
LatestOf(item) == {i \in VersionsOf(item) :
                     \A j \in VersionsOf(item) : evidences[j].version <= evidences[i].version}

Successors(i) == {j \in Rows : Present(j) /\ evidences[j].prev = i}

Finish(r, ans) ==
  /\ pc' = [pc EXCEPT ![r] = "done"]
  /\ answer' = [answer EXCEPT ![r] = ans]
  /\ rowLock' = [i \in Rows |-> IF rowLock[i] = r THEN None ELSE rowLock[i]]
  /\ UNCHANGED <<call, target>>

Return(r, ans) == Finish(r, ans) /\ UNCHANGED <<evidences, audit>>

Arrive(r) ==
  /\ pc[r] = "idle"
  /\ \E c \in Call : /\ c.op = "Edit" => Edits
                     /\ call' = [call EXCEPT ![r] = c]
  /\ pc' = [pc EXCEPT ![r] = "find"]
  /\ UNCHANGED <<evidences, audit, rowLock, target, answer>>

\* GetLatestVersionByEvalItem: the row the snapshot names is the one to lock;
\* without a row the upload makes the first version.
Find(r) ==
  /\ pc[r] = "find" /\ call[r].op = "Upload"
  /\ \/ \E i \in LatestOf(call[r].item) :
          /\ target' = [target EXCEPT ![r] = i]
          /\ pc' = [pc EXCEPT ![r] = "lock"]
     \/ /\ VersionsOf(call[r].item) = {}
        /\ pc' = [pc EXCEPT ![r] = "write"]
        /\ UNCHANGED target
  /\ UNCHANGED <<evidences, audit, rowLock, call, answer>>

\* UpdateEvidenceBodyColumn counts the successors, then updates by id.
CountSuccessors(r) ==
  /\ pc[r] = "find" /\ call[r].op = "Edit"
  /\ LET i == call[r].row IN
     \/ Successors(i) # {} /\ Return(r, "immutable")
     \/ /\ Successors(i) = {}
        /\ target' = [target EXCEPT ![r] = i]
        /\ pc' = [pc EXCEPT ![r] = "lock"]
        /\ UNCHANGED <<evidences, audit, rowLock, call, answer>>

\* The lock of the row, held until the transaction ends; an edit may have
\* named a row that is not there.
Lock(r) ==
  /\ pc[r] = "lock"
  /\ \/ ~Present(target[r]) /\ Return(r, "notfound")
     \/ /\ Present(target[r])
        /\ rowLock[target[r]] = None
        /\ rowLock' = [rowLock EXCEPT ![target[r]] = r]
        /\ pc' = [pc EXCEPT ![r] = "write"]
        /\ UNCHANGED <<evidences, audit, call, target, answer>>

\* Mutant: MarkSuperseded does not look at the status.
Supersedes_Any(r) == TRUE

\* MarkSuperseded only finds a row that is still ACTIVE.
Supersedes(r) == target[r] # None => evidences[target[r]].status = "ACTIVE"

\* InsertEvidence, MarkSuperseded and the audit row, or the column's update,
\* unseen until the commit.
Write(r) ==
  /\ pc[r] = "write"
  /\ \/ call[r].op = "Upload" /\ ~Supersedes(r) /\ Return(r, "raced")
     \/ /\ call[r].op = "Upload" => Supersedes(r)
        /\ pc' = [pc EXCEPT ![r] = "commit"]
        /\ UNCHANGED <<evidences, audit, rowLock, call, target, answer>>

\* Mutant: the version is always the first.
Inserted_Unversioned(r) ==
  LET p == target[r] IN
  [First(r, call[r].item) EXCEPT !.prev = p]

\* The row an upload inserts: version 1, or one more than the row it replaces.
Inserted(r) ==
  LET p == target[r] IN
  [First(r, call[r].item) EXCEPT !.version = IF p = None THEN 1 ELSE evidences[p].version + 1,
                                 !.prev = p]

\* Mutant: every upload is audited as a creation.
Event_Created(r) == [action |-> "EVIDENCE_CREATED", row |-> r]

\* Mutant: the audit row names the evaluation item instead of the version.
Event_OfItem(r) == [action |-> IF Inserted(r).version = 1 THEN "EVIDENCE_CREATED"
                                                         ELSE "EVIDENCE_VERSIONED",
                    row    |-> call[r].item]

\* RecordEvidenceCreated for a first version, RecordEvidenceVersioned after it.
Event(r) == [action |-> IF Inserted(r).version = 1 THEN "EVIDENCE_CREATED"
                                                  ELSE "EVIDENCE_VERSIONED",
             row    |-> r]

Publish(r) ==
  IF call[r].op = "Edit"
  THEN /\ evidences' = [evidences EXCEPT ![target[r]].body = r]
       /\ UNCHANGED audit
  ELSE /\ evidences' = [i \in Rows |->
            CASE i = r         -> Inserted(r)
              [] i = target[r] -> [evidences[i] EXCEPT !.status = "SUPERSEDED"]
              [] OTHER         -> evidences[i]]
       /\ audit' = audit \cup {Event(r)}

\* A commit may take effect without its acknowledgement.
Commit(r) ==
  /\ pc[r] = "commit"
  /\ Publish(r)
  /\ Finish(r, "ok") \/ Finish(r, "error")

\* A statement fails, the client or the process goes away: rollback.
Abort(r) == pc[r] \in {"find", "lock", "write", "commit"} /\ Return(r, "error")

Next == \E r \in Requests : \/ Arrive(r) \/ Find(r) \/ CountSuccessors(r) \/ Lock(r)
                            \/ Write(r) \/ Commit(r) \/ Abort(r)

Spec == Init /\ [][Next]_vars

-----------------------------------------------------------------------------
(* Properties.                                                             *)

TypeOK ==
  /\ evidences \in [Rows -> Row]
  /\ audit \subseteq AuditRow
  /\ rowLock \in [Rows -> Requests \cup {None}]
  /\ call \in [Requests -> Call \cup {NoCall}]
  /\ pc \in [Requests -> Step]
  /\ target \in [Requests -> Rows \cup {None}]
  /\ answer \in [Requests -> Answer]

\* The versions of an item never fork: a row has at most one successor, it is
\* SUPERSEDED exactly when it has one, and the successor is of the same item and
\* carries the next version.
ChainsDoNotFork ==
  \A i \in Rows :
    /\ \A j, k \in Successors(i) : j = k
    /\ evidences[i].status = "SUPERSEDED" <=> Successors(i) # {}
    /\ \A j \in Successors(i) : /\ evidences[j].item = evidences[i].item
                               /\ evidences[j].version = evidences[i].version + 1

\* Every version has one audit row, a creation for the first of a chain and a
\* versioning for the others; no audit row is about a version that is not there.
AuditNamesVersions ==
  /\ \A a \in audit : Present(a.row)
  /\ \A i \in Rows : Present(i) =>
       {a \in audit : a.row = i} =
         {[action |-> IF evidences[i].prev = None THEN "EVIDENCE_CREATED"
                                                 ELSE "EVIDENCE_VERSIONED", row |-> i]}

Unique(item) == \A i, j \in VersionsOf(item) :
                  evidences[i].version = evidences[j].version => i = j

\* Once an item has a first version, its later versions are numbered without a
\* duplicate and exactly one of them, the latest, is ACTIVE.
SeededVersionsUnique ==
  \A item \in Seeded :
    /\ Unique(item)
    /\ {i \in VersionsOf(item) : evidences[i].status = "ACTIVE"} = LatestOf(item)

\* The lock makes duplicate versions impossible (the comment of
\* GetLatestVersionByEvalItem).
VersionsUnique == \A item \in Items : Unique(item)

\* The version in force of an item that has one, its number, and its earlier versions.
Current(item) == CHOOSE i \in VersionsOf(item) : evidences[i].status = "ACTIVE"

Top(item) == evidences[Current(item)].version

Version(item, n) == CHOOSE i \in VersionsOf(item) : evidences[i].version = n

Versions == [item \in Seeded |-> [n \in 1..Top(item) |-> Version(item, n)]]

\* The uploads for seeded items, what they found, and what they were told.
OfSeeded(r) == call[r].op = "Upload" /\ call[r].item \in Seeded

Asked == [r \in Requests |-> IF OfSeeded(r) THEN call[r].item ELSE None]

Seen == [r \in Requests |-> IF OfSeeded(r) /\ target[r] # None
                            THEN evidences[target[r]].version ELSE 0]

Told == [r \in Requests |-> IF OfSeeded(r) THEN answer[r] ELSE "none"]

\* The versions of a seeded item are a list that only grows, an upload at a time: the row
\* lock and MarkSuperseded make of each upload a compare-and-append, as EvidenceHistory
\* says.
History == INSTANCE EvidenceHistory
  WITH Seeded <- Seeded, Requests <- Requests, None <- None,
       history <- Versions, asked <- Asked, seen <- Seen, answer <- Told

ImplementsHistory == History!Spec
=============================================================================
