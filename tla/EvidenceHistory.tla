-------------------------- MODULE EvidenceHistory --------------------------
(***************************************************************************)
(* What an evaluation item that has a version promises to those who upload *)
(* the next: a list of versions that only grows at its end, by one version *)
(* at a time.  An upload looks at the list once and is appended only if    *)
(* nothing was appended since; it is told that it was raced only if        *)
(* something was.  The module Evidence, where the list is a table whose    *)
(* rows are locked, numbered and superseded, is shown to implement this    *)
(* specification.                                                          *)
(***************************************************************************)
EXTENDS Naturals, Sequences

CONSTANTS Seeded,    \* the items; the first version of each bears its name
          Requests,  \* the calls; each is made once
          None

VARIABLES history,  \* [Seeded -> Seq(Seeded \cup Requests)]: the uploads, oldest first
          asked,    \* [Requests -> Seeded \cup {None}]: whose list a call is about
          seen,     \* [Requests -> Nat]: how long the list was when it looked
          answer    \* [Requests -> STRING]

vars == <<history, asked, seen, answer>>

Init ==
  /\ history = [item \in Seeded |-> <<item>>]
  /\ asked = [r \in Requests |-> None]
  /\ seen = [r \in Requests |-> 0]
  /\ answer = [r \in Requests |-> "none"]

Ask(r) ==
  /\ asked[r] = None
  /\ \E item \in Seeded : asked' = [asked EXCEPT ![r] = item]
  /\ UNCHANGED <<history, seen, answer>>

Open(r) == asked[r] # None /\ answer[r] = "none"

Look(r) ==
  /\ Open(r) /\ seen[r] = 0
  /\ seen' = [seen EXCEPT ![r] = Len(history[asked[r]])]
  /\ UNCHANGED <<history, asked, answer>>

Tell(r, a) == answer' = [answer EXCEPT ![r] = a] /\ UNCHANGED <<asked, seen>>

\* The caller may not hear that his version was added.
Add(r) ==
  /\ Open(r) /\ seen[r] = Len(history[asked[r]])
  /\ history' = [history EXCEPT ![asked[r]] = Append(@, r)]
  /\ Tell(r, "ok") \/ Tell(r, "error")

Raced(r) ==
  /\ Open(r) /\ 0 < seen[r] /\ seen[r] < Len(history[asked[r]])
  /\ Tell(r, "raced")
  /\ UNCHANGED history

Fail(r) == Open(r) /\ Tell(r, "error") /\ UNCHANGED history

Next == \E r \in Requests : Ask(r) \/ Look(r) \/ Add(r) \/ Raced(r) \/ Fail(r)

Spec == Init /\ [][Next]_vars
=============================================================================
