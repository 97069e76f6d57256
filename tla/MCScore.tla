------------------------------ MODULE MCScore ------------------------------
(* Instances of Score for TLC. *)
EXTENDS Score, TLC

\* Calls are interchangeable, and so are rows that began alike.
Symmetric == Permutations(Requests) \cup Permutations(Drafts) \cup Permutations(Confirmed)
=============================================================================
