---------------------------- MODULE MCEvidence -----------------------------
(* Instances of Evidence for TLC. *)
EXTENDS Evidence, TLC

\* Calls are interchangeable, and so are items that began alike.
Symmetric == Permutations(Requests) \cup Permutations(Seeded) \cup Permutations(Items \ Seeded)
=============================================================================
