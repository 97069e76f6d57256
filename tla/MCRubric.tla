------------------------------ MODULE MCRubric ------------------------------
(* Instances of Rubric for TLC. *)
EXTENDS Rubric, TLC

\* Calls are interchangeable, and so are the names, the scopes and the drafts.
Symmetric ==
  Permutations(Calls) \cup Permutations(Names) \cup Permutations(Scopes) \cup Permutations(Drafts)
=============================================================================
