------------------------------ MODULE MCReview ------------------------------
(* Instances of Review for TLC. *)
EXTENDS Review, TLC

\* Calls are interchangeable, and so are requests that began alike.
Symmetric == Permutations(Calls) \cup Permutations(Submitted)
=============================================================================
