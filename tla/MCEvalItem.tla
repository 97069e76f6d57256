----------------------------- MODULE MCEvalItem -----------------------------
(* Instances of EvalItem for TLC. *)
EXTENDS EvalItem, TLC

\* Calls, codes, seeded and other items are interchangeable.
Symmetric == Permutations(Calls) \cup Permutations(Codes) \cup Permutations(Seeded)
             \cup Permutations(Items \ Seeded)
=============================================================================
