----------------------------- MODULE MCWorkflow -----------------------------
(* Instances of Workflow for TLC. *)
EXTENDS Workflow, TLC

\* Calls and workflows are interchangeable: none is named in the module.
Symmetric == Permutations(Requests) \cup Permutations(Workflows)
=============================================================================
